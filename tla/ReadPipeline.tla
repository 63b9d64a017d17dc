---------------------------- MODULE ReadPipeline ----------------------------
(***************************************************************************)
(* The block pipeline of one read (read_raster_async_impl).                *)
(*                                                                         *)
(* The producer is a stream of fetch futures, at most IoConcurrency of     *)
(* them in flight, polled on R's main thread.  Each fetches the blocks of  *)
(* one fetch unit and then sends them, one by one, into a bounded channel. *)
(* The workers are blocking-pool threads that receive a block, decode it   *)
(* and fold it into the store of partial cell statistics.  The main task   *)
(* drives the producer, awaits the workers' handles in order and answers.  *)
(*                                                                         *)
(* What a failed fetch, a corrupt block, a panicking worker and an         *)
(* interrupt by the user do to the others is part of the model.            *)
(***************************************************************************)
EXTENDS Integers, Sequences, FiniteSets

CONSTANTS
  Tile,           \* the blocks the plans of every source selected
  Units,          \* the fetch units: a sequence of non-empty runs of blocks
  NWorkers,       \* cpu_workers
  IoConcurrency,  \* fetch futures in flight
  NoTile          \* the empty hand of a worker

\* A block belongs to exactly one fetch unit: see FetchPlan, which builds them.
UnitsAssumption ==
  /\ Units \in Seq(Seq(Tile))
  /\ \A u \in DOMAIN Units : Units[u] # <<>>
  /\ \A u, v \in DOMAIN Units : \A i \in DOMAIN Units[u], j \in DOMAIN Units[v] :
        Units[u][i] = Units[v][j] => u = v /\ i = j
  /\ \A t \in Tile : \E u \in DOMAIN Units : \E i \in DOMAIN Units[u] : Units[u][i] = t

\* Both settings are at least one: check_scalar_count and resolve_cpu_workers in R.
SettingsAssumption ==
  /\ NWorkers \in Nat \ {0}
  /\ IoConcurrency \in Nat \ {0}
  /\ NoTile \notin Tile

ASSUME PipelineAssumption == UnitsAssumption /\ SettingsAssumption

UnitIds == DOMAIN Units
Workers == 1..NWorkers
\* Capacity of the channel between the producer and the workers.
ChannelDepth == IF 2 * NWorkers > 4 THEN 2 * NWorkers ELSE 4
Size(u) == Len(Units[u])

VARIABLES
  next,    \* the next unit the stream hands out
  task,    \* state of each unit's future
  sent,    \* number of blocks each unit's future has sent
  chan,    \* the channel, oldest block first
  outer,   \* the main task's own sender: "held" or "dropped"
  worker,  \* state of each worker
  hand,    \* the block each worker received and has not folded
  folded,  \* how often each block has been folded into the store
  main,    \* where the main task is
  joined,  \* the handle the main task awaits
  cause,   \* what stopped the producer
  result   \* the answer of the read

vars == <<next, task, sent, chan, outer, worker, hand, folded, main, joined, cause, result>>
producerVars == <<next, task, sent, outer>>
workerVars == <<worker, hand, folded>>
mainVars == <<main, joined, cause, result>>

TaskStates == {"waiting", "fetching", "sending", "done", "dropped"}
WorkerStates == {"spawned", "idle", "busy", "ok", "err", "panic", "cancelled"}
Causes == {"none", "fetch", "closed"}
Results == {"none", "ok", "decode error", "worker panic", "shared store",
            "fetch error", "dropped channel", "interrupted"}

Init ==
  /\ next = 1
  /\ task = [u \in UnitIds |-> "waiting"]
  /\ sent = [u \in UnitIds |-> 0]
  /\ chan = <<>>
  /\ outer = "held"
  /\ worker = [w \in Workers |-> "spawned"]
  /\ hand = [w \in Workers |-> NoTile]
  /\ folded = [t \in Tile |-> 0]
  /\ main = "producing"
  /\ joined = 1
  /\ cause = "none"
  /\ result = "none"

-----------------------------------------------------------------------------
(* The ends of the channel. *)

Live == {u \in UnitIds : task[u] \in {"fetching", "sending"}}
Ended(w) == worker[w] \in {"ok", "err", "panic", "cancelled"}
Failed(w) == worker[w] \in {"err", "panic"}
\* A future in flight holds a clone of the sender, a worker holds a clone of
\* the receiver from the moment it is spawned until its closure returns.
NoSenders == outer = "dropped" /\ Live = {}
NoReceivers == \A w \in Workers : Ended(w)

\* Dropping the stream drops the futures in flight and their senders.
DropTasks ==
  [u \in UnitIds |-> IF task[u] \in {"fetching", "sending"} THEN "dropped" ELSE task[u]]

-----------------------------------------------------------------------------
(* The producer: polled by the main task while it awaits try_collect. *)

\* buffer_unordered takes the next unit from the stream while it has room.
StartFetch ==
  /\ main = "producing"
  /\ next \in UnitIds
  /\ Cardinality(Live) < IoConcurrency
  /\ task' = [task EXCEPT ![next] = "fetching"]
  /\ next' = next + 1
  /\ UNCHANGED <<sent, outer, chan, workerVars, mainVars>>

\* The unit's blocks, and the mask block of each, have arrived.
FetchDone(u) ==
  /\ main = "producing"
  /\ task[u] = "fetching"
  /\ task' = [task EXCEPT ![u] = "sending"]
  /\ UNCHANGED <<next, sent, outer, chan, workerVars, mainVars>>

\* The stream yields the first error and is dropped; then `abort` reaches the
\* handle of every worker, which stops only those the pool has not started.
ProducerFails(why) ==
  /\ task' = DropTasks
  /\ worker' = [w \in Workers |-> IF worker[w] = "spawned" THEN "cancelled" ELSE worker[w]]
  /\ main' = "aborting"
  /\ cause' = why
  /\ UNCHANGED <<next, sent, outer, chan, hand, folded, joined, result>>

FetchFails(u) ==
  /\ main = "producing"
  /\ task[u] = "fetching"
  /\ ProducerFails("fetch")

\* A slip: an unbounded channel.
SendUnbounded(u) ==
  /\ main = "producing"
  /\ task[u] = "sending"
  /\ ~NoReceivers
  /\ chan' = Append(chan, Units[u][sent[u] + 1])
  /\ sent' = [sent EXCEPT ![u] = @ + 1]
  /\ task' = [task EXCEPT ![u] = IF sent[u] + 1 = Size(u) THEN "done" ELSE "sending"]
  /\ UNCHANGED <<next, outer, workerVars, mainVars>>

Send(u) ==
  /\ main = "producing"
  /\ task[u] = "sending"
  /\ ~NoReceivers
  /\ Len(chan) < ChannelDepth
  /\ chan' = Append(chan, Units[u][sent[u] + 1])
  /\ sent' = [sent EXCEPT ![u] = @ + 1]
  /\ task' = [task EXCEPT ![u] = IF sent[u] + 1 = Size(u) THEN "done" ELSE "sending"]
  /\ UNCHANGED <<next, outer, workerVars, mainVars>>

\* Every worker is gone, so the channel is closed to the sender.
SendFails(u) ==
  /\ main = "producing"
  /\ task[u] = "sending"
  /\ NoReceivers
  /\ ProducerFails("closed")

\* A slip: tx_chan lives on until the read returns.
ProducerKeepsSender ==
  /\ main = "producing"
  /\ \A u \in UnitIds : task[u] = "done"
  /\ main' = "draining"
  /\ UNCHANGED <<producerVars, chan, workerVars, joined, cause, result>>

\* try_collect is done, the block ends and drops the last sender.
ProducerDone ==
  /\ main = "producing"
  /\ \A u \in UnitIds : task[u] = "done"
  /\ main' = "draining"
  /\ outer' = "dropped"
  /\ UNCHANGED <<next, task, sent, chan, workerVars, joined, cause, result>>

-----------------------------------------------------------------------------
(* The workers. *)

StartWorker(w) ==
  /\ worker[w] = "spawned"
  /\ worker' = [worker EXCEPT ![w] = "idle"]
  /\ UNCHANGED <<producerVars, chan, hand, folded, mainVars>>

\* A slip: the two workers' receivers each see the block (a broadcast).
ReceiveCopy(w) ==
  /\ worker[w] = "idle"
  /\ chan # <<>>
  /\ hand' = [hand EXCEPT ![w] = Head(chan)]
  /\ worker' = [worker EXCEPT ![w] = "busy"]
  /\ UNCHANGED <<producerVars, chan, folded, mainVars>>

Receive(w) ==
  /\ worker[w] = "idle"
  /\ chan # <<>>
  /\ hand' = [hand EXCEPT ![w] = Head(chan)]
  /\ chan' = Tail(chan)
  /\ worker' = [worker EXCEPT ![w] = "busy"]
  /\ UNCHANGED <<producerVars, folded, mainVars>>

\* A slip: the worker stops once the producer is done, whatever is queued.
ReceiveUntilDone(w) ==
  /\ worker[w] = "idle"
  /\ NoSenders
  /\ worker' = [worker EXCEPT ![w] = "ok"]
  /\ UNCHANGED <<producerVars, chan, hand, folded, mainVars>>

\* recv_blocking fails only once the channel is empty and no sender is left.
ReceiveClosed(w) ==
  /\ worker[w] = "idle"
  /\ chan = <<>>
  /\ NoSenders
  /\ worker' = [worker EXCEPT ![w] = "ok"]
  /\ UNCHANGED <<producerVars, chan, hand, folded, mainVars>>

\* A slip: the block stays in the worker's hand and is folded again.
FoldAgain(w) ==
  /\ worker[w] = "busy"
  /\ folded' = [folded EXCEPT ![hand[w]] = @ + 1]
  /\ \/ hand' = [hand EXCEPT ![w] = NoTile] /\ worker' = [worker EXCEPT ![w] = "idle"]
     \/ UNCHANGED <<hand, worker>>
  /\ UNCHANGED <<producerVars, chan, mainVars>>

\* Decode the block and its mask and fold its pixels into the store.
Fold(w) ==
  /\ worker[w] = "busy"
  /\ folded' = [folded EXCEPT ![hand[w]] = @ + 1]
  /\ hand' = [hand EXCEPT ![w] = NoTile]
  /\ worker' = [worker EXCEPT ![w] = "idle"]
  /\ UNCHANGED <<producerVars, chan, mainVars>>

\* A block that does not decode ends the worker with an error, a panic
\* unwinds it; either way its receiver is dropped.
WorkerFails(w) ==
  /\ worker[w] = "busy"
  /\ \E how \in {"err", "panic"} : worker' = [worker EXCEPT ![w] = how]
  /\ UNCHANGED <<producerVars, chan, hand, folded, mainVars>>

-----------------------------------------------------------------------------
(* The main task. *)

\* A slip: a sender survives the read.
AnswerKeepsSender(r) ==
  /\ main' = "returned"
  /\ result' = r
  /\ UNCHANGED outer

Answer(r) ==
  /\ main' = "returned"
  /\ result' = r
  /\ outer' = "dropped"

FailureOf(w) == IF worker[w] = "err" THEN "decode error" ELSE "worker panic"

\* A slip: only errors are looked for, a panicked handle is passed over.
JoinOverlooksPanic ==
  /\ main = "aborting"
  /\ joined \in Workers
  /\ Ended(joined)
  /\ \/ /\ worker[joined] = "err"
        /\ Answer(FailureOf(joined))
        /\ UNCHANGED joined
     \/ /\ worker[joined] # "err"
        /\ joined' = joined + 1
        /\ UNCHANGED <<main, result, outer>>
  /\ UNCHANGED <<next, task, sent, chan, workerVars, cause>>

\* The first worker error, in handle order, is the cause the read reports.
JoinAborted ==
  /\ main = "aborting"
  /\ joined \in Workers
  /\ Ended(joined)
  /\ \/ /\ Failed(joined)
        /\ Answer(FailureOf(joined))
        /\ UNCHANGED joined
     \/ /\ ~Failed(joined)
        /\ joined' = joined + 1
        /\ UNCHANGED <<main, result, outer>>
  /\ UNCHANGED <<next, task, sent, chan, workerVars, cause>>

\* A slip: the producer's error returns before the handles are awaited.
ReportCauseAtOnce ==
  /\ main = "aborting"
  /\ Answer(IF cause = "fetch" THEN "fetch error" ELSE "dropped channel")
  /\ UNCHANGED <<next, task, sent, chan, workerVars, joined, cause>>

\* No worker failed, so the producer's own error is reported.
ReportCause ==
  /\ main = "aborting"
  /\ joined > NWorkers
  /\ Answer(IF cause = "fetch" THEN "fetch error" ELSE "dropped channel")
  /\ UNCHANGED <<next, task, sent, chan, workerVars, joined, cause>>

\* A slip: the first failure returns, whoever still runs.
JoinDrainingShort ==
  /\ main = "draining"
  /\ joined \in Workers
  /\ Ended(joined)
  /\ \/ /\ Failed(joined)
        /\ Answer(FailureOf(joined))
        /\ UNCHANGED joined
     \/ /\ ~Failed(joined)
        /\ joined' = joined + 1
        /\ UNCHANGED <<main, result, outer>>
  /\ UNCHANGED <<next, task, sent, chan, workerVars, cause>>

\* Every handle is awaited before any result is looked at.
JoinDraining ==
  /\ main = "draining"
  /\ joined \in Workers
  /\ Ended(joined)
  /\ joined' = joined + 1
  /\ UNCHANGED <<producerVars, chan, workerVars, main, cause, result>>

\* The first failure in handle order, else the store if nobody shares it.
Finish ==
  /\ main = "draining"
  /\ joined > NWorkers
  /\ \/ \E w \in Workers :
           /\ Failed(w)
           /\ \A v \in 1..(w - 1) : ~Failed(v)
           /\ Answer(FailureOf(w))
     \/ /\ \A w \in Workers : ~Failed(w)
        /\ Answer(IF NoReceivers THEN "ok" ELSE "shared store")
  /\ UNCHANGED <<next, task, sent, chan, workerVars, joined, cause>>

\* The user interrupts R: block_on_interruptible drops the whole future, and
\* with it the stream, the senders and the handles, which detaches the workers.
Interrupt ==
  /\ main \in {"producing", "aborting", "draining"}
  /\ Answer("interrupted")
  /\ task' = DropTasks
  /\ UNCHANGED <<next, sent, chan, workerVars, joined, cause>>

-----------------------------------------------------------------------------

ProducerStep ==
  \/ StartFetch
  \/ \E u \in UnitIds : FetchDone(u) \/ FetchFails(u) \/ Send(u) \/ SendFails(u)
  \/ ProducerDone

WorkerStep(w) ==
  \/ StartWorker(w)
  \/ Receive(w)
  \/ ReceiveClosed(w)
  \/ Fold(w)
  \/ WorkerFails(w)

MainStep ==
  \/ JoinAborted
  \/ ReportCause
  \/ JoinDraining
  \/ Finish

Next ==
  \/ ProducerStep
  \/ \E w \in Workers : WorkerStep(w)
  \/ MainStep
  \/ Interrupt

\* The runtime polls the producer and the main task as long as one of them
\* can move, the operating system runs every thread of the pool, and a request
\* is answered or fails.  Nobody is obliged to interrupt.
Fairness ==
  /\ WF_vars(ProducerStep)
  /\ \A w \in Workers : WF_vars(WorkerStep(w))
  /\ WF_vars(MainStep)

Spec == Init /\ [][Next]_vars /\ Fairness

-----------------------------------------------------------------------------
(* Properties. *)

\* Every variable ranges over what the code can store in it, and the channel
\* never holds more than its capacity.
Typed ==
  /\ next \in 1..(Len(Units) + 1)
  /\ task \in [UnitIds -> TaskStates]
  /\ sent \in [UnitIds -> Nat]
  /\ \A u \in UnitIds : sent[u] <= Size(u)
  /\ chan \in Seq(Tile)
  /\ Len(chan) <= ChannelDepth
  /\ outer \in {"held", "dropped"}
  /\ worker \in [Workers -> WorkerStates]
  /\ hand \in [Workers -> Tile \cup {NoTile}]
  /\ folded \in [Tile -> Nat]
  /\ main \in {"producing", "draining", "aborting", "returned"}
  /\ joined \in 1..(NWorkers + 1)
  /\ cause \in Causes
  /\ result \in Results

\* The types, and both limits that together bound the blocks in memory: that of
\* the channel, and that of the units whose blocks futures fetch or keep.
TypeOK == Typed /\ Cardinality(Live) <= IoConcurrency

IsSent(t) == \E u \in UnitIds : \E i \in 1..sent[u] : Units[u][i] = t
Queued(t) == \E k \in DOMAIN chan : chan[k] = t
Held(t) == \E w \in Workers : hand[w] = t

\* A block is in exactly one place: not sent yet, in the channel, in the hand
\* of one worker, or folded once.  No interleaving of futures, workers,
\* failures and an interrupt loses a block or folds it twice.
Conservation ==
  /\ \A t \in Tile :
       /\ folded[t] \in {0, 1}
       /\ IsSent(t) <=> Queued(t) \/ Held(t) \/ folded[t] = 1
       /\ ~(Queued(t) /\ Held(t))
       /\ folded[t] = 1 => ~Queued(t) /\ ~Held(t)
  /\ \A k, l \in DOMAIN chan : chan[k] = chan[l] => k = l
  /\ \A v, w \in Workers : hand[v] = hand[w] /\ hand[v] # NoTile => v = w

\* How the main task, the futures, the workers and the handles it has joined
\* stand to each other: the invariant the others rest on.
TasksInStep ==
  \A u \in UnitIds :
    /\ task[u] = "waiting" <=> u >= next
    /\ task[u] \in {"waiting", "fetching"} => sent[u] = 0
    /\ task[u] = "sending" => sent[u] < Size(u)
    /\ task[u] = "done" => sent[u] = Size(u)

MainInStep ==
  /\ result = "none" <=> main # "returned"
  /\ outer = "held" <=> main \in {"producing", "aborting"}
  /\ main # "producing" => Live = {}
  /\ main = "producing" => cause = "none" /\ joined = 1
  /\ main = "draining" => cause = "none" /\ \A u \in UnitIds : task[u] = "done"
  /\ main = "aborting" => cause # "none"

WorkersInStep ==
  /\ \A w \in Workers :
       /\ hand[w] = NoTile <=> worker[w] \in {"spawned", "idle", "ok", "cancelled"}
       /\ worker[w] = "ok" => chan = <<>> /\ NoSenders
       /\ worker[w] = "cancelled" => cause # "none"
  /\ cause = "closed" => \A w \in Workers : Failed(w)

JoinedInStep ==
  /\ main \in {"draining", "aborting"} => \A w \in 1..(joined - 1) : Ended(w)
  /\ main = "aborting" => \A w \in 1..(joined - 1) : ~Failed(w)

InStep == TasksInStep /\ MainInStep /\ WorkersInStep /\ JoinedInStep

\* A read that answers without an error has folded every block exactly once,
\* and no worker is left that could still touch the store it reduces.
OkIsComplete ==
  result = "ok" =>
    /\ \A t \in Tile : folded[t] = 1
    /\ \A w \in Workers : worker[w] = "ok"

\* "Collect all results first (rather than short-circuit on the first Err) so a
\* panic / error in worker N doesn't detach workers N+1..": once the producer is
\* done, only an interrupt answers while a worker still holds the store.
DrainedBeforeAnswer ==
  main = "returned" /\ cause = "none" /\ result # "interrupted" => NoReceivers

\* Two answers the code has words for are never given.  "consumer pool dropped
\* channel" (read.rs:2859): whenever the workers' end of the channel is closed,
\* a worker failed, and the handles are searched for its error first.
\* "partition store still shared after workers joined" (read.rs:2918): when
\* all handles are joined no worker, however it ended, holds the store.
UnreachableAnswers == result \notin {"dropped channel", "shared store"}

\* "When the producer failed because the consumers had already stopped, their
\* error is the cause, so it is reported instead": neither a good answer nor
\* an error of the producer ever hides a worker that failed or still could.
WorkerErrorsWin ==
  result \in {"ok", "fetch error", "dropped channel"} =>
    \A w \in Workers : worker[w] \in {"ok", "cancelled"}

\* Every read returns, unless a fetch failed: no order of sends, receives,
\* worker failures and joins leaves the main task waiting for ever.
ReturnsUnlessFetchFails == <>(main = "returned" \/ cause = "fetch")

\* A read that has returned, in whatever way, leaves no worker behind: each
\* one finds the channel closed and exits its thread.
WorkersExit == (main = "returned") ~> NoReceivers

\* What the comment on the producer's error path supposes: after a fetch has
\* failed "R has seen the error".
FetchFailureReturns == (cause = "fetch") ~> (main = "returned")

\* What runtime.rs:64 says of an interrupted read: its workers finish the block
\* in hand and exit, so none takes another block.
InterruptedWorkersStop ==
  [][result = "interrupted" => \A w \in Workers : hand'[w] = hand[w] \/ hand'[w] = NoTile]_vars

-----------------------------------------------------------------------------
(* The abstract read this pipeline implements. *)

Contract == INSTANCE ReadContract WITH
  Block <- Tile,
  count <- folded,
  outcome <- IF result \in {"none", "ok"} THEN result ELSE "error"

ContractSpec == Contract!Spec
=============================================================================
