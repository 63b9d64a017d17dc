--------------------------- MODULE PipelineProofs ---------------------------
(***************************************************************************)
(* Proofs about the block pipeline, for any units, any number of workers   *)
(* and any io_concurrency.  The inductive invariant IInv joins the type    *)
(* invariant, the conservation of blocks and the bookkeeping of futures,   *)
(* workers and handles; each action preserves it, and the safety           *)
(* properties and the refinement of ReadContract follow from it.           *)
(*                                                                         *)
(* Then the sampling of a source, for any blocks, workers and rasters: its *)
(* steps are steps of the pipeline of a read, so the invariant holds of it *)
(* too, and the records of each block that was folded are in the list of   *)
(* exactly one worker.  Last, what those records add up to, for any kernel *)
(* and values: the sums over a stencil's pixels are the sums, over the     *)
(* blocks that serve the centre, of the sums in each block.                *)
(*                                                                         *)
(* What is proved of a read assumes nothing of sampling's constants: only  *)
(* the last part cites SamplingAssumption and SampledBlocksAssumption.     *)
(***************************************************************************)
EXTENDS SamplePipeline, FiniteSetTheorems, TLAPS

IInv ==
  /\ Typed
  /\ Conservation
  /\ InStep
  /\ OkIsComplete
  /\ WorkerErrorsWin
  /\ UnreachableAnswers

-----------------------------------------------------------------------------
(* The constants. *)

\* A unit's blocks are a non-empty sequence over Tile.
LEMMA UnitShape ==
  ASSUME NEW u \in UnitIds
  PROVE  /\ Units[u] \in Seq(Tile)
         /\ Size(u) \in Nat \ {0}
         /\ DOMAIN Units[u] = 1..Size(u)
         /\ \A i \in 1..Size(u) : Units[u][i] \in Tile
<1>1. Units[u] \in Seq(Tile) /\ Units[u] # <<>>
  BY PipelineAssumption DEF UnitsAssumption, UnitIds
<1> QED BY <1>1 DEF Size

\* There is at least one worker and one place in the channel.
LEMMA Settings ==
  /\ NWorkers \in Nat \ {0}
  /\ ChannelDepth \in Nat \ {0}
  /\ NoTile \notin Tile
  /\ UnitIds = 1..Len(Units) /\ Len(Units) \in Nat
<1>1. Units \in Seq(Seq(Tile))
  BY PipelineAssumption DEF UnitsAssumption
<1> QED BY <1>1, PipelineAssumption DEF SettingsAssumption, ChannelDepth, UnitIds

\* There is a first worker.
LEMMA FirstWorker == 1 \in Workers
BY Settings DEF Workers

-----------------------------------------------------------------------------
(* The channel. *)

\* What Append does to a channel over Tile.
LEMMA AppendFacts ==
  ASSUME NEW q \in Seq(Tile), NEW t \in Tile
  PROVE  /\ Append(q, t) \in Seq(Tile)
         /\ Len(Append(q, t)) = Len(q) + 1
         /\ Append(q, t) # <<>>
         /\ \A k \in 1..Len(q) : Append(q, t)[k] = q[k]
         /\ Append(q, t)[Len(q) + 1] = t
         /\ DOMAIN q = 1..Len(q)
         /\ DOMAIN Append(q, t) = 1..(Len(q) + 1)
OBVIOUS

\* What Head and Tail do to a non-empty channel over Tile.
LEMMA TailFacts ==
  ASSUME NEW q \in Seq(Tile), q # <<>>
  PROVE  /\ Len(q) \in Nat \ {0}
         /\ Head(q) = q[1]
         /\ Head(q) \in Tile
         /\ Tail(q) \in Seq(Tile)
         /\ Len(Tail(q)) = Len(q) - 1
         /\ \A k \in 1..(Len(q) - 1) : Tail(q)[k] = q[k + 1]
         /\ DOMAIN q = 1..Len(q)
         /\ DOMAIN Tail(q) = 1..(Len(q) - 1)
OBVIOUS

-----------------------------------------------------------------------------
\* The initial state satisfies the invariant.
LEMMA InitInv == Init => IInv
<1> SUFFICES ASSUME Init PROVE IInv
  OBVIOUS
<1> USE Settings DEF Init
<1>1. Typed
  BY UnitShape DEF Typed, TaskStates, WorkerStates, Causes, Results, Workers, UnitIds
<1>2. Conservation
  <2>1. \A t \in Tile : ~IsSent(t) /\ ~Queued(t) /\ ~Held(t)
    BY DEF IsSent, Queued, Held, Workers
  <2>2. DOMAIN chan = {}
    OBVIOUS
  <2> QED BY <2>1, <2>2 DEF Conservation, Workers
<1>3. InStep
  BY DEF InStep, TasksInStep, MainInStep, WorkersInStep, JoinedInStep, Live, Workers, Ended, Failed
<1>4. OkIsComplete /\ WorkerErrorsWin /\ UnreachableAnswers
  BY DEF OkIsComplete, WorkerErrorsWin, UnreachableAnswers
<1> QED BY <1>1, <1>2, <1>3, <1>4 DEF IInv

-----------------------------------------------------------------------------
(* Where a block is, when the variables it depends on do not change. *)

\* A block is where it was while futures, channel, hands and store stay put.
LEMMA SamePlaces ==
  ASSUME Conservation, UNCHANGED <<sent, chan, hand, folded>>
  PROVE  Conservation'
<1>1. \A t \in Tile : (IsSent(t)' <=> IsSent(t)) /\ (Queued(t)' <=> Queued(t)) /\ (Held(t)' <=> Held(t))
  BY DEF IsSent, Queued, Held
<1> QED BY <1>1 DEF Conservation

-----------------------------------------------------------------------------
(* The producer. *)

\* Taking the next unit from the stream.
LEMMA StartFetchPreserves == IInv /\ StartFetch => IInv'
<1> SUFFICES ASSUME IInv, StartFetch PROVE IInv'
  OBVIOUS
<1> USE Settings DEF IInv, StartFetch, workerVars, mainVars
<1>1. Typed'
  BY DEF Typed, TaskStates
<1>2. Conservation'
  BY SamePlaces
<1>3. TasksInStep'
  BY DEF Typed, InStep, TasksInStep
<1>4. MainInStep' /\ WorkersInStep' /\ JoinedInStep'
  BY DEF Typed, InStep, MainInStep, WorkersInStep, JoinedInStep, Live, NoSenders, Ended, Failed
<1>5. OkIsComplete' /\ WorkerErrorsWin' /\ UnreachableAnswers'
  BY DEF OkIsComplete, WorkerErrorsWin, UnreachableAnswers
<1> QED BY <1>1, <1>2, <1>3, <1>4, <1>5 DEF InStep

\* The blocks of a unit arrive.
LEMMA FetchDonePreserves == \A u \in UnitIds : IInv /\ FetchDone(u) => IInv'
<1> SUFFICES ASSUME NEW u \in UnitIds, IInv, FetchDone(u) PROVE IInv'
  OBVIOUS
<1> USE Settings DEF IInv, FetchDone, workerVars, mainVars
<1>1. Typed'
  BY DEF Typed, TaskStates
<1>2. Conservation'
  BY SamePlaces
<1>3. TasksInStep'
  BY UnitShape DEF Typed, InStep, TasksInStep, Size
<1>4. MainInStep' /\ WorkersInStep' /\ JoinedInStep'
  BY DEF Typed, InStep, MainInStep, WorkersInStep, JoinedInStep, Live, NoSenders, Ended, Failed
<1>5. OkIsComplete' /\ WorkerErrorsWin' /\ UnreachableAnswers'
  BY DEF OkIsComplete, WorkerErrorsWin, UnreachableAnswers
<1> QED BY <1>1, <1>2, <1>3, <1>4, <1>5 DEF InStep

\* The stream yields an error and is dropped: a failed fetch, or a channel
\* that every worker has left.
LEMMA ProducerFailsPreserves ==
  ASSUME IInv, main = "producing", NEW why \in {"fetch", "closed"}, ProducerFails(why),
         why = "closed" => NoReceivers
  PROVE  IInv'
<1> USE Settings DEF IInv, ProducerFails
<1>1. Typed'
  BY DEF Typed, TaskStates, WorkerStates, Causes, DropTasks
<1>2. Conservation'
  BY SamePlaces
<1>3. TasksInStep'
  BY DEF Typed, InStep, TasksInStep, DropTasks
<1>4. MainInStep'
  BY DEF Typed, InStep, MainInStep, Live, DropTasks
<1>5. WorkersInStep'
  <2>1. \A w \in Workers : worker[w] \notin {"ok", "cancelled"}
    BY DEF InStep, WorkersInStep, MainInStep, NoSenders
  <2>2. why = "closed" => \A w \in Workers : Failed(w)
    BY <2>1 DEF NoReceivers, Ended, Failed
  <2> QED BY <2>1, <2>2 DEF Typed, InStep, WorkersInStep, MainInStep, Failed
<1>6. JoinedInStep'
  BY DEF Typed, InStep, MainInStep, JoinedInStep
<1>7. OkIsComplete' /\ WorkerErrorsWin' /\ UnreachableAnswers'
  BY DEF InStep, MainInStep, OkIsComplete, WorkerErrorsWin, UnreachableAnswers
<1> QED BY <1>1, <1>2, <1>3, <1>4, <1>5, <1>6, <1>7 DEF InStep

\* The producer finishes and drops the last sender.
LEMMA ProducerDonePreserves == IInv /\ ProducerDone => IInv'
<1> SUFFICES ASSUME IInv, ProducerDone PROVE IInv'
  OBVIOUS
<1> USE Settings DEF IInv, ProducerDone, workerVars
<1>1. Typed'
  BY DEF Typed
<1>2. Conservation'
  BY SamePlaces
<1>3. TasksInStep' /\ MainInStep'
  BY DEF Typed, InStep, TasksInStep, MainInStep, Live
<1>4. WorkersInStep' /\ JoinedInStep'
  BY DEF Typed, InStep, MainInStep, WorkersInStep, JoinedInStep, Live, NoSenders, Ended, Failed
<1>5. OkIsComplete' /\ WorkerErrorsWin' /\ UnreachableAnswers'
  BY DEF OkIsComplete, WorkerErrorsWin, UnreachableAnswers
<1> QED BY <1>1, <1>2, <1>3, <1>4, <1>5 DEF InStep

-----------------------------------------------------------------------------
(* Sending a block. *)

\* The block a future sends next has not been sent, and after it has been
\* sent the sent blocks are those of before and this one.
LEMMA SendMarks ==
  ASSUME Typed, NEW u \in UnitIds, sent[u] < Size(u), sent' = [sent EXCEPT ![u] = @ + 1]
  PROVE  LET t == Units[u][sent[u] + 1]
         IN  /\ t \in Tile
             /\ ~IsSent(t)
             /\ \A x \in Tile : IsSent(x)' <=> IsSent(x) \/ x = t
<1> DEFINE n == sent[u] + 1
           t == Units[u][n]
<1>1. n \in 1..Size(u) /\ t \in Tile
  BY UnitShape DEF Typed
<1>2. ~IsSent(t)
  <2> SUFFICES ASSUME NEW v \in UnitIds, NEW i \in 1..sent[v], Units[v][i] = t
               PROVE FALSE
    BY DEF IsSent
  <2>1. i \in DOMAIN Units[v] /\ n \in DOMAIN Units[u]
    BY <1>1, UnitShape DEF Typed
  <2>2. v = u /\ i = n
    BY <2>1, PipelineAssumption DEF UnitsAssumption, UnitIds
  <2> QED BY <2>2 DEF Typed
<1>3. ASSUME NEW x \in Tile PROVE IsSent(x)' <=> IsSent(x) \/ x = t
  <2>1. \A v \in UnitIds : sent'[v] = IF v = u THEN n ELSE sent[v]
    BY DEF Typed
  <2>2. IsSent(x)' <=> \E v \in UnitIds : \E i \in 1..sent'[v] : Units[v][i] = x
    BY DEF IsSent
  <2>3. IsSent(x) => IsSent(x)'
    BY <2>1, <2>2 DEF Typed, IsSent
  <2>4. x = t => IsSent(x)'
    <3>1. n \in 1..sent'[u]
      BY <1>1, <2>1, UnitShape
    <3> QED BY <3>1, <2>2
  <2>5. ASSUME IsSent(x)', x # t PROVE IsSent(x)
    <3>1. PICK v \in UnitIds : \E i \in 1..sent'[v] : Units[v][i] = x
      BY <2>2, <2>5
    <3>2. PICK i \in 1..sent'[v] : Units[v][i] = x
      BY <3>1
    <3>3. i \in 1..sent[v]
      <4>1. v = u => i # n
        BY <3>2, <2>5
      <4> QED BY <4>1, <2>1 DEF Typed
    <3> QED BY <3>2, <3>3 DEF IsSent
  <2> QED BY <2>3, <2>4, <2>5
<1> QED BY <1>1, <1>2, <1>3

\* A future sends a block into the channel.
LEMMA SendPreserves == \A u \in UnitIds : IInv /\ Send(u) => IInv'
<1> SUFFICES ASSUME NEW u \in UnitIds, IInv, Send(u) PROVE IInv'
  OBVIOUS
<1> DEFINE t == Units[u][sent[u] + 1]
<1>1. sent[u] < Size(u) /\ sent[u] \in Nat /\ Size(u) \in Nat
  BY UnitShape DEF IInv, Typed, InStep, TasksInStep, Send
<1>2. t \in Tile /\ ~IsSent(t) /\ \A x \in Tile : IsSent(x)' <=> IsSent(x) \/ x = t
  BY <1>1, SendMarks DEF IInv, Send
<1>3. chan \in Seq(Tile) /\ chan' = Append(chan, t)
  BY DEF IInv, Typed, Send
<1>4. Typed'
  <2>1. chan' \in Seq(Tile) /\ Len(chan') <= ChannelDepth
    BY <1>2, <1>3, AppendFacts, Settings DEF Send
  <2>2. sent' \in [UnitIds -> Nat] /\ \A v \in UnitIds : sent'[v] <= Size(v)
    BY <1>1 DEF IInv, Typed, Send
  <2>3. task' \in [UnitIds -> TaskStates]
    BY DEF IInv, Typed, Send, TaskStates
  <2> QED BY <2>1, <2>2, <2>3 DEF IInv, Typed, Send, workerVars, mainVars
<1>5. Conservation'
  <2>1. \A x \in Tile : Queued(x)' <=> Queued(x) \/ x = t
    BY <1>2, <1>3, AppendFacts DEF Queued
  <2>2. \A x \in Tile : (Held(x)' <=> Held(x)) /\ folded'[x] = folded[x]
    BY DEF Send, workerVars, Held
  <2>3. ~Queued(t) /\ ~Held(t) /\ folded[t] # 1
    BY <1>2 DEF IInv, Conservation
  <2>4. \A x \in Tile : /\ folded'[x] \in {0, 1}
                        /\ IsSent(x)' <=> Queued(x)' \/ Held(x)' \/ folded'[x] = 1
                        /\ ~(Queued(x)' /\ Held(x)')
                        /\ folded'[x] = 1 => ~Queued(x)' /\ ~Held(x)'
    BY <1>2, <2>1, <2>2, <2>3 DEF IInv, Conservation
  <2>5. \A k, l \in DOMAIN chan' : chan'[k] = chan'[l] => k = l
    <3>1. \A k \in DOMAIN chan : chan[k] # t
      BY <2>3 DEF Queued
    <3>2. \A k, l \in DOMAIN chan : chan[k] = chan[l] => k = l
      BY DEF IInv, Conservation
    <3> QED BY <1>2, <1>3, <3>1, <3>2, AppendFacts
  <2>6. \A v, w \in Workers : hand'[v] = hand'[w] /\ hand'[v] # NoTile => v = w
    BY DEF IInv, Conservation, Send, workerVars
  <2> QED BY <2>4, <2>5, <2>6 DEF Conservation
<1>6. TasksInStep'
  <2> SUFFICES ASSUME NEW v \in UnitIds PROVE TasksInStep!(v)'
    BY DEF TasksInStep
  <2>1. CASE v # u
    BY <2>1 DEF IInv, Typed, InStep, TasksInStep, Send
  <2>2. CASE v = u
    BY <2>2, <1>1 DEF IInv, Typed, InStep, TasksInStep, Send
  <2> QED BY <2>1, <2>2
<1>7. MainInStep' /\ WorkersInStep' /\ JoinedInStep'
  <2>1. \A w \in Workers : worker[w] # "ok"
    BY DEF IInv, InStep, WorkersInStep, MainInStep, NoSenders, Send
  <2> QED BY <2>1 DEF IInv, Typed, InStep, MainInStep, WorkersInStep, JoinedInStep, Send, Failed,
                      Ended, workerVars, mainVars
<1>8. OkIsComplete' /\ WorkerErrorsWin' /\ UnreachableAnswers'
  BY DEF IInv, OkIsComplete, WorkerErrorsWin, UnreachableAnswers, Send,
         workerVars, mainVars
<1> QED BY <1>4, <1>5, <1>6, <1>7, <1>8 DEF IInv, InStep

-----------------------------------------------------------------------------
(* The workers. *)

\* The handles already joined are those of workers that had ended, so no
\* worker that still moves is among them.
LEMMA JoinedStay ==
  ASSUME Typed, JoinedInStep, NEW w \in Workers, ~Ended(w),
         NEW s \in WorkerStates, worker' = [worker EXCEPT ![w] = s], UNCHANGED mainVars
  PROVE  JoinedInStep'
<1> SUFFICES ASSUME main \in {"draining", "aborting"}, NEW v \in 1..(joined - 1)
             PROVE  worker'[v] = worker[v] /\ Ended(v) /\ (main = "aborting" => ~Failed(v))
  BY DEF JoinedInStep, Ended, Failed, mainVars
<1>1. v \in Workers
  BY Settings DEF Typed, Workers
<1>2. Ended(v) /\ (main = "aborting" => ~Failed(v))
  BY DEF JoinedInStep
<1>3. v # w
  BY <1>2
<1> QED BY <1>1, <1>2, <1>3 DEF Typed

\* What a step of worker w keeps of the others: the channel's senders, the
\* producer and the main task are as before.
LEMMA WorkersStay ==
  ASSUME WorkersInStep, NEW w \in Workers, worker[w] \in {"spawned", "idle", "busy"},
         \A v \in Workers \ {w} : worker'[v] = worker[v] /\ hand'[v] = hand[v],
         UNCHANGED <<producerVars, mainVars>>,
         chan' = chan \/ chan # <<>>,
         hand'[w] = NoTile <=> worker'[w] \in {"spawned", "idle", "ok"},
         worker'[w] = "ok" => chan' = <<>> /\ NoSenders,
         worker'[w] # "cancelled"
  PROVE  WorkersInStep'
<1>1. (NoSenders' <=> NoSenders) /\ cause' = cause
  BY DEF NoSenders, Live, producerVars, mainVars
<1>2. ASSUME NEW v \in Workers
      PROVE  /\ hand'[v] = NoTile <=> worker'[v] \in {"spawned", "idle", "ok", "cancelled"}
             /\ worker'[v] = "ok" => chan' = <<>> /\ NoSenders'
             /\ worker'[v] = "cancelled" => cause' # "none"
  <2>1. CASE v = w
    BY <1>1, <2>1
  <2>2. CASE v # w
    BY <1>1, <2>2 DEF WorkersInStep
  <2> QED BY <2>1, <2>2
<1>3. cause # "closed"
  BY DEF WorkersInStep, Failed
<1> QED BY <1>1, <1>2, <1>3 DEF WorkersInStep

\* The pool starts a worker.
LEMMA StartWorkerPreserves == \A w \in Workers : IInv /\ StartWorker(w) => IInv'
<1> SUFFICES ASSUME NEW w \in Workers, IInv, StartWorker(w) PROVE IInv'
  OBVIOUS
<1> USE Settings DEF IInv, StartWorker, producerVars, mainVars
<1>1. Typed'
  BY DEF Typed, WorkerStates
<1>2. Conservation'
  BY SamePlaces
<1>3. TasksInStep' /\ MainInStep'
  BY DEF InStep, TasksInStep, MainInStep, Live
<1>4. WorkersInStep'
  <2>1. /\ hand' = hand /\ hand[w] = NoTile /\ worker'[w] = "idle"
        /\ \A v \in Workers \ {w} : worker'[v] = worker[v]
    BY DEF Typed, InStep, WorkersInStep
  <2> QED BY <2>1, WorkersStay DEF InStep
<1>5. JoinedInStep'
  BY JoinedStay DEF InStep, Ended, WorkerStates
<1>6. OkIsComplete' /\ WorkerErrorsWin' /\ UnreachableAnswers'
  BY DEF OkIsComplete, WorkerErrorsWin, UnreachableAnswers
<1> QED BY <1>1, <1>2, <1>3, <1>4, <1>5, <1>6 DEF InStep

\* A worker takes the oldest block of the channel into its hand.
LEMMA ReceivePreserves == \A w \in Workers : IInv /\ Receive(w) => IInv'
<1> SUFFICES ASSUME NEW w \in Workers, IInv, Receive(w) PROVE IInv'
  OBVIOUS
<1> DEFINE t == Head(chan)
<1>1. chan \in Seq(Tile) /\ chan # <<>> /\ chan' = Tail(chan) /\ t \in Tile
  BY TailFacts DEF IInv, Typed, Receive
<1>2. \A v \in Workers : hand'[v] = IF v = w THEN t ELSE hand[v]
  BY DEF IInv, Typed, Receive
<1>3. Typed'
  <2>1. chan' \in Seq(Tile) /\ Len(chan') <= ChannelDepth
    BY <1>1, TailFacts, Settings DEF IInv, Typed
  <2> QED BY <1>1, <2>1 DEF IInv, Typed, Receive, WorkerStates, producerVars, mainVars
<1>4. Conservation'
  <2>1. \A k, l \in 1..Len(chan) : chan[k] = chan[l] => k = l
    BY <1>1, TailFacts DEF IInv, Conservation
  <2>2. \A x \in Tile : Queued(x)' <=> \E k \in 1..(Len(chan) - 1) : chan[k + 1] = x
    BY <1>1, TailFacts DEF Queued
  <2>3. \A x \in Tile : Queued(x)' <=> Queued(x) /\ x # t
    <3> SUFFICES ASSUME NEW x \in Tile PROVE Queued(x)' <=> Queued(x) /\ x # t
      OBVIOUS
    <3>1. Queued(x) <=> \E k \in 1..Len(chan) : chan[k] = x
      BY <1>1, TailFacts DEF Queued
    <3>2. Queued(x)' => Queued(x) /\ x # t
      BY <1>1, <2>1, <2>2, <3>1, TailFacts
    <3>3. ASSUME Queued(x), x # t PROVE Queued(x)'
      <4>1. PICK k \in 1..Len(chan) : chan[k] = x
        BY <3>1, <3>3
      <4>2. k # 1
        BY <1>1, <3>3, <4>1, TailFacts
      <4>3. (k - 1) \in 1..(Len(chan) - 1) /\ chan[(k - 1) + 1] = x
        BY <1>1, <4>1, <4>2, TailFacts
      <4> QED BY <2>2, <4>3
    <3> QED BY <3>2, <3>3
  <2>4. Queued(t)
    BY <1>1, TailFacts DEF Queued
  <2>5. hand[w] = NoTile
    BY DEF IInv, InStep, WorkersInStep, Receive
  <2>6. \A x \in Tile : Held(x)' <=> Held(x) \/ x = t
    BY <1>2, <2>5, Settings DEF Held
  <2>7. \A x \in Tile : (IsSent(x)' <=> IsSent(x)) /\ folded'[x] = folded[x]
    BY DEF IsSent, Receive, producerVars
  <2>8. \A x \in Tile : /\ folded'[x] \in {0, 1}
                        /\ IsSent(x)' <=> Queued(x)' \/ Held(x)' \/ folded'[x] = 1
                        /\ ~(Queued(x)' /\ Held(x)')
                        /\ folded'[x] = 1 => ~Queued(x)' /\ ~Held(x)'
    BY <1>1, <2>3, <2>4, <2>6, <2>7 DEF IInv, Conservation
  <2>9. \A k, l \in DOMAIN chan' : chan'[k] = chan'[l] => k = l
    BY <1>1, <2>1, TailFacts
  <2>10. \A u, v \in Workers : hand'[u] = hand'[v] /\ hand'[u] # NoTile => u = v
    <3>1. \A v \in Workers : hand[v] # t
      BY <1>1, <2>4 DEF IInv, Conservation, Held
    <3> QED BY <1>2, <3>1 DEF IInv, Conservation
  <2> QED BY <2>8, <2>9, <2>10 DEF Conservation
<1>5. TasksInStep' /\ MainInStep'
  BY DEF IInv, InStep, TasksInStep, MainInStep, Live, Receive, producerVars, mainVars
<1>6. WorkersInStep' /\ JoinedInStep'
  <2>1. worker'[w] = "busy" /\ \A v \in Workers \ {w} : worker'[v] = worker[v]
    BY DEF IInv, Typed, Receive
  <2>2. WorkersInStep'
    BY <1>1, <1>2, <2>1, Settings, WorkersStay DEF IInv, InStep, Receive
  <2>3. JoinedInStep'
    BY JoinedStay DEF IInv, InStep, Receive, Ended, WorkerStates
  <2> QED BY <2>2, <2>3
<1>7. OkIsComplete' /\ WorkerErrorsWin' /\ UnreachableAnswers'
  BY DEF IInv, OkIsComplete, WorkerErrorsWin, UnreachableAnswers, Receive,
         producerVars, mainVars
<1> QED BY <1>3, <1>4, <1>5, <1>6, <1>7 DEF IInv, InStep

\* A worker finds the channel empty and closed and exits.
LEMMA ReceiveClosedPreserves == \A w \in Workers : IInv /\ ReceiveClosed(w) => IInv'
<1> SUFFICES ASSUME NEW w \in Workers, IInv, ReceiveClosed(w) PROVE IInv'
  OBVIOUS
<1> USE Settings DEF IInv, ReceiveClosed, producerVars, mainVars
<1>1. Typed'
  BY DEF Typed, WorkerStates
<1>2. Conservation'
  BY SamePlaces
<1>3. TasksInStep' /\ MainInStep'
  BY DEF InStep, TasksInStep, MainInStep, Live
<1>4. WorkersInStep'
  <2>1. /\ hand' = hand /\ hand[w] = NoTile /\ worker'[w] = "ok"
        /\ \A v \in Workers \ {w} : worker'[v] = worker[v]
    BY DEF Typed, InStep, WorkersInStep
  <2> QED BY <2>1, WorkersStay DEF InStep
<1>5. JoinedInStep'
  BY JoinedStay DEF InStep, Ended, WorkerStates
<1>6. OkIsComplete' /\ WorkerErrorsWin' /\ UnreachableAnswers'
  BY DEF OkIsComplete, WorkerErrorsWin, UnreachableAnswers
<1> QED BY <1>1, <1>2, <1>3, <1>4, <1>5, <1>6 DEF InStep

\* A worker folds the block in its hand into the store.
LEMMA FoldPreserves == \A w \in Workers : IInv /\ Fold(w) => IInv'
<1> SUFFICES ASSUME NEW w \in Workers, IInv, Fold(w) PROVE IInv'
  OBVIOUS
<1> DEFINE t == hand[w]
<1>1. t \in Tile /\ t # NoTile
  BY Settings DEF IInv, Typed, InStep, WorkersInStep, Fold
<1>2. \A v \in Workers : hand'[v] = IF v = w THEN NoTile ELSE hand[v]
  BY DEF IInv, Typed, Fold
<1>3. folded[t] = 0 /\ \A x \in Tile : folded'[x] = IF x = t THEN 1 ELSE folded[x]
  <2>1. folded[t] = 0
    BY <1>1 DEF IInv, Conservation, Held
  <2> QED BY <1>1, <2>1 DEF IInv, Typed, Fold
<1>4. Typed'
  BY <1>1 DEF IInv, Typed, Fold, WorkerStates, producerVars, mainVars
<1>5. Conservation'
  <2>1. \A x \in Tile : (IsSent(x)' <=> IsSent(x)) /\ (Queued(x)' <=> Queued(x))
    BY DEF IsSent, Queued, Fold, producerVars
  <2>2. \A x \in Tile : Held(x)' <=> Held(x) /\ x # t
    BY <1>1, <1>2, Settings DEF Held, IInv, Conservation
  <2>3. Held(t)
    BY DEF Held
  <2>4. \A x \in Tile : /\ folded'[x] \in {0, 1}
                        /\ IsSent(x)' <=> Queued(x)' \/ Held(x)' \/ folded'[x] = 1
                        /\ ~(Queued(x)' /\ Held(x)')
                        /\ folded'[x] = 1 => ~Queued(x)' /\ ~Held(x)'
    BY <1>1, <1>3, <2>1, <2>2, <2>3 DEF IInv, Conservation
  <2>5. \A k, l \in DOMAIN chan' : chan'[k] = chan'[l] => k = l
    BY DEF IInv, Conservation, Fold
  <2>6. \A u, v \in Workers : hand'[u] = hand'[v] /\ hand'[u] # NoTile => u = v
    BY <1>2 DEF IInv, Conservation
  <2> QED BY <2>4, <2>5, <2>6 DEF Conservation
<1>6. TasksInStep' /\ MainInStep'
  BY DEF IInv, InStep, TasksInStep, MainInStep, Live, Fold, producerVars, mainVars
<1>7. WorkersInStep' /\ JoinedInStep'
  <2>1. WorkersInStep'
    <3>1. worker'[w] = "idle" /\ \A v \in Workers \ {w} : worker'[v] = worker[v]
      BY DEF IInv, Typed, Fold
    <3> QED BY <1>2, <3>1, WorkersStay DEF IInv, InStep, Fold
  <2>2. JoinedInStep'
    BY JoinedStay DEF IInv, InStep, Fold, Ended, WorkerStates
  <2> QED BY <2>1, <2>2
<1>8. OkIsComplete' /\ WorkerErrorsWin' /\ UnreachableAnswers'
  BY DEF IInv, OkIsComplete, WorkerErrorsWin, UnreachableAnswers, Fold,
         producerVars, mainVars
<1> QED BY <1>4, <1>5, <1>6, <1>7, <1>8 DEF IInv, InStep

\* A worker fails on the block in its hand.
LEMMA WorkerFailsPreserves == \A w \in Workers : IInv /\ WorkerFails(w) => IInv'
<1> SUFFICES ASSUME NEW w \in Workers, IInv, WorkerFails(w) PROVE IInv'
  OBVIOUS
<1> USE Settings DEF IInv, WorkerFails, producerVars, mainVars
<1>1. Typed'
  BY DEF Typed, WorkerStates
<1>2. Conservation'
  BY SamePlaces
<1>3. TasksInStep' /\ MainInStep'
  BY DEF InStep, TasksInStep, MainInStep, Live
<1>4. PICK how \in {"err", "panic"} : worker' = [worker EXCEPT ![w] = how]
  OBVIOUS
<1>5. WorkersInStep'
  <2>1. /\ hand' = hand /\ hand[w] # NoTile /\ worker'[w] = how
        /\ \A v \in Workers \ {w} : worker'[v] = worker[v]
    BY <1>4 DEF Typed, InStep, WorkersInStep
  <2> QED BY <2>1, WorkersStay DEF InStep
<1>6. JoinedInStep'
  BY <1>4, JoinedStay DEF InStep, Ended, WorkerStates
<1>7. OkIsComplete' /\ WorkerErrorsWin' /\ UnreachableAnswers'
  BY DEF OkIsComplete, WorkerErrorsWin, UnreachableAnswers
<1> QED BY <1>1, <1>2, <1>3, <1>5, <1>6, <1>7 DEF InStep

-----------------------------------------------------------------------------
(* The main task. *)

\* The channel stays closed, or the read was aborting: the senders that a
\* step of the main task drops leave every finished worker's channel closed.
LEMMA MainStepStays ==
  ASSUME WorkersInStep, UNCHANGED <<workerVars, chan, cause>>,
         NoSenders => NoSenders'
  PROVE  WorkersInStep'
BY DEF WorkersInStep, Failed, workerVars

\* Past the last handle, every handle has been joined.
LEMMA AllJoined ==
  ASSUME Typed, joined > NWorkers
  PROVE  1..(joined - 1) = Workers
<1>1. joined = NWorkers + 1
  BY Settings DEF Typed
<1> QED BY <1>1, Settings DEF Workers

\* Joining a handle on the error path: go on, or answer with its failure.
LEMMA JoinAbortedPreserves == IInv /\ JoinAborted => IInv'
<1> SUFFICES ASSUME IInv, JoinAborted PROVE IInv'
  OBVIOUS
<1> DEFINE Stop == /\ main' = "returned" /\ outer' = "dropped" /\ joined' = joined
                   /\ result' \in {"decode error", "worker panic"}
           GoOn == /\ joined' = joined + 1 /\ joined \in Workers /\ Ended(joined) /\ ~Failed(joined)
                   /\ main' = main /\ result' = result /\ outer' = outer
<1>1. Stop \/ GoOn
  BY DEF JoinAborted, Answer, FailureOf
<1>2. UNCHANGED <<next, task, sent, chan, workerVars, cause>> /\ main = "aborting"
  BY DEF JoinAborted
<1>3. Typed'
  <2>1. main' \in {"aborting", "returned"} /\ outer' \in {"held", "dropped"} /\ result' \in Results
    BY <1>1, <1>2 DEF IInv, Typed, Results
  <2>2. joined' \in 1..(NWorkers + 1)
    <3>1. joined \in 1..(NWorkers + 1)
      BY DEF IInv, Typed
    <3>2. joined \in 1..NWorkers => joined + 1 \in 1..(NWorkers + 1)
      BY Settings
    <3>3. joined' = joined \/ (joined' = joined + 1 /\ joined \in Workers)
      BY <1>1
    <3> QED BY <3>1, <3>2, <3>3 DEF Workers
  <2> QED BY <1>2, <2>1, <2>2 DEF IInv, Typed, workerVars
<1>4. Conservation'
  BY <1>2, SamePlaces DEF IInv, workerVars
<1>5. TasksInStep'
  BY <1>2 DEF IInv, InStep, TasksInStep
<1>6. MainInStep'
  BY <1>1, <1>2 DEF IInv, Typed, InStep, MainInStep, Live
<1>7. WorkersInStep'
  BY <1>1, <1>2, MainStepStays DEF IInv, InStep, NoSenders, Live
<1>8. JoinedInStep'
  <2>1. CASE main' = "returned"
    BY <2>1 DEF JoinedInStep
  <2>2. CASE main' # "returned"
    <3>1. joined' = joined + 1 /\ Ended(joined) /\ ~Failed(joined) /\ joined \in Nat
      <4>1. joined \in Workers => joined \in Nat
        BY Settings DEF Workers
      <4> QED BY <1>1, <2>2, <4>1
    <3>2. \A v \in 1..(joined - 1) : Ended(v) /\ ~Failed(v)
      BY <1>2 DEF IInv, InStep, JoinedInStep
    <3>3. \A v \in 1..(joined' - 1) : v = joined \/ v \in 1..(joined - 1)
      BY <3>1
    <3> QED BY <1>2, <3>1, <3>2, <3>3 DEF JoinedInStep, Ended, Failed, workerVars
  <2> QED BY <2>1, <2>2
<1>9. OkIsComplete' /\ WorkerErrorsWin' /\ UnreachableAnswers'
  BY <1>1, <1>2 DEF IInv, InStep, MainInStep, OkIsComplete, WorkerErrorsWin,
                    UnreachableAnswers
<1> QED BY <1>3, <1>4, <1>5, <1>6, <1>7, <1>8, <1>9 DEF IInv, InStep

\* No worker failed, so the channel was open when the producer failed: the
\* error reported is that of a fetch.
LEMMA ReportCausePreserves == IInv /\ ReportCause => IInv'
<1> SUFFICES ASSUME IInv, ReportCause PROVE IInv'
  OBVIOUS
<1> USE DEF IInv, ReportCause, Answer
<1>1. \A w \in Workers : Ended(w) /\ ~Failed(w)
  BY AllJoined DEF InStep, JoinedInStep
<1>2. cause = "fetch"
  <2>1. 1 \in Workers
    BY FirstWorker
  <2>2. cause # "none" /\ cause # "closed"
    BY <1>1, <2>1 DEF InStep, MainInStep, WorkersInStep
  <2> QED BY <2>2 DEF Typed, Causes
<1>3. Typed'
  BY DEF Typed, Results, workerVars
<1>4. Conservation'
  BY SamePlaces DEF workerVars
<1>5. TasksInStep' /\ MainInStep'
  BY DEF Typed, InStep, TasksInStep, MainInStep, Live
<1>6. WorkersInStep'
  BY MainStepStays DEF InStep, NoSenders, Live
<1>7. JoinedInStep'
  BY DEF JoinedInStep
<1>8. OkIsComplete' /\ WorkerErrorsWin' /\ UnreachableAnswers'
  BY <1>1, <1>2 DEF OkIsComplete, WorkerErrorsWin, UnreachableAnswers,
                    Ended, Failed, workerVars
<1> QED BY <1>3, <1>4, <1>5, <1>6, <1>7, <1>8 DEF InStep

\* Joining a handle on the success path.
LEMMA JoinDrainingPreserves == IInv /\ JoinDraining => IInv'
<1> SUFFICES ASSUME IInv, JoinDraining PROVE IInv'
  OBVIOUS
<1> USE DEF IInv, JoinDraining, producerVars
<1>1. Typed'
  BY Settings DEF Typed, Workers, workerVars
<1>2. Conservation'
  BY SamePlaces DEF workerVars
<1>3. TasksInStep' /\ MainInStep'
  BY DEF InStep, TasksInStep, MainInStep, Live
<1>4. WorkersInStep'
  BY MainStepStays DEF InStep, NoSenders, Live
<1>5. JoinedInStep'
  BY DEF Typed, InStep, JoinedInStep, Ended, workerVars, Workers
<1>6. OkIsComplete' /\ WorkerErrorsWin' /\ UnreachableAnswers'
  BY DEF OkIsComplete, WorkerErrorsWin, UnreachableAnswers, workerVars
<1> QED BY <1>1, <1>2, <1>3, <1>4, <1>5, <1>6 DEF InStep

\* When every handle has been joined on the success path without a failure,
\* every worker found the channel closed and empty, so every block is folded.
LEMMA AllFolded ==
  ASSUME Typed, Conservation, InStep, main = "draining", joined > NWorkers,
         \A w \in Workers : ~Failed(w)
  PROVE  /\ \A w \in Workers : worker[w] = "ok"
         /\ \A t \in Tile : folded[t] = 1
<1>1. \A w \in Workers : worker[w] = "ok" /\ hand[w] = NoTile
  <2>1. \A w \in Workers : Ended(w) /\ worker[w] # "cancelled"
    BY AllJoined DEF InStep, MainInStep, JoinedInStep, WorkersInStep
  <2> QED BY <2>1 DEF Ended, Failed, InStep, WorkersInStep
<1>2. chan = <<>>
  <2>1. 1 \in Workers
    BY FirstWorker
  <2> QED BY <1>1, <2>1 DEF InStep, WorkersInStep
<1>3. ASSUME NEW t \in Tile PROVE folded[t] = 1
  <2>1. PICK u \in UnitIds : \E i \in DOMAIN Units[u] : Units[u][i] = t
    BY PipelineAssumption DEF UnitsAssumption, UnitIds
  <2>2. sent[u] = Size(u)
    BY DEF InStep, MainInStep, TasksInStep
  <2>3. IsSent(t)
    BY <2>1, <2>2, UnitShape DEF IsSent
  <2>4. ~Queued(t)
    BY <1>2 DEF Queued
  <2>5. ~Held(t)
    BY <1>1, Settings DEF Held
  <2> QED BY <2>3, <2>4, <2>5 DEF Conservation
<1> QED BY <1>1, <1>3

\* The read answers after the success path.
LEMMA FinishPreserves == IInv /\ Finish => IInv'
<1> SUFFICES ASSUME IInv, Finish PROVE IInv'
  OBVIOUS
<1> USE DEF IInv, Finish, Answer
<1>1. main' = "returned" /\ outer' = "dropped" /\ result' \in {"ok", "shared store", "decode error", "worker panic"}
  BY DEF FailureOf
<1>2. result' \in {"ok", "shared store"} => result' = "ok" /\ \A w \in Workers : ~Failed(w)
  <2>1. \A w \in Workers : Ended(w)
    BY AllJoined DEF InStep, JoinedInStep
  <2> QED BY <2>1 DEF NoReceivers, FailureOf
<1>3. Typed'
  BY <1>1 DEF Typed, Results, workerVars
<1>4. Conservation'
  BY SamePlaces DEF workerVars
<1>5. TasksInStep' /\ MainInStep'
  BY <1>1 DEF Typed, InStep, TasksInStep, MainInStep, Live
<1>6. WorkersInStep'
  BY <1>1, MainStepStays DEF InStep, NoSenders, Live
<1>7. JoinedInStep'
  BY <1>1 DEF JoinedInStep
<1>8. OkIsComplete' /\ WorkerErrorsWin' /\ UnreachableAnswers'
  BY <1>1, <1>2, AllFolded DEF OkIsComplete, WorkerErrorsWin, UnreachableAnswers, workerVars
<1> QED BY <1>3, <1>4, <1>5, <1>6, <1>7, <1>8 DEF InStep

\* The user interrupts the read.
LEMMA InterruptPreserves == IInv /\ Interrupt => IInv'
<1> SUFFICES ASSUME IInv, Interrupt PROVE IInv'
  OBVIOUS
<1> USE DEF IInv, Interrupt, Answer
<1>1. Typed'
  BY DEF Typed, TaskStates, Results, DropTasks, workerVars
<1>2. Conservation'
  BY SamePlaces DEF workerVars
<1>3. TasksInStep'
  BY DEF Typed, InStep, TasksInStep, DropTasks
<1>4. Live' = {}
  BY DEF Live, DropTasks
<1>5. MainInStep'
  BY <1>4 DEF Typed, InStep, MainInStep
<1>6. WorkersInStep'
  BY <1>4, MainStepStays DEF InStep, NoSenders
<1>7. JoinedInStep'
  BY DEF JoinedInStep
<1>8. OkIsComplete' /\ WorkerErrorsWin' /\ UnreachableAnswers'
  BY DEF OkIsComplete, WorkerErrorsWin, UnreachableAnswers
<1> QED BY <1>1, <1>2, <1>3, <1>5, <1>6, <1>7, <1>8 DEF InStep

-----------------------------------------------------------------------------
(* The theorems. *)

\* Every step of the pipeline preserves the invariant.
LEMMA NextPreserves == IInv /\ [Next]_vars => IInv'
<1> SUFFICES ASSUME IInv, [Next]_vars PROVE IInv'
  OBVIOUS
<1>1. CASE ProducerStep
  BY <1>1, StartFetchPreserves, FetchDonePreserves, SendPreserves, ProducerDonePreserves,
     ProducerFailsPreserves DEF ProducerStep, FetchFails, SendFails
<1>2. ASSUME NEW w \in Workers, WorkerStep(w) PROVE IInv'
  BY <1>2, StartWorkerPreserves, ReceivePreserves, ReceiveClosedPreserves, FoldPreserves,
     WorkerFailsPreserves DEF WorkerStep
<1>3. CASE MainStep
  BY <1>3, JoinAbortedPreserves, ReportCausePreserves, JoinDrainingPreserves, FinishPreserves
     DEF MainStep
<1>4. CASE Interrupt
  BY <1>4, InterruptPreserves
<1>5. CASE UNCHANGED vars
  <2>1. UNCHANGED <<next, task, sent, chan, outer, worker, hand, folded, main, joined, cause, result>>
    BY <1>5 DEF vars
  <2>2. Conservation'
    BY <2>1, SamePlaces DEF IInv
  <2>3. InStep'
    BY <2>1 DEF IInv, InStep, TasksInStep, MainInStep, WorkersInStep, JoinedInStep, Live, NoSenders,
                Ended, Failed
  <2>4. Typed'
    BY <2>1 DEF IInv, Typed
  <2> QED BY <2>1, <2>2, <2>3, <2>4 DEF IInv, OkIsComplete, WorkerErrorsWin,
                                        UnreachableAnswers
<1> QED BY <1>1, <1>2, <1>3, <1>4, <1>5 DEF Next

\* The invariant holds in every reachable state.
THEOREM InvariantHolds == Spec => []IInv
BY InitInv, NextPreserves, PTL DEF Spec

\* At most io_concurrency futures hold or fetch the blocks of a unit.
FewFutures == Cardinality(Live) <= IoConcurrency

\* A future starts only beside fewer than that, and no other step adds one.
LEMMA FuturesStayFew == IInv /\ FewFutures /\ [Next]_vars => FewFutures'
<1> SUFFICES ASSUME IInv, FewFutures, [Next]_vars PROVE FewFutures'
  OBVIOUS
<1>1. IsFiniteSet(Live) /\ Cardinality(Live) \in Nat /\ IoConcurrency \in Nat
  <2>1. Live \subseteq 1..Len(Units)
    BY Settings DEF Live
  <2>2. IsFiniteSet(1..Len(Units))
    <3>1. Len(Units) \in Int
      BY Settings
    <3> QED BY <3>1, FS_Interval
  <2>3. IsFiniteSet(Live)
    BY <2>1, <2>2, FS_Subset
  <2> QED BY <2>3, FS_CardinalityType, PipelineAssumption DEF SettingsAssumption
<1>2. CASE StartFetch
  <2>1. Live' = Live \cup {next}
    BY <1>2 DEF IInv, Typed, StartFetch, Live
  <2>2. Cardinality(Live') <= Cardinality(Live) + 1
    BY <1>1, <2>1, FS_AddElement
  <2> QED BY <1>1, <1>2, <2>1, <2>2, FS_AddElement, FS_CardinalityType DEF StartFetch, FewFutures
<1>3. CASE ~StartFetch
  <2>1. Live' \subseteq Live
    <3>1. task \in [UnitIds -> TaskStates]
      BY DEF IInv, Typed
    <3>2. CASE \E u \in UnitIds : FetchDone(u) \/ Send(u)
      BY <3>1, <3>2 DEF FetchDone, Send, Live
    <3>3. CASE task' = DropTasks
      BY <3>1, <3>3 DEF DropTasks, Live
    <3>4. CASE UNCHANGED task
      BY <3>4 DEF Live
    <3>5. CASE ProducerStep
      BY <1>3, <3>2, <3>3, <3>4, <3>5 DEF ProducerStep, FetchFails, SendFails, ProducerFails, ProducerDone
    <3>6. ASSUME NEW w \in Workers, WorkerStep(w) PROVE UNCHANGED task
      BY <3>6 DEF WorkerStep, StartWorker, Receive, ReceiveClosed, Fold, WorkerFails, producerVars
    <3>7. MainStep \/ UNCHANGED vars => UNCHANGED task
      BY DEF MainStep, JoinAborted, ReportCause, JoinDraining, Finish, producerVars, vars
    <3> QED BY <3>3, <3>4, <3>5, <3>6, <3>7 DEF Next, Interrupt
  <2>2. Cardinality(Live') <= Cardinality(Live) /\ Cardinality(Live') \in Nat
    BY <1>1, <2>1, FS_Subset, FS_CardinalityType
  <2> QED BY <1>1, <2>2 DEF FewFutures
<1> QED BY <1>2, <1>3

\* The types of the variables, the channel's capacity and the limit on futures
\* hold for any number of units, workers and fetch futures.
THEOREM TypeCorrect == Spec => []TypeOK
<1>1. IInv /\ FewFutures => TypeOK
  BY DEF IInv, FewFutures, TypeOK
<1>2. Init => FewFutures
  <2>1. Init => Live = {}
    BY DEF Init, Live
  <2> QED BY <2>1, FS_EmptySet, Settings, PipelineAssumption DEF FewFutures, SettingsAssumption
<1> QED BY <1>1, <1>2, FuturesStayFew, InvariantHolds, PTL DEF Spec

\* No block is lost or folded twice: not by the futures, the workers, their
\* failures or an interrupt (the channel and the hands of the workers).
THEOREM BlocksConserved == Spec => []Conservation
<1>1. IInv => Conservation
  BY DEF IInv
<1> QED BY <1>1, InvariantHolds, PTL

\* A read that answers "ok" has folded every block exactly once, and no worker
\* is left running.
THEOREM OkReadsAreComplete == Spec => []OkIsComplete
<1>1. IInv => OkIsComplete
  BY DEF IInv
<1> QED BY <1>1, InvariantHolds, PTL

\* A worker's error is never hidden behind the error it causes in the producer
\* (the error path and the drain, read.rs:2881-2909).
THEOREM ErrorsReported == Spec => []WorkerErrorsWin
<1>1. IInv => WorkerErrorsWin
  BY DEF IInv
<1> QED BY <1>1, InvariantHolds, PTL

\* Whoever has ended stays so, and an answer of the main task comes after the
\* last handle or an error of the producer, or is an interrupt.
LEMMA DrainedStays == IInv /\ DrainedBeforeAnswer /\ [Next]_vars => DrainedBeforeAnswer'
<1> SUFFICES ASSUME IInv, DrainedBeforeAnswer, [Next]_vars,
                    main' = "returned", cause' = "none", result' # "interrupted"
             PROVE  NoReceivers'
  BY DEF DrainedBeforeAnswer
<1>1. CASE ProducerStep
  BY <1>1 DEF ProducerStep, StartFetch, FetchDone, FetchFails, Send, SendFails, ProducerFails, ProducerDone, mainVars
<1>2. ASSUME NEW w \in Workers, WorkerStep(w) PROVE NoReceivers'
  <2>1. UNCHANGED <<main, cause, result>> /\ ~Ended(w)
    BY <1>2 DEF WorkerStep, StartWorker, Receive, ReceiveClosed, Fold, WorkerFails, mainVars, Ended
  <2> QED BY <2>1 DEF DrainedBeforeAnswer, NoReceivers
<1>3. CASE MainStep
  <2>1. Finish /\ UNCHANGED worker
    BY <1>3 DEF IInv, InStep, MainInStep, MainStep, JoinAborted, ReportCause, JoinDraining, Finish, workerVars
  <2>2. \A w \in Workers : Ended(w)
    BY <2>1, AllJoined DEF Finish, IInv, InStep, JoinedInStep
  <2> QED BY <2>1, <2>2 DEF NoReceivers, Ended
<1>4. CASE Interrupt
  BY <1>4 DEF Interrupt, Answer
<1>5. CASE UNCHANGED vars
  BY <1>5 DEF vars, DrainedBeforeAnswer, NoReceivers, Ended
<1> QED BY <1>1, <1>2, <1>3, <1>4, <1>5 DEF Next

\* When the producer is done, no answer but an interrupt leaves a worker on the
\* store: every handle is awaited, whichever of them failed.
THEOREM DrainsFirst == Spec => []DrainedBeforeAnswer
<1>1. Init => DrainedBeforeAnswer
  BY DEF Init, DrainedBeforeAnswer
<1> QED BY <1>1, DrainedStays, InvariantHolds, PTL DEF Spec

\* The user never reads "consumer pool dropped channel" and never "partition
\* store still shared after workers joined".
THEOREM NeverAnswered == Spec => []UnreachableAnswers
<1>1. IInv => UnreachableAnswers
  BY DEF IInv
<1> QED BY <1>1, InvariantHolds, PTL

-----------------------------------------------------------------------------
(* The pipeline implements ReadContract. *)

\* A fold of the pipeline is the contract's fold of the same block.
LEMMA FoldIsFoldBlock ==
  ASSUME IInv, NEW w \in Workers, Fold(w)
  PROVE  \E t \in Tile : Contract!FoldBlock(t)
<1>1. hand[w] \in Tile
  BY Settings DEF IInv, Typed, InStep, WorkersInStep, Fold
<1>2. folded[hand[w]] = 0
  BY <1>1 DEF IInv, Conservation, Held
<1>3. folded' = [folded EXCEPT ![hand[w]] = 1]
  BY <1>1, <1>2 DEF Fold, IInv, Typed
<1>4. result' = result /\ result # "ok"
  BY DEF Fold, mainVars, IInv, OkIsComplete
<1> QED BY <1>1, <1>2, <1>3, <1>4 DEF Contract!FoldBlock

\* Every step of the pipeline is a step of the contract or leaves it alone:
\* only Fold changes the counts, only an answer changes the outcome.
LEMMA StepRefines == IInv /\ IInv' /\ [Next]_vars => [Contract!Next]_(Contract!vars)
<1> SUFFICES ASSUME IInv, IInv', [Next]_vars PROVE [Contract!Next]_(Contract!vars)
  OBVIOUS
<1> USE DEF Contract!vars
<1>1. CASE UNCHANGED <<folded, result>>
  BY <1>1
<1>2. ASSUME NEW w \in Workers, Fold(w) PROVE Contract!Next
  BY <1>2, FoldIsFoldBlock DEF Contract!Next
<1>3. ASSUME folded' = folded, result = "none", result' # "none", result' # "ok"
      PROVE  Contract!Next
  BY <1>3 DEF Contract!Next, Contract!Fail
<1>4. ASSUME folded' = folded, result = "none", result' = "ok" PROVE Contract!Next
  BY <1>4 DEF Contract!Next, Contract!Succeed, IInv, OkIsComplete
<1>5. CASE folded' = folded /\ result = "none"
  BY <1>1, <1>3, <1>4, <1>5
<1>6. ASSUME JoinAborted \/ ReportCause \/ Finish \/ Interrupt
      PROVE  folded' = folded /\ result = "none"
  BY <1>6 DEF JoinAborted, ReportCause, Finish, Interrupt, workerVars, IInv, InStep, MainInStep
<1>7. ASSUME ProducerStep PROVE UNCHANGED <<folded, result>>
  BY <1>7 DEF ProducerStep, StartFetch, FetchDone, FetchFails, Send, SendFails, ProducerFails,
     ProducerDone, workerVars, mainVars
<1>8. ASSUME NEW w \in Workers, WorkerStep(w), ~Fold(w) PROVE UNCHANGED <<folded, result>>
  BY <1>8 DEF WorkerStep, StartWorker, Receive, ReceiveClosed, WorkerFails, mainVars
<1>9. ASSUME JoinDraining \/ UNCHANGED vars PROVE UNCHANGED <<folded, result>>
  BY <1>9 DEF JoinDraining, vars, workerVars
<1> QED BY <1>1, <1>2, <1>5, <1>6, <1>7, <1>8, <1>9 DEF Next, MainStep

\* The pipeline implements the abstract read, whatever its schedule: blocks
\* are folded at most once and an "ok" answer comes after all of them.
THEOREM ImplementsContract == Spec => ContractSpec
<1>1. Init => Contract!Init
  BY DEF Init, Contract!Init
<1> QED BY <1>1, StepRefines, InvariantHolds, PTL DEF Spec, ContractSpec, Contract!Spec

-----------------------------------------------------------------------------
(* Sampling is a pipeline of its own records. *)

\* A worker's list has blocks of the raster, and the lists have the folded ones.
Listed ==
  /\ part \in [Workers -> SUBSET Tile]
  /\ \A t \in Tile : folded[t] \in {0, 1}

\* Each block's records are held by one worker from the moment the block is
\* folded: adding up the lists counts none twice and leaves none out.
RecordsHeldOnce ==
  /\ \A t \in Tile : folded[t] = 1 <=> \E w \in Workers : t \in part[w]
  /\ \A v, w \in Workers : part[v] \cap part[w] # {} => v = w

SampleInv == IInv /\ Listed /\ RecordsHeldOnce

-----------------------------------------------------------------------------
(* The steps. *)

\* When every handle is joined and none failed, no worker holds the records.
LEMMA JoinedWithoutFailure ==
  ASSUME IInv, main = "draining", joined > NWorkers, \A w \in Workers : ~Failed(w)
  PROVE  NoReceivers
<1>1. 1..(joined - 1) = Workers
  BY AllJoined DEF IInv
<1> QED BY <1>1 DEF IInv, InStep, JoinedInStep, NoReceivers

\* Merging the lists is how sampling finishes a read.
LEMMA SampleFinishIsFinish == IInv /\ SampleFinish => Finish
BY JoinedWithoutFailure DEF SampleFinish, Finish

\* Each step of sampling is the pipeline's step of that name.
LEMMA SampleStepIsAStep == IInv /\ [SampleNext]_allVars => [Next]_vars
<1> SUFFICES ASSUME IInv, [SampleNext]_allVars PROVE [Next]_vars
  OBVIOUS
<1>1. CASE SampleProducerStep
  BY <1>1 DEF SampleProducerStep, Next
<1>2. ASSUME NEW w \in Workers, SampleWorkerStep(w) PROVE Next
  BY <1>2 DEF SampleWorkerStep, Sample, WorkerStep, Next
<1>3. CASE SampleMainStep
  BY <1>3, SampleFinishIsFinish DEF SampleMainStep, MainStep, Next
<1>4. CASE Interrupt /\ UNCHANGED sampleVars
  BY <1>4 DEF Next
<1>5. CASE UNCHANGED allVars
  BY <1>5 DEF allVars
<1> QED BY <1>1, <1>2, <1>3, <1>4, <1>5 DEF SampleNext

\* A worker adds to its list the block it folds, which no list has yet.
LEMMA SampleKeepsRecords ==
  ASSUME SampleInv, NEW w \in Workers, Sample(w)
  PROVE  Listed' /\ RecordsHeldOnce'
<1> DEFINE t == hand[w]
<1>1. t \in Tile
  BY Settings DEF SampleInv, IInv, Typed, InStep, WorkersInStep, Sample, Fold
<1>2. folded[t] = 0
  BY <1>1 DEF SampleInv, IInv, Conservation, Held
<1>3. \A x \in Tile : folded'[x] = IF x = t THEN 1 ELSE folded[x]
  BY <1>1, <1>2 DEF SampleInv, IInv, Typed, Sample, Fold
<1>4. \A v \in Workers : part'[v] = IF v = w THEN part[v] \cup {t} ELSE part[v]
  BY DEF SampleInv, Listed, Sample
<1>5. \A v \in Workers : t \notin part[v]
  BY <1>1, <1>2 DEF SampleInv, RecordsHeldOnce
<1>6. Listed'
  <2>1. part' \in [Workers -> SUBSET Tile]
    BY <1>1 DEF SampleInv, Listed, Sample
  <2> QED BY <1>3, <2>1 DEF SampleInv, Listed
<1>7. \A v \in Workers : \A x : x \in part'[v] <=> x \in part[v] \/ (v = w /\ x = t)
  BY <1>4
<1> HIDE DEF t
<1>8. \A x \in Tile : folded'[x] = 1 <=> \E v \in Workers : x \in part'[v]
  <2>1. ASSUME NEW x \in Tile PROVE folded[x] = 1 <=> \E v \in Workers : x \in part[v]
    BY DEF SampleInv, RecordsHeldOnce
  <2> QED BY <1>3, <1>7, <2>1
<1>9. \A u, v \in Workers : part'[u] \cap part'[v] # {} => u = v
  <2>1. SUFFICES ASSUME NEW u \in Workers, NEW v \in Workers, NEW x, x \in part'[u], x \in part'[v]
                 PROVE  u = v
    OBVIOUS
  <2>2. x \in part[u] /\ x \in part[v] => u = v
    BY DEF SampleInv, RecordsHeldOnce
  <2> QED BY <1>5, <1>7, <2>1, <2>2
<1> QED BY <1>6, <1>8, <1>9 DEF RecordsHeldOnce

\* Any other step folds no block and touches no list.
LEMMA OthersKeepRecords ==
  ASSUME SampleInv, UNCHANGED <<part, folded>>
  PROVE  Listed' /\ RecordsHeldOnce'
BY DEF SampleInv, Listed, RecordsHeldOnce

\* Every step keeps the invariant of the pipeline and that of the records.
LEMMA SampleStepKeeps == SampleInv /\ [SampleNext]_allVars => SampleInv'
<1> SUFFICES ASSUME SampleInv, [SampleNext]_allVars PROVE SampleInv'
  OBVIOUS
<1>1. IInv'
  BY SampleStepIsAStep, NextPreserves DEF SampleInv
<1>2. ASSUME NEW w \in Workers, SampleWorkerStep(w) PROVE Listed' /\ RecordsHeldOnce'
  <2>1. CASE Sample(w)
    BY <2>1, SampleKeepsRecords
  <2>2. CASE ~Sample(w)
    <3>1. UNCHANGED <<part, folded>>
      BY <1>2, <2>2 DEF SampleWorkerStep, StartWorker, Receive, ReceiveClosed, WorkerFails, sampleVars
    <3> QED BY <3>1, OthersKeepRecords
  <2> QED BY <2>1, <2>2
<1>3. ASSUME SampleProducerStep \/ SampleMainStep \/ (Interrupt /\ UNCHANGED sampleVars) \/ UNCHANGED allVars
      PROVE  UNCHANGED <<part, folded>>
  <2>1. CASE SampleProducerStep
    BY <2>1 DEF SampleProducerStep, ProducerStep, StartFetch, FetchDone, FetchFails, Send, SendFails, ProducerFails,
       ProducerDone, workerVars, sampleVars
  <2>2. CASE SampleMainStep
    BY <2>2 DEF SampleMainStep, JoinAborted, ReportCause, JoinDraining, SampleFinish, workerVars, sampleVars
  <2>3. CASE Interrupt /\ UNCHANGED sampleVars
    BY <2>3 DEF Interrupt, workerVars, sampleVars
  <2>4. CASE UNCHANGED allVars
    BY <2>4 DEF allVars, vars, sampleVars
  <2> QED BY <1>3, <2>1, <2>2, <2>3, <2>4
<1>4. Listed' /\ RecordsHeldOnce'
  BY <1>2, <1>3, OthersKeepRecords DEF SampleNext
<1> QED BY <1>1, <1>4 DEF SampleInv

\* Nothing is folded at first and the lists are empty.
LEMMA SampleInitHolds == SampleInit => SampleInv
<1> SUFFICES ASSUME SampleInit PROVE SampleInv
  OBVIOUS
<1>1. IInv
  BY InitInv DEF SampleInit
<1>2. \A t \in Tile : folded[t] = 0
  BY DEF SampleInit, Init
<1>3. \A w \in Workers : part[w] = {}
  BY DEF SampleInit
<1>4. Listed
  BY <1>2 DEF SampleInit, Listed
<1>5. RecordsHeldOnce
  BY <1>2, <1>3 DEF RecordsHeldOnce
<1> QED BY <1>1, <1>4, <1>5 DEF SampleInv

-----------------------------------------------------------------------------
(* The theorems. *)

\* The invariant holds in every reachable state of a sampling.
LEMMA SampleInvariant == SampleSpec => []SampleInv
BY SampleInitHolds, SampleStepKeeps, PTL DEF SampleSpec

\* Whichever workers the blocks fall to, and whatever fails, the records of a
\* folded block are in one worker's list, so the merge at the end
\* (sample.rs:744-769) counts each block once.
THEOREM RecordsOnce == SampleSpec => []RecordsHeldOnce
<1>1. SampleInv => RecordsHeldOnce
  BY DEF SampleInv
<1> QED BY <1>1, SampleInvariant, PTL

\* Sampling takes no step that the pipeline of a read could not take: sample.rs
\* repeats the pipeline of read.rs, and only its records are new.
THEOREM SamplesAsARead == SampleSpec => Init /\ [][Next]_vars
<1>1. SampleInit => Init
  BY DEF SampleInit
<1>2. SampleInv => IInv
  BY DEF SampleInv
<1> QED BY <1>1, <1>2, SampleStepIsAStep, SampleInvariant, PTL DEF SampleSpec

\* So what is proved of a read holds of a sampling: no block is lost or folded
\* twice, a good answer has every block, and no worker's error is hidden.
THEOREM SamplingIsSafe ==
  SampleSpec => [](Conservation /\ OkIsComplete /\ WorkerErrorsWin)
<1>1. SampleInv => Conservation /\ OkIsComplete /\ WorkerErrorsWin
  BY DEF SampleInv, IInv
<1> QED BY <1>1, SampleInvariant, PTL

-----------------------------------------------------------------------------
(* What a sample is made of.  Stencils. *)

\* An axis's kernel starts where the blocks' stencil starts, has as many
\* weights as that has pixels, and gives every pixel a weight.
LEMMA KernelShape ==
  ASSUME NEW interp \in Kernels, NEW c \in Int
  PROVE  /\ Kernel1D(interp, c).start \in Int
         /\ Kernel1D(interp, c).w \in Seq(Int)
         /\ Len(Kernel1D(interp, c).w) = Footprint(interp).n
         /\ Footprint(interp).n \in Nat \ {0}
         /\ interp = Interp => /\ Kernel1D(interp, c).start = StencilStart(Interp, c).start
                               /\ Footprint(interp).n = StencilStart(Interp, c).n
         /\ \A i \in Int : At1D(Kernel1D(interp, c), i) \in Int
<1> DEFINE k == Kernel1D(interp, c)
<1>1. Footprint(interp).first \in Int /\ Footprint(interp).n \in Nat \ {0}
  BY DEF Kernels, Footprint
<1>2. k.start \in Int
  <2>1. c \div 2 \in Int /\ (c - 1) \div 2 \in Int
    OBVIOUS
  <2> QED BY <1>1, <2>1 DEF Kernel1D
<1>3. k.w \in Seq(Int) /\ Len(k.w) = Footprint(interp).n
  <2>1. k.w = Weights(interp, (c - 1) % 2 = 1)
    BY DEF Kernel1D
  <2> HIDE DEF k
  <2>2. CASE interp = "nearest"
    BY <2>1, <2>2 DEF Weights, Footprint
  <2>3. CASE interp = "bilinear"
    BY <2>1, <2>3 DEF Weights, Footprint
  <2>4. CASE interp = "bicubic"
    BY <2>1, <2>4 DEF Weights, Footprint
  <2>5. CASE interp = "lanczos"
    BY <2>1, <2>5 DEF Weights, Footprint
  <2> QED BY <2>2, <2>3, <2>4, <2>5 DEF Kernels
<1>4. interp = Interp => k.start = StencilStart(Interp, c).start /\ Footprint(interp).n = StencilStart(Interp, c).n
  BY DEF Kernel1D, StencilStart
<1> HIDE DEF k
<1>5. \A i \in Int : At1D(k, i) \in Int
  BY <1>3 DEF At1D
<1> QED BY <1>1, <1>2, <1>3, <1>4, <1>5 DEF k

\* Centres are points of the plane.
LEMMA CentrePlace ==
  ASSUME NEW cell \in Sampled
  PROVE  Centre[cell][1] \in Int /\ Centre[cell][2] \in Int
BY SamplingAssumption DEF Sampled

\* A stencil is a square of pixels, on the raster or off it.
LEMMA StencilShape ==
  ASSUME NEW interp \in Kernels, NEW cell \in Sampled
  PROVE  /\ IsFiniteSet(Stencil(interp, cell))
         /\ Cardinality(Stencil(interp, cell)) = Footprint(interp).n * Footprint(interp).n
         /\ \A p \in Stencil(interp, cell) : WeightOf(interp, cell, p) \in Int
<1> DEFINE kx == Kernel1D(interp, Centre[cell][1])
           ky == Kernel1D(interp, Centre[cell][2])
           n  == Footprint(interp).n
           X  == kx.start..(kx.start + Len(kx.w) - 1)
           Y  == ky.start..(ky.start + Len(ky.w) - 1)
<1>1. /\ kx.start \in Int /\ ky.start \in Int
      /\ n \in Nat \ {0} /\ Len(kx.w) = n /\ Len(ky.w) = n
      /\ \A i \in Int : At1D(kx, i) \in Int /\ At1D(ky, i) \in Int
  BY CentrePlace, KernelShape
<1>2. Stencil(interp, cell) = X \X Y
  BY DEF Stencil
<1>3. IsFiniteSet(X) /\ Cardinality(X) = n /\ IsFiniteSet(Y) /\ Cardinality(Y) = n
  <2>1. \A a \in Int : IsFiniteSet(a..(a + n - 1)) /\ Cardinality(a..(a + n - 1)) = n
    <3> TAKE a \in Int
    <3> DEFINE e == a + n - 1
    <3>1. n \in Nat \ {0}
      BY <1>1
    <3> HIDE DEF n
    <3>2. e \in Int /\ a <= e /\ e - a + 1 = n
      BY <3>1
    <3> HIDE DEF e
    <3>3. IsFiniteSet(a..e) /\ Cardinality(a..e) = n
      BY <3>2, FS_Interval
    <3> QED BY <3>3 DEF e
  <2> HIDE DEF kx, ky, n
  <2> QED BY <1>1, <2>1
<1>4. \A p \in X \X Y : WeightOf(interp, cell, p) \in Int
  <2>1. \A p \in X \X Y : p[1] \in Int /\ p[2] \in Int
    BY <1>1
  <2>2. \A p : WeightOf(interp, cell, p) = At1D(kx, p[1]) * At1D(ky, p[2])
    BY DEF WeightOf
  <2>3. \A i, j \in Int : i * j \in Int
    OBVIOUS
  <2>4. \A p \in X \X Y : At1D(kx, p[1]) \in Int /\ At1D(ky, p[2]) \in Int
    BY <1>1, <2>1
  <2> HIDE DEF kx, ky, X, Y
  <2> QED BY <2>2, <2>3, <2>4
<1> HIDE DEF X, Y, n
<1> QED BY <1>2, <1>3, <1>4, FS_Product DEF n

\* The bilinear stencil lies inside those of the wider kernels.
LEMMA BilinearInside ==
  ASSUME NEW cell \in Sampled, NeedsFallback
  PROVE  Stencil("bilinear", cell) \subseteq Stencil(Interp, cell)
<1>1. ASSUME NEW c \in Int
      PROVE  LET b == Kernel1D("bilinear", c)
                 k == Kernel1D(Interp, c)
             IN b.start..(b.start + Len(b.w) - 1) \subseteq k.start..(k.start + Len(k.w) - 1)
  <2>1. (c - 1) \div 2 \in Int
    OBVIOUS
  <2> DEFINE bil == Kernel1D("bilinear", c)
             k   == Kernel1D(Interp, c)
             at  == (c - 1) \div 2
  <2>2. bil.start = at /\ Len(bil.w) = 2
    <3>1. "bilinear" \in Kernels /\ Footprint("bilinear") = [first |-> 0, n |-> 2]
      BY DEF Kernels, Footprint
    <3>2. Len(bil.w) = 2
      <4>1. Len(bil.w) = Footprint("bilinear").n
        BY <3>1, KernelShape
      <4> HIDE DEF bil
      <4> QED BY <3>1, <4>1
    <3>3. bil.start = at + 0
      BY <3>1 DEF Kernel1D
    <3> QED BY <2>1, <3>2, <3>3
  <2>3. k.start = at + Footprint(Interp).first /\ Len(k.w) = Footprint(Interp).n
    <3>1. Len(k.w) = Footprint(Interp).n
      BY SamplingAssumption, KernelShape
    <3>2. k.start = at + Footprint(Interp).first
      BY DEF Kernel1D, NeedsFallback
    <3> QED BY <3>1, <3>2
  <2>4. \/ Footprint(Interp) = [first |-> -1, n |-> 4]
        \/ Footprint(Interp) = [first |-> -2, n |-> 6]
    BY DEF Footprint, NeedsFallback
  <2> HIDE DEF bil, k, at
  <2>5. at \in Int
    BY <2>1 DEF at
  <2>6. bil.start..(bil.start + Len(bil.w) - 1) \subseteq k.start..(k.start + Len(k.w) - 1)
    BY <2>2, <2>3, <2>4, <2>5
  <2> QED BY <2>6 DEF bil, k
<1> QED BY <1>1, CentrePlace DEF Stencil

-----------------------------------------------------------------------------
(* Blocks. *)

\* The block a pixel lies in.
Holding(p) == <<p[1] \div TileW, p[2] \div TileH>>

\* Dividing keeps the order.
LEMMA DivOrder ==
  ASSUME NEW i \in Nat, NEW j \in Nat, i <= j, NEW d \in Nat \ {0}
  PROVE  i \div d \in Nat /\ i \div d <= j \div d
<1>1. /\ i \div d \in Nat /\ j \div d \in Nat
      /\ d * (i \div d) <= i /\ j < d * ((j \div d) + 1)
  OBVIOUS
<1> DEFINE a == i \div d
           b == j \div d
<1>2. d * a < d * (b + 1)
  BY <1>1
<1> HIDE DEF a, b
<1>3. a < b + 1
  <2>1. SUFFICES ASSUME a >= b + 1 PROVE FALSE
    BY <1>1 DEF a, b
  <2>2. d * a >= d * (b + 1)
    BY <1>1, <2>1 DEF a, b
  <2> QED BY <1>1, <1>2, <2>2 DEF a, b
<1> QED BY <1>1, <1>3 DEF a, b

\* Along an axis, the pixels of the kernel that are on the raster lie in the
\* blocks that serve the centre, of which there are finitely many.
LEMMA AxisCovered ==
  ASSUME NEW c \in Int, NEW size \in Nat \ {0}, NEW tile \in Nat \ {0}
  PROVE  /\ IsFiniteSet(AxisTiles(c, size, tile))
         /\ \A i \in 0..(size - 1) :
              i \in Kernel1D(Interp, c).start..(Kernel1D(Interp, c).start + Len(Kernel1D(Interp, c).w) - 1)
                => i \div tile \in AxisTiles(c, size, tile)
<1> DEFINE s  == StencilStart(Interp, c)
           lo == Max({s.start, 0})
           hi == Min({s.start + s.n - 1, size - 1})
<1>1. /\ Kernel1D(Interp, c).start = s.start /\ Len(Kernel1D(Interp, c).w) = s.n
      /\ s.start \in Int /\ s.n \in Nat \ {0}
  BY SamplingAssumption, KernelShape
<1>2. AxisTiles(c, size, tile) = (lo \div tile)..(hi \div tile)
  BY DEF AxisTiles
<1> HIDE DEF s
<1>3. \A a, b \in Int : /\ Max({a, b}) \in {a, b} /\ Max({a, b}) >= a /\ Max({a, b}) >= b
                        /\ Min({a, b}) \in {a, b} /\ Min({a, b}) <= a /\ Min({a, b}) <= b
  <2> TAKE a, b \in Int
  <2>1. \E m \in {a, b} : \A y \in {a, b} : m >= y
    OBVIOUS
  <2>2. \E m \in {a, b} : \A y \in {a, b} : m <= y
    OBVIOUS
  <2>3. Max({a, b}) \in {a, b} /\ \A y \in {a, b} : Max({a, b}) >= y
    BY <2>1 DEF Max
  <2>4. Min({a, b}) \in {a, b} /\ \A y \in {a, b} : Min({a, b}) <= y
    BY <2>2 DEF Min
  <2> QED BY <2>3, <2>4
<1>4. /\ lo \in Nat /\ hi \in Int
      /\ lo \in {s.start, 0} /\ hi \in {s.start + s.n - 1, size - 1}
  <2>1. s.start + s.n - 1 \in Int /\ size - 1 \in Int /\ s.start \in Int /\ 0 \in Int
    BY <1>1
  <2>2. lo \in {s.start, 0} /\ lo >= 0
    BY <1>3, <2>1
  <2>3. hi \in {s.start + s.n - 1, size - 1}
    BY <1>3, <2>1
  <2> HIDE DEF lo, hi
  <2> QED BY <1>1, <2>1, <2>2, <2>3
<1> HIDE DEF lo, hi
<1>5. lo \div tile \in Int /\ hi \div tile \in Int
  BY <1>4
<1>6. IsFiniteSet(AxisTiles(c, size, tile))
  BY <1>2, <1>5, FS_Interval
<1>7. ASSUME NEW i \in 0..(size - 1), i \in s.start..(s.start + s.n - 1)
      PROVE  i \div tile \in AxisTiles(c, size, tile)
  <2>1. i \in Nat /\ hi \in Nat /\ lo <= i /\ i <= hi
    BY <1>1, <1>4, <1>7
  <2>2. i \div tile \in Nat /\ lo \div tile <= i \div tile /\ i \div tile <= hi \div tile
    BY <1>4, <2>1, DivOrder
  <2> QED BY <1>2, <1>5, <2>2
<1> QED BY <1>1, <1>6, <1>7

\* Every pixel of a stencil on the raster lies in a block that serves the
\* centre; those blocks are finitely many, and all of them are touched.
LEMMA StencilCovered ==
  ASSUME NEW cell \in Sampled
  PROVE  /\ IsFiniteSet(TilesOf(cell))
         /\ {t \in Touched : cell \in Entries(t)} = TilesOf(cell)
         /\ \A p \in Stencil(Interp, cell) \cap Pixels : Holding(p) \in TilesOf(cell)
         /\ \A p \in Pixels, t \in TilesOf(cell) : p \in Owned(t) <=> Holding(p) = t
<1>1. {Width, Height, TileW, TileH} \subseteq Nat \ {0}
  BY SamplingAssumption
<1> DEFINE A == AxisTiles(Centre[cell][1], Width, TileW)
           B == AxisTiles(Centre[cell][2], Height, TileH)
<1>2. IsFiniteSet(A) /\ IsFiniteSet(B)
  BY <1>1, CentrePlace, AxisCovered
<1>3. TilesOf(cell) = A \X B
  BY DEF TilesOf
<1>4. ASSUME NEW p \in Stencil(Interp, cell) \cap Pixels
      PROVE  p[1] \div TileW \in A /\ p[2] \div TileH \in B
  <2>1. p[1] \in 0..(Width - 1) /\ p[2] \in 0..(Height - 1)
    BY DEF Pixels
  <2>2. /\ p[1] \in Kernel1D(Interp, Centre[cell][1]).start
                     ..(Kernel1D(Interp, Centre[cell][1]).start + Len(Kernel1D(Interp, Centre[cell][1]).w) - 1)
        /\ p[2] \in Kernel1D(Interp, Centre[cell][2]).start
                     ..(Kernel1D(Interp, Centre[cell][2]).start + Len(Kernel1D(Interp, Centre[cell][2]).w) - 1)
    BY DEF Stencil
  <2>3. p[1] \div TileW \in A
    BY <1>1, <2>1, <2>2, CentrePlace, AxisCovered
  <2>4. p[2] \div TileH \in B
    BY <1>1, <2>1, <2>2, CentrePlace, AxisCovered
  <2> QED BY <2>3, <2>4
<1>5. \A p \in Pixels, t \in A \X B : p \in Owned(t) <=> Holding(p) = t
  BY DEF Owned, Holding
<1>6. {t \in Touched : cell \in Entries(t)} = TilesOf(cell)
  BY DEF Touched, Entries
<1> HIDE DEF A, B
<1>7. IsFiniteSet(TilesOf(cell))
  BY <1>2, <1>3, FS_Product
<1> QED BY <1>3, <1>4, <1>5, <1>6, <1>7 DEF Holding

-----------------------------------------------------------------------------
(* Sums over blocks. *)

Pick(S) == CHOOSE x \in S : TRUE
Sums == INSTANCE Folding WITH Op <- +, Choose <- Pick, Numbers <- Int

\* What the lemmas about folds say, they say of sums.
LEMMA SumsAreFolds ==
  /\ Sums!Adds
  /\ \A S : Sums!Chooses(S)
  /\ \A f, S : SumFunctionOnSet(f, S) = Sums!Fold(0, f, S)
  /\ \A f, S : Sums!Summable(f, S) <=> IsFiniteSet(S) /\ \A s \in S : f[s] \in Int
  /\ \A S : Sums!IsFiniteSet(S) <=> IsFiniteSet(S)
<1>1. Sums!Adds
  BY DEF Sums!Adds
<1>2. \A S : Sums!Chooses(S)
  BY DEF Sums!Chooses, Pick
<1>3. \A f, S : SumFunctionOnSet(f, S) = Sums!Fold(0, f, S)
  BY DEF SumFunctionOnSet, FoldFunctionOnSet, MapThenFoldSet, Sums!Fold, Sums!MapThenFoldSet, Pick
<1>4. \A S : Sums!IsFiniteSet(S) <=> IsFiniteSet(S)
  BY DEF IsFiniteSet, Sums!IsFiniteSet
<1>5. \A f, S : Sums!Summable(f, S) <=> IsFiniteSet(S) /\ \A s \in S : f[s] \in Int
  BY <1>2, <1>4 DEF Sums!Summable
<1> QED BY <1>1, <1>2, <1>3, <1>4, <1>5

\* Functions that agree on a set have the same sum over it.
LEMMA SumsAgree ==
  ASSUME NEW S, IsFiniteSet(S), NEW f, NEW g, \A s \in S : f[s] \in Int /\ f[s] = g[s]
  PROVE  SumFunctionOnSet(f, S) = SumFunctionOnSet(g, S)
<1>1. Sums!Summable(f, S)
  BY SumsAreFolds
<1>2. Sums!Fold(0, f, S) = Sums!Fold(0, g, S)
  BY <1>1, SumsAreFolds, Sums!SumSame
<1> QED BY <1>2, SumsAreFolds

\* A sum over pixels of a stencil is that of its sums in the blocks.
LEMMA SumOverBlocks ==
  ASSUME NEW cell \in Sampled, NEW S \in SUBSET (Stencil(Interp, cell) \cap Pixels),
         NEW f, \A p \in S : f[p] \in Int,
         NEW g, \A t \in TilesOf(cell) : g[t] = SumFunctionOnSet(f, S \cap Owned(t))
  PROVE  SumFunctionOnSet(g, TilesOf(cell)) = SumFunctionOnSet(f, S)
<1> DEFINE I == TilesOf(cell)
           h == [p \in S |-> Holding(p)]
<1>1. IsFiniteSet(S)
  <2>1. IsFiniteSet(Stencil(Interp, cell))
    BY SamplingAssumption, StencilShape
  <2> QED BY <2>1, FS_Subset
<1>2. Sums!Summable(f, S)
  BY <1>1, SumsAreFolds
<1>3. IsFiniteSet(I) /\ \A p \in S : h[p] \in I
  BY StencilCovered
<1> DEFINE P == [t \in I |-> S \cap Owned(t)]
<1>4. \A t \in I : P[t] \subseteq S /\ \A p \in S : p \in P[t] <=> h[p] = t
  BY StencilCovered
<1>5. \A t \in I : g[t] = Sums!Fold(0, f, P[t])
  BY SumsAreFolds
<1> HIDE DEF h, I, P
<1>6. Sums!Fold(0, g, I) = Sums!Fold(0, f, S)
  <2>1. Sums!Adds /\ Sums!Chooses(I) /\ Sums!IsFiniteSet(I)
    BY <1>3, SumsAreFolds
  <2> QED BY <1>2, <1>3, <1>4, <1>5, <2>1, Sums!SumByParts
<1> QED BY <1>6, SumsAreFolds DEF I

\* So are the weighted sum of values and that of weights.
LEMMA WeightedSumOverBlocks ==
  ASSUME NEW interp \in Kernels, NEW cell \in Sampled, NEW b \in Bands, NEW aScene,
         NEW P \in SUBSET (Stencil(Interp, cell) \cap Pixels), P \subseteq Stencil(interp, cell),
         NEW g, \A t \in TilesOf(cell) : g[t] = WeightedSum(interp, aScene, cell, b, P \cap Owned(t)),
         NEW g1, \A t \in TilesOf(cell) : g1[t] = g[t][1],
         NEW g2, \A t \in TilesOf(cell) : g2[t] = g[t][2]
  PROVE  <<SumFunctionOnSet(g1, TilesOf(cell)), SumFunctionOnSet(g2, TilesOf(cell))>>
           = WeightedSum(interp, aScene, cell, b, P)
<1> DEFINE valid(Q) == {p \in Q : Valid(aScene, b, p)}
           values(Q) == [p \in valid(Q) |-> WeightOf(interp, cell, p) * Value[b][p]]
           weights(Q) == [p \in valid(Q) |-> WeightOf(interp, cell, p)]
<1>1. \A Q : WeightedSum(interp, aScene, cell, b, Q)
               = <<SumFunctionOnSet(values(Q), valid(Q)), SumFunctionOnSet(weights(Q), valid(Q))>>
  BY DEF WeightedSum
<1>2. \A p \in P : WeightOf(interp, cell, p) \in Int /\ WeightOf(interp, cell, p) * Value[b][p] \in Int
  <2> TAKE p \in P
  <2>1. WeightOf(interp, cell, p) \in Int
    BY StencilShape
  <2>2. Value[b][p] \in Int
    BY SamplingAssumption
  <2>3. \A i, j \in Int : i * j \in Int
    OBVIOUS
  <2> QED BY <2>1, <2>2, <2>3
<1>3. \A p \in valid(P) : values(P)[p] \in Int /\ weights(P)[p] \in Int
  BY <1>2
<1>4. ASSUME NEW t \in TilesOf(cell)
      PROVE  /\ g1[t] = SumFunctionOnSet(values(P), valid(P) \cap Owned(t))
             /\ g2[t] = SumFunctionOnSet(weights(P), valid(P) \cap Owned(t))
  <2> DEFINE Q == P \cap Owned(t)
  <2>1. valid(Q) = valid(P) \cap Owned(t)
    OBVIOUS
  <2>2. IsFiniteSet(valid(Q))
    <3>1. IsFiniteSet(Stencil(Interp, cell))
      BY SamplingAssumption, StencilShape
    <3>2. valid(Q) \subseteq Stencil(Interp, cell)
      OBVIOUS
    <3> HIDE DEF valid, Q
    <3> QED BY <3>1, <3>2, FS_Subset
  <2>3. \A p \in valid(Q) : /\ values(Q)[p] \in Int /\ values(Q)[p] = values(P)[p]
                            /\ weights(Q)[p] \in Int /\ weights(Q)[p] = weights(P)[p]
    BY <1>2
  <2>4. g1[t] = SumFunctionOnSet(values(Q), valid(Q)) /\ g2[t] = SumFunctionOnSet(weights(Q), valid(Q))
    <3>1. g[t] = <<SumFunctionOnSet(values(Q), valid(Q)), SumFunctionOnSet(weights(Q), valid(Q))>>
      BY <1>1
    <3> HIDE DEF values, weights, valid, Q
    <3> QED BY <3>1
  <2> HIDE DEF values, weights, valid, Q
  <2>5. /\ SumFunctionOnSet(values(Q), valid(Q)) = SumFunctionOnSet(values(P), valid(Q))
        /\ SumFunctionOnSet(weights(Q), valid(Q)) = SumFunctionOnSet(weights(P), valid(Q))
    BY <2>2, <2>3, SumsAgree
  <2> QED BY <2>1, <2>4, <2>5
<1>5. valid(P) \in SUBSET (Stencil(Interp, cell) \cap Pixels)
  OBVIOUS
<1> HIDE DEF valid, values, weights
<1>6. /\ SumFunctionOnSet(g1, TilesOf(cell)) = SumFunctionOnSet(values(P), valid(P))
      /\ SumFunctionOnSet(g2, TilesOf(cell)) = SumFunctionOnSet(weights(P), valid(P))
  <2>1. \A f, S : S \in SUBSET (Stencil(Interp, cell) \cap Pixels) /\ (\A p \in S : f[p] \in Int) =>
          \A k : (\A t \in TilesOf(cell) : k[t] = SumFunctionOnSet(f, S \cap Owned(t))) =>
            SumFunctionOnSet(k, TilesOf(cell)) = SumFunctionOnSet(f, S)
    BY SumOverBlocks
  <2> DEFINE V == valid(P)
             x == values(P)
             y == weights(P)
  <2>2. \A p \in V : x[p] \in Int /\ y[p] \in Int
    BY <1>3
  <2>3. \A t \in TilesOf(cell) : g1[t] = SumFunctionOnSet(x, V \cap Owned(t))
    BY <1>4
  <2>4. \A t \in TilesOf(cell) : g2[t] = SumFunctionOnSet(y, V \cap Owned(t))
    BY <1>4
  <2>5. V \in SUBSET (Stencil(Interp, cell) \cap Pixels)
    BY <1>5
  <2> HIDE DEF V, x, y
  <2>6. SumFunctionOnSet(g1, TilesOf(cell)) = SumFunctionOnSet(x, V)
    BY <2>1, <2>2, <2>3, <2>5
  <2>7. SumFunctionOnSet(g2, TilesOf(cell)) = SumFunctionOnSet(y, V)
    BY <2>1, <2>2, <2>4, <2>5
  <2> QED BY <2>6, <2>7 DEF V, x, y
<1> QED BY <1>1, <1>6

-----------------------------------------------------------------------------
(* What the records of all blocks add up to. *)

OnStencil(cell) == Stencil(Interp, cell) \cap Pixels
Usable(aScene, cell) == {p \in OnStencil(cell) : AllValid(aScene, p)}

\* The record of a cell in each block that serves it.
Records(aScene, cell) == [t \in TilesOf(cell) |-> Record(aScene, t, cell)]

\* The merge adds up those, field by field.
LEMMA MergeAddsRecords ==
  ASSUME NEW cell \in Sampled, NEW aScene
  PROVE  LET total == Merge(aScene, Touched, cell)
             rec   == Records(aScene, cell)
             T     == TilesOf(cell)
         IN /\ total.nValid = SumFunctionOnSet([t \in T |-> rec[t].nValid], T)
            /\ \A b \in Bands :
                 /\ total.kernel[b] = <<SumFunctionOnSet([t \in T |-> rec[t].kernel[b][1]], T),
                                        SumFunctionOnSet([t \in T |-> rec[t].kernel[b][2]], T)>>
                 /\ total.bilinear[b] = <<SumFunctionOnSet([t \in T |-> rec[t].bilinear[b][1]], T),
                                          SumFunctionOnSet([t \in T |-> rec[t].bilinear[b][2]], T)>>
<1>1. {t \in Touched : cell \in Entries(t)} = TilesOf(cell)
  BY StencilCovered
<1> QED BY <1>1 DEF Merge, Records

\* What a record has.
LEMMA RecordFields ==
  ASSUME NEW cell \in Sampled, NEW aScene, NEW t \in TilesOf(cell)
  PROVE  LET rec  == Records(aScene, cell)[t]
             mine == Stencil(Interp, cell) \cap Owned(t)
         IN /\ rec.nValid = Cardinality({p \in mine : AllValid(aScene, p)})
            /\ \A b \in Bands :
                 /\ rec.kernel[b] = WeightedSum(Interp, aScene, cell, b, mine)
                 /\ NeedsFallback /\ ~CompleteHere(aScene, cell, mine) =>
                      rec.bilinear[b] = WeightedSum("bilinear", aScene, cell, b,
                                                    mine \cap Stencil("bilinear", cell))
BY DEF Records, Record

\* The kernel's sums over the stencil.
LEMMA KernelIsWhole ==
  ASSUME NEW cell \in Sampled, NEW aScene, NEW b \in Bands
  PROVE  Merge(aScene, Touched, cell).kernel[b] = WeightedSum(Interp, aScene, cell, b, OnStencil(cell))
<1> DEFINE T   == TilesOf(cell)
           rec == Records(aScene, cell)
           g   == [t \in T |-> rec[t].kernel[b]]
           g1  == [t \in T |-> rec[t].kernel[b][1]]
           g2  == [t \in T |-> rec[t].kernel[b][2]]
           P   == OnStencil(cell)
<1>1. Merge(aScene, Touched, cell).kernel[b] = <<SumFunctionOnSet(g1, T), SumFunctionOnSet(g2, T)>>
  BY MergeAddsRecords
<1>2. ASSUME NEW t \in T
      PROVE  g[t] = WeightedSum(Interp, aScene, cell, b, P \cap Owned(t))
  <2>1. P \cap Owned(t) = Stencil(Interp, cell) \cap Owned(t)
    BY DEF OnStencil, Owned
  <2>2. rec[t].kernel[b] = WeightedSum(Interp, aScene, cell, b, Stencil(Interp, cell) \cap Owned(t))
    BY RecordFields
  <2> HIDE DEF P, rec
  <2> QED BY <2>1, <2>2
<1>3. \A t \in T : g1[t] = g[t][1] /\ g2[t] = g[t][2]
  OBVIOUS
<1>4. Interp \in Kernels /\ P \in SUBSET (Stencil(Interp, cell) \cap Pixels) /\ P \subseteq Stencil(Interp, cell)
  BY SamplingAssumption DEF OnStencil
<1> HIDE DEF g, g1, g2, P
<1>5. <<SumFunctionOnSet(g1, T), SumFunctionOnSet(g2, T)>> = WeightedSum(Interp, aScene, cell, b, P)
  <2> DEFINE Given(k, k1, k2) ==
               /\ \A t \in TilesOf(cell) : k[t] = WeightedSum(Interp, aScene, cell, b, P \cap Owned(t))
               /\ \A t \in TilesOf(cell) : k1[t] = k[t][1]
               /\ \A t \in TilesOf(cell) : k2[t] = k[t][2]
             Whole(k1, k2) ==
               <<SumFunctionOnSet(k1, TilesOf(cell)), SumFunctionOnSet(k2, TilesOf(cell))>>
                 = WeightedSum(Interp, aScene, cell, b, P)
  <2>1. \A k, k1, k2 : Given(k, k1, k2) => Whole(k1, k2)
    BY <1>4, WeightedSumOverBlocks
  <2>2. Given(g, g1, g2)
    BY <1>2, <1>3
  <2> HIDE DEF Given
  <2>3. Whole(g1, g2)
    BY <2>1, <2>2
  <2> QED BY <2>3
<1> QED BY <1>1, <1>5 DEF P

\* The bilinear sums over the bilinear stencil, where the kernel's is not whole.
LEMMA BilinearIsWhole ==
  ASSUME NEW cell \in Sampled, NEW aScene, NEW b \in Bands, NeedsFallback,
         Usable(aScene, cell) # Stencil(Interp, cell)
  PROVE  Merge(aScene, Touched, cell).bilinear[b]
           = WeightedSum("bilinear", aScene, cell, b, Stencil("bilinear", cell) \cap Pixels)
<1> DEFINE T   == TilesOf(cell)
           rec == Records(aScene, cell)
           g   == [t \in T |-> rec[t].bilinear[b]]
           g1  == [t \in T |-> rec[t].bilinear[b][1]]
           g2  == [t \in T |-> rec[t].bilinear[b][2]]
           P   == Stencil("bilinear", cell) \cap Pixels
<1>1. Merge(aScene, Touched, cell).bilinear[b] = <<SumFunctionOnSet(g1, T), SumFunctionOnSet(g2, T)>>
  BY MergeAddsRecords
<1>2. Stencil("bilinear", cell) \subseteq Stencil(Interp, cell)
  BY BilinearInside
<1>3. ASSUME NEW t \in T
      PROVE  g[t] = WeightedSum("bilinear", aScene, cell, b, P \cap Owned(t))
  <2> DEFINE mine == Stencil(Interp, cell) \cap Owned(t)
  <2>1. P \cap Owned(t) = mine \cap Stencil("bilinear", cell)
    BY <1>2 DEF Owned
  <2>2. ~CompleteHere(aScene, cell, mine)
    <3>1. SUFFICES ASSUME CompleteHere(aScene, cell, mine) PROVE FALSE
      OBVIOUS
    <3>2. Stencil(Interp, cell) \subseteq Pixels /\ \A p \in Stencil(Interp, cell) : AllValid(aScene, p)
      BY <3>1 DEF CompleteHere, Owned
    <3>3. Usable(aScene, cell) = Stencil(Interp, cell)
      BY <3>2 DEF Usable, OnStencil
    <3> QED BY <3>3
  <2>3. rec[t].bilinear[b] = WeightedSum("bilinear", aScene, cell, b, mine \cap Stencil("bilinear", cell))
    BY <2>2, RecordFields
  <2> HIDE DEF P, rec, mine
  <2> QED BY <2>1, <2>3
<1>4. \A t \in T : g1[t] = g[t][1] /\ g2[t] = g[t][2]
  OBVIOUS
<1>5. /\ "bilinear" \in Kernels /\ P \in SUBSET (Stencil(Interp, cell) \cap Pixels)
      /\ P \subseteq Stencil("bilinear", cell)
  BY <1>2 DEF Kernels
<1> HIDE DEF g, g1, g2, P
<1>6. <<SumFunctionOnSet(g1, T), SumFunctionOnSet(g2, T)>> = WeightedSum("bilinear", aScene, cell, b, P)
  <2> DEFINE Given(k, k1, k2) ==
               /\ \A t \in TilesOf(cell) : k[t] = WeightedSum("bilinear", aScene, cell, b, P \cap Owned(t))
               /\ \A t \in TilesOf(cell) : k1[t] = k[t][1]
               /\ \A t \in TilesOf(cell) : k2[t] = k[t][2]
             Whole(k1, k2) ==
               <<SumFunctionOnSet(k1, TilesOf(cell)), SumFunctionOnSet(k2, TilesOf(cell))>>
                 = WeightedSum("bilinear", aScene, cell, b, P)
  <2>1. \A k, k1, k2 : Given(k, k1, k2) => Whole(k1, k2)
    BY <1>5, WeightedSumOverBlocks
  <2>2. Given(g, g1, g2)
    BY <1>3, <1>4
  <2> HIDE DEF Given
  <2>3. Whole(g1, g2)
    BY <2>1, <2>2
  <2> QED BY <2>3
<1> QED BY <1>1, <1>6 DEF P

\* The pixels of the stencil that count, each in one block.
LEMMA CountIsWhole ==
  ASSUME NEW cell \in Sampled, NEW aScene
  PROVE  Merge(aScene, Touched, cell).nValid = Cardinality(Usable(aScene, cell))
<1> DEFINE T == TilesOf(cell)
           g == [t \in T |-> Records(aScene, cell)[t].nValid]
           U == Usable(aScene, cell)
           f == [p \in U |-> 1]
<1>1. Merge(aScene, Touched, cell).nValid = SumFunctionOnSet(g, T)
  BY MergeAddsRecords
<1>2. IsFiniteSet(U) /\ U \in SUBSET (Stencil(Interp, cell) \cap Pixels)
  <2>1. IsFiniteSet(Stencil(Interp, cell))
    BY SamplingAssumption, StencilShape
  <2>2. U \subseteq Stencil(Interp, cell) /\ U \subseteq Pixels
    BY DEF Usable, OnStencil
  <2> HIDE DEF U
  <2> QED BY <2>1, <2>2, FS_Subset
<1>3. \A p \in U : f[p] = 1
  OBVIOUS
<1> HIDE DEF f
<1>4. ASSUME NEW S \in SUBSET U
      PROVE  SumFunctionOnSet(f, S) = Cardinality(S)
  <2>1. IsFiniteSet(S)
    BY <1>2, FS_Subset
  <2>2. Sums!Fold(0, f, S) = Sums!Cardinality(S)
    BY <1>3, <2>1, SumsAreFolds, Sums!SumOnes
  <2>3. Sums!Cardinality(S) = Cardinality(S)
    BY DEF Sums!Cardinality, Cardinality
  <2> QED BY <2>2, <2>3, SumsAreFolds
<1>5. ASSUME NEW t \in T
      PROVE  g[t] = SumFunctionOnSet(f, U \cap Owned(t))
  <2> DEFINE V == {p \in Stencil(Interp, cell) \cap Owned(t) : AllValid(aScene, p)}
  <2>1. U \cap Owned(t) = V
    BY DEF Usable, OnStencil, Owned
  <2>2. g[t] = Cardinality(V)
    BY RecordFields
  <2>3. V \in SUBSET U
    BY <2>1
  <2> HIDE DEF V, U, g
  <2> QED BY <1>4, <2>1, <2>2, <2>3
<1> HIDE DEF U, g
<1>6. SumFunctionOnSet(g, T) = SumFunctionOnSet(f, U)
  <2>1. \A e, k :
          /\ \A p \in U : e[p] \in Int
          /\ \A t \in TilesOf(cell) : k[t] = SumFunctionOnSet(e, U \cap Owned(t))
          => SumFunctionOnSet(k, TilesOf(cell)) = SumFunctionOnSet(e, U)
    BY <1>2, SumOverBlocks
  <2>2. \A t \in TilesOf(cell) : g[t] = SumFunctionOnSet(f, U \cap Owned(t))
    BY <1>5
  <2>3. \A p \in U : f[p] \in Int
    BY <1>3
  <2> QED BY <2>1, <2>2, <2>3
<1> QED BY <1>1, <1>4, <1>6 DEF U

\* The sample merged from every block's records is the one a single reader of
\* the whole raster takes.
LEMMA SampleIsReference ==
  ASSUME NEW cell \in Sampled, NEW b \in Bands
  PROVE  SampleOf(Merge(scene, Touched, cell), cell, b) = Reference(cell, b)
<1> DEFINE total == Merge(scene, Touched, cell)
           whole == Stencil(Interp, cell)
           U     == Usable(scene, cell)
<1>1. total.nValid >= FullStencil <=> U = whole
  <2>1. IsFiniteSet(whole) /\ Cardinality(whole) = FullStencil
    BY SamplingAssumption, StencilShape DEF FullStencil
  <2>2. U \subseteq whole
    BY DEF Usable, OnStencil
  <2>3. total.nValid = Cardinality(U)
    BY CountIsWhole
  <2> HIDE DEF U, whole, total
  <2>4. /\ IsFiniteSet(U) /\ Cardinality(U) <= Cardinality(whole)
        /\ Cardinality(U) = Cardinality(whole) => U = whole
    BY <2>1, <2>2, FS_Subset
  <2>5. Cardinality(U) \in Nat /\ Cardinality(whole) \in Nat
    BY <2>1, <2>4, FS_CardinalityType
  <2> QED BY <2>1, <2>3, <2>4, <2>5
<1>2. Reference(cell, b) =
        LET interp == IF NeedsFallback /\ U # whole THEN "bilinear" ELSE Interp
            s      == WeightedSum(interp, scene, cell, b, Stencil(interp, cell) \cap Pixels)
        IN IF s[2] > 0 THEN s ELSE NoSample
  BY DEF Reference, Usable, OnStencil
<1>3. CASE NeedsFallback /\ U # whole
  <2>1. total.bilinear[b] = WeightedSum("bilinear", scene, cell, b, Stencil("bilinear", cell) \cap Pixels)
    BY <1>3, BilinearIsWhole
  <2>2. ~UsesKernel(total, cell)
    BY <1>1, <1>3 DEF UsesKernel
  <2> HIDE DEF U, whole, total
  <2> QED BY <1>2, <1>3, <2>1, <2>2 DEF SampleOf, total
<1>4. CASE ~(NeedsFallback /\ U # whole)
  <2>1. total.kernel[b] = WeightedSum(Interp, scene, cell, b, whole \cap Pixels)
    BY KernelIsWhole DEF OnStencil
  <2>2. UsesKernel(total, cell)
    BY <1>1, <1>4 DEF UsesKernel
  <2> HIDE DEF U, total
  <2> QED BY <1>2, <1>4, <2>1, <2>2 DEF SampleOf, total
<1> QED BY <1>3, <1>4

\* So are all the samples, when the records of every touched block are in.
LEMMA SamplesAreReference ==
  Samples(scene, Touched) = [cell \in Sampled |-> [b \in Bands |-> Reference(cell, b)]]
BY SampleIsReference DEF Samples

-----------------------------------------------------------------------------
(* The answer of a sampling. *)

\* At the merge, the lists together hold the blocks of the source, all of them.
LEMMA MergedIsTouched ==
  ASSUME SampleInv, main = "draining", joined > NWorkers, \A w \in Workers : ~Failed(w)
  PROVE  UNION {part[w] : w \in Workers} = Touched
<1>1. \A t \in Tile : folded[t] = 1
  BY AllFolded DEF SampleInv, IInv
<1>2. \A t \in Tile : \E w \in Workers : t \in part[w]
  BY <1>1 DEF SampleInv, RecordsHeldOnce
<1>3. \A w \in Workers : part[w] \subseteq Tile
  BY DEF SampleInv, Listed
<1>4. Tile = Touched
  BY SampledBlocksAssumption DEF SampledBlocks
<1> QED BY <1>2, <1>3, <1>4

\* A good answer is given at the merge, and the rows stay as they were merged.
LEMMA SampleStepKeepsRows ==
  SampleInv /\ SamplesAreWhole /\ [SampleNext]_allVars => SamplesAreWhole'
<1> SUFFICES ASSUME SampleInv, SamplesAreWhole, [SampleNext]_allVars, result' = "ok"
             PROVE  (rows = ReferenceRows)'
  BY DEF SamplesAreWhole
<1>1. CASE SampleFinish
  <2>1. main = "draining" /\ joined > NWorkers /\ scene' = scene
    BY <1>1 DEF SampleFinish
  <2>2. /\ \A w \in Workers : ~Failed(w)
        /\ rows' = Rows(<<Samples(scene, UNION {part[w] : w \in Workers})>> \o Others, Slots, NOut)
    BY <1>1 DEF SampleFinish, Answer, FailureOf
  <2>3. rows' = ReferenceRows
    BY <2>1, <2>2, MergedIsTouched, SamplesAreReference DEF ReferenceRows
  <2>4. ReferenceRows' = ReferenceRows
    BY <2>1 DEF ReferenceRows, Reference, AllValid, Valid, WeightedSum
  <2> QED BY <2>3, <2>4
<1>2. CASE ~SampleFinish
  <2>1. scene' = scene /\ rows' = rows /\ result' = result
    <3>1. CASE SampleProducerStep
      BY <3>1 DEF SampleProducerStep, ProducerStep, StartFetch, FetchDone, FetchFails, Send, SendFails,
         ProducerFails, ProducerDone, mainVars, sampleVars
    <3>2. ASSUME NEW w \in Workers, SampleWorkerStep(w)
          PROVE  scene' = scene /\ rows' = rows /\ result' = result
      BY <3>2 DEF SampleWorkerStep, StartWorker, Receive, ReceiveClosed, WorkerFails, Sample, Fold, mainVars, sampleVars
    <3>3. CASE SampleMainStep
      BY <1>2, <3>3 DEF SampleMainStep, JoinAborted, ReportCause, JoinDraining, Answer, FailureOf, sampleVars
    <3>4. CASE Interrupt /\ UNCHANGED sampleVars
      BY <3>4 DEF Interrupt, Answer, sampleVars
    <3>5. CASE UNCHANGED allVars
      BY <3>5 DEF allVars, vars, sampleVars
    <3> QED BY <3>1, <3>2, <3>3, <3>4, <3>5 DEF SampleNext
  <2>2. rows = ReferenceRows
    BY <2>1 DEF SamplesAreWhole
  <2>3. ReferenceRows' = ReferenceRows
    BY <2>1 DEF ReferenceRows, Reference, AllValid, Valid, WeightedSum
  <2> QED BY <2>1, <2>2, <2>3
<1> QED BY <1>1, <1>2

\* However the blocks of a source fall to the workers, and wherever their
\* edges cut a stencil, the answer of a read at cell centres is made of the
\* samples a single reader of the whole raster would take: the partial sums
\* add up to the kernel's, the valid pixels are counted over the whole
\* stencil, and the bilinear fallback is taken where that count falls short
\* (sample.rs:744-795).
THEOREM SamplesWhole == SampleSpec => []SamplesAreWhole
<1>1. SampleInit => SamplesAreWhole
  BY DEF SampleInit, Init, SamplesAreWhole
<1> QED BY <1>1, SampleInvariant, SampleStepKeepsRows, PTL DEF SampleSpec
=============================================================================
