--------------------------- MODULE SamplePipeline ---------------------------
(***************************************************************************)
(* Sampling at cell centres with a pool of workers (sample_source).  The   *)
(* producer, the channel, the workers and the joins are those of a read,   *)
(* with one block per future; a worker that takes a block leaves the       *)
(* records of the centres the block serves in a list of its own, and the   *)
(* main task adds up the lists when it has joined every worker.            *)
(***************************************************************************)
EXTENDS ReadPipeline, Sampling

CONSTANTS
  Scenes,    \* what may be masked or missing in the raster
  Others,    \* the samples of the sources sampled beside this one
  Slots,     \* the output columns of each source's bands, this one's first
  NOut       \* number of output columns

\* Every block a stencil touches is a unit of its own.
SampledBlocks ==
  /\ Tile = Touched
  /\ \A u \in UnitIds : Len(Units[u]) = 1

ASSUME SampledBlocksAssumption == SampledBlocks

VARIABLES
  scene,   \* the raster
  part,    \* the blocks whose records each worker holds
  rows     \* the answer of the whole read

sampleVars == <<scene, part, rows>>
allVars == <<vars, sampleVars>>

SampleInit ==
  /\ Init
  /\ scene \in Scenes
  /\ part = [w \in Workers |-> {}]
  /\ rows = <<>>

\* Decode the block and its mask, and add one record per centre it serves.
Sample(w) ==
  /\ part' = [part EXCEPT ![w] = @ \cup {hand[w]}]
  /\ Fold(w)
  /\ UNCHANGED <<scene, rows>>

\* A slip: a failed worker is the answer before the others have been joined.
SampleFinishAtOnce ==
  /\ main = "draining"
  /\ \/ \E w \in Workers : Failed(w) /\ Answer(FailureOf(w)) /\ UNCHANGED rows
     \/ /\ joined > NWorkers
        /\ \A w \in Workers : ~Failed(w)
        /\ Answer("ok")
        /\ \E mine \in {Samples(scene, UNION {part[w] : w \in Workers})} :
              rows' = Rows(<<mine>> \o Others, Slots, NOut)
  /\ UNCHANGED <<next, task, sent, chan, workerVars, joined, cause, scene, part>>

\* Any failure among the joined workers is the answer of the source and, as
\* try_join_all stops at the first, of the read; else the lists are merged.
SampleFinish ==
  /\ main = "draining"
  /\ joined > NWorkers
  /\ \/ \E w \in Workers :
           /\ Failed(w)
           /\ \A v \in 1..(w - 1) : ~Failed(v)
           /\ Answer(FailureOf(w))
           /\ UNCHANGED rows
     \/ /\ \A w \in Workers : ~Failed(w)
        /\ Answer("ok")
        /\ \E mine \in {Samples(scene, UNION {part[w] : w \in Workers})} :
              rows' = Rows(<<mine>> \o Others, Slots, NOut)
  /\ UNCHANGED <<next, task, sent, chan, workerVars, joined, cause, scene, part>>

\* The steps of a read that sampling takes as they are.
SampleProducerStep == ProducerStep /\ UNCHANGED sampleVars

SampleWorkerStep(w) ==
  \/ StartWorker(w) /\ UNCHANGED sampleVars
  \/ Receive(w) /\ UNCHANGED sampleVars
  \/ ReceiveClosed(w) /\ UNCHANGED sampleVars
  \/ WorkerFails(w) /\ UNCHANGED sampleVars
  \/ Sample(w)

SampleMainStep ==
  \/ JoinAborted /\ UNCHANGED sampleVars
  \/ ReportCause /\ UNCHANGED sampleVars
  \/ JoinDraining /\ UNCHANGED sampleVars
  \/ SampleFinish

SampleNext ==
  \/ SampleProducerStep
  \/ \E w \in Workers : SampleWorkerStep(w)
  \/ SampleMainStep
  \/ Interrupt /\ UNCHANGED sampleVars

SampleFairness ==
  /\ WF_allVars(SampleProducerStep)
  /\ \A w \in Workers : WF_allVars(SampleWorkerStep(w))
  /\ WF_allVars(SampleMainStep)

SampleSpec == SampleInit /\ [][SampleNext]_allVars /\ SampleFairness

-----------------------------------------------------------------------------

\* The sample a single reader of the whole raster would take: the kernel over
\* the stencil where all of it is on the raster and valid in every band, or
\* where its weights are all positive, and the bilinear estimate otherwise.
Reference(cell, b) ==
  LET whole  == Stencil(Interp, cell)
      usable == {p \in whole \cap Pixels : AllValid(scene, p)}
      interp == IF NeedsFallback /\ usable # whole THEN "bilinear" ELSE Interp
      s      == WeightedSum(interp, scene, cell, b, Stencil(interp, cell) \cap Pixels)
  IN IF s[2] > 0 THEN s ELSE NoSample

ReferenceRows ==
  Rows(<<[cell \in Sampled |-> [b \in Bands |-> Reference(cell, b)]]>> \o Others, Slots, NOut)

\* However the blocks fall to the workers, a stencil split between them adds
\* up to the sample of the whole stencil, a fallback is taken exactly where
\* the whole stencil asks for one, with every bilinear pixel in it, and a
\* cell is answered if and only if one source has a valid sample of it.
SamplesAreWhole == result = "ok" => rows = ReferenceRows

\* Sampling implements the pipeline of a read, fairness included: whatever
\* holds of a read's blocks, failures, answer and exit of its workers holds
\* of the sampling of a source, which repeats that code with its own records.
ImplementsRead == Spec
=============================================================================
