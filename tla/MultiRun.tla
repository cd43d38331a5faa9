------------------------------- MODULE MultiRun --------------------------------
(***************************************************************************)
(* One trainer serving several runs with a LoRA adapter each:              *)
(* MultiRunManager (trainer/runs.py), MultiPacker (trainer/rl/packer.py)   *)
(* with either receiver of batches (transport/filesystem.py, zmq.py), and  *)
(* the filesystem broadcast (trainer/rl/broadcast/filesystem.py).          *)
(*                                                                         *)
(* A run is a directory that appears, is filled with one batch per step    *)
(* by its orchestrator, and may be deleted at any moment.  The master maps *)
(* runs to adapter slots; the other ranks learn of it at synchronize_state *)
(* only, and all of them diff the mapping by run id.  A batch is the       *)
(* sequence of its samples' lengths.  Runs start from scratch (no ckpt in  *)
(* their config) and their configs are valid.                              *)
(***************************************************************************)
EXTENDS DataRanks, SeqTools

CONSTANTS
    Names,       \* run ids
    Free,        \* an unused slot
    MaxRuns,     \* max_runs: slots 0..MaxRuns-1
    Transports,  \* rollout_transport.type
    Batches,     \* per step, the batches an orchestrator may write; bounds the steps
    MaxLead,     \* bound: batches written past the last published step
    MaxCreated   \* bound: directories created

ASSUME MultiRunAssumption ==
    /\ Free \notin Names
    /\ {MaxRuns, SeqLen, Workers} \subseteq Nat \ {0}
    /\ {MaxLead, MaxCreated} \subseteq Nat
    /\ Batches \in Seq(SUBSET Seq(Nat))
    /\ Transports \subseteq {"filesystem", "zmq"}

VARIABLES
    \* the shared filesystem
    dir,          \* per name, which creation the directory is of; 0: none
    created,      \* directories created so far
    evicted,      \* names with control/evicted.txt
    files,        \* per name, the batches written, batch i for step i
    published,    \* per name, the steps whose weights are in its broadcasts directory
    \* the ZMQ link
    transport,
    wire,         \* per name, the batches sent and not read from the socket
    pending,      \* _pending: per name, the batches read and not returned
    \* the master
    pc,           \* discover, receive, forget, pack, train, broadcast, crashed
    slept,        \* pack() has waited once
    slotOf,       \* idx_2_id
    progress,     \* progress[idx].step
    ready,        \* slots with ready_to_update
    received,     \* receiver._received_steps; 0: no entry
    buffers,      \* per slot, the samples not trained yet
    position,     \* _round_robin_position
    selected,     \* what pack() took, as <<slot, sample>>
    lastSynced,   \* _last_synced_id_2_idx, as slots to names
    \* the other ranks
    rankSlot,     \* idx_2_id of every other rank
    \* the model
    adapter,      \* per slot, the samples it was trained on since its reset
    \* history
    lost,         \* <<name, step>> of batches that never left the orchestrator
    spoilt,       \* names that got weights of anything but their own steps
    reused        \* names created again before all of the old run was gone

fsVars == <<dir, created, evicted, files, published>>
linkVars == <<transport, wire, pending, lost>>
mapVars == <<slotOf, progress, received>>
packVars == <<ready, buffers, position, selected>>
rankVars == <<lastSynced, rankSlot, adapter>>
vars == <<fsVars, linkVars, pc, slept, mapVars, packVars, rankVars, spoilt, reused>>

Slots == 0..(MaxRuns - 1)

Used == {s \in Slots : slotOf[s] # Free}

MaxSteps == Len(Batches)

Held(map) == {map[s] : s \in Slots} \ {Free}

Samples ==
    [run : Names, made : 1..MaxCreated, step : 1..MaxSteps, index : Nat, len : Nat]

\* The samples of a batch that a run has written as the given step.
SamplesIn(written, n, step) ==
    [i \in 1..Len(written[n][step]) |->
        [run |-> n, made |-> dir[n], step |-> step, index |-> i, len |-> written[n][step][i]]]

SamplesOf(n, step) == SamplesIn(files, n, step)

\* The samples of the first k steps of a directory.
UpTo(n, k) == UNION {ToSet(SamplesOf(n, j)) : j \in 1..Min({k, Len(files[n])})}

Budget == SeqLen * Workers

Init ==
    /\ dir = [n \in Names |-> 0] /\ created = 0 /\ evicted = {}
    /\ files = [n \in Names |-> <<>>]
    /\ published = [n \in Names |-> {}]
    /\ transport \in Transports /\ lost = {}
    /\ wire = [n \in Names |-> <<>>] /\ pending = [n \in Names |-> {}]
    /\ pc = "discover" /\ slept = FALSE
    /\ slotOf = [s \in Slots |-> Free]
    /\ progress = [s \in Slots |-> 0]
    /\ received = [s \in Slots |-> 0]
    /\ ready = {} /\ position = 0 /\ selected = <<>>
    /\ buffers = [s \in Slots |-> <<>>]
    /\ lastSynced = slotOf /\ rankSlot = slotOf
    /\ adapter = [s \in Slots |-> {}]
    /\ spoilt = {} /\ reused = {}

-----------------------------------------------------------------------------
(* The orchestrators and whoever starts and removes them                   *)

\* From the other states the master takes steps in its own memory only: what
\* changes on the filesystem meanwhile is the same change one step later.
Looking == pc \in {"discover", "receive", "forget", "broadcast"}

\* reused: some rank still holds the previous run of this name, or a batch of
\* it is still on its way.
CreateRun(n) ==
    /\ Looking /\ dir[n] = 0 /\ created < MaxCreated
    /\ created' = created + 1
    /\ dir' = [dir EXCEPT ![n] = created']
    /\ reused' = IF \/ n \in Held(slotOf) \cup Held(lastSynced) \cup Held(rankSlot)
                    \/ wire[n] # <<>> \/ pending[n] # {}
                 THEN reused \cup {n} ELSE reused
    /\ UNCHANGED <<evicted, files, published, linkVars, pc, slept, mapVars, packVars, rankVars, spoilt>>

DeleteRun(n) ==
    /\ Looking /\ dir[n] # 0
    /\ dir' = [dir EXCEPT ![n] = 0]
    /\ evicted' = evicted \ {n}
    /\ files' = [files EXCEPT ![n] = <<>>]
    /\ published' = [published EXCEPT ![n] = {}]
    /\ lost' = {x \in lost : x[1] # n}
    /\ UNCHANGED <<created, transport, wire, pending, pc, slept, mapVars, packVars, rankVars, spoilt, reused>>

LastPublished(n) == Max({0} \cup published[n])

Message(n, written) ==
    LET step == Len(written[n])
    IN  [step |-> step, samples |-> SamplesIn(written, n, step)]

\* The orchestrator renames the whole batch file of its next step into place,
\* or sends the batch.
Write(n) ==
    /\ Looking /\ dir[n] # 0
    /\ Len(files[n]) < MaxSteps /\ Len(files[n]) <= LastPublished(n) + MaxLead
    /\ \E batch \in Batches[Len(files[n]) + 1] : files' = [files EXCEPT ![n] = Append(@, batch)]
    /\ wire' = IF transport = "zmq"
               THEN [wire EXCEPT ![n] = Append(@, Message(n, files'))] ELSE wire
    /\ UNCHANGED <<dir, created, evicted, published, transport, pending, lost, pc, slept, mapVars, packVars,
                   rankVars, spoilt, reused>>

\* An orchestrator that is done closes its socket without lingering: what
\* has not left it yet is lost.
Close(n) ==
    /\ Looking /\ dir[n] # 0 /\ Len(files[n]) = MaxSteps
    /\ \E k \in 1..Len(wire[n]) :
        /\ wire' = [wire EXCEPT ![n] = SubSeq(@, 1, k - 1)]
        /\ lost' = lost \cup {<<n, wire[n][i].step>> : i \in k..Len(wire[n])}
    /\ UNCHANGED <<fsVars, transport, pending, pc, slept, mapVars, packVars, rankVars,
                   spoilt, reused>>

-----------------------------------------------------------------------------
(* discover_runs                                                           *)

Visible == {n \in Names : dir[n] # 0} \ evicted

\* The forgotten hook clears the buffers of deleted runs.
BuffersAfter(gone) == [s \in Slots |-> IF s \in gone THEN <<>> ELSE buffers[s]]

\* ... and the receiver starts again from the progress of the next run.
ReceivedAfter(gone) == [s \in Slots |-> IF s \in gone THEN 0 ELSE received[s]]

\* New runs in some order take the free slots from the lowest on; those for
\* which no slot is left stay unknown.
Placements(unused, new) ==
    LET count == Min({Cardinality(unused), Cardinality(new)})
        low == {s \in unused : Cardinality({t \in unused : t < s}) < count}
    IN  {f \in [low -> new] : \A s, t \in low : f[s] = f[t] => s = t}

\* Deleted runs are forgotten before new ones get their slots.
DiscoverRuns ==
    LET gone == {s \in Used : slotOf[s] \notin Visible}
        unused == (Slots \ Used) \cup gone
        new == Visible \ Held(slotOf)
    IN  \E place \in Placements(unused, new) :
            /\ slotOf' = [s \in Slots |->
                             IF s \in DOMAIN place THEN place[s]
                             ELSE IF s \in gone THEN Free ELSE slotOf[s]]
            /\ progress' = [s \in Slots |->
                               IF s \in DOMAIN place THEN 1
                               ELSE IF s \in gone THEN 0 ELSE progress[s]]
            /\ buffers' = BuffersAfter(gone)
            /\ received' = ReceivedAfter(gone)

-----------------------------------------------------------------------------
(* MultiPacker._get_batch                                                  *)

Discover ==
    /\ pc = "discover"
    /\ DiscoverRuns
    /\ pc' = "receive"
    /\ UNCHANGED <<fsVars, linkVars, slept, ready, position, selected, rankVars, spoilt, reused>>

\* Mutant: a run's progress is taken for the last step done, not the next one.
NextStepAfter(s) == IF received[s] = 0 THEN progress[s] + 1 ELSE received[s]

\* The step the receiver looks for in a slot.
NextStep(s) == IF received[s] = 0 THEN progress[s] ELSE received[s]

\* _drain_into_pending: everything that has been sent, by the id of its sender.
Drained(n) == pending[n] \cup ToSet(wire[n])

\* A sender has no two pending batches of one step.
StepsDiffer(batches) == \A x, y \in batches : x.step = y.step => x = y

Oldest(batches) == CHOOSE x \in batches : \A y \in batches : x.step <= y.step

\* Slots for which there is a batch: the file of the next step, which a
\* removed directory does not have, or a pending one.
Arrivals ==
    {s \in Used \ ready :
        IF transport = "zmq" THEN Drained(slotOf[s]) # {}
        ELSE NextStep(s) \in 1..Len(files[slotOf[s]])}

Arriving(s) ==
    IF transport = "zmq" THEN Oldest(Drained(slotOf[s])).samples
    ELSE SamplesOf(slotOf[s], NextStep(s))

\* The receivers keep what they have not returned, by slot or by sender.
Kept ==
    /\ received' =
           IF transport = "zmq" THEN received
           ELSE [s \in Slots |-> IF s \in Arrivals THEN NextStep(s) + 1
                                 ELSE IF s \in Used THEN NextStep(s) ELSE 0]
    /\ pending' =
           [n \in Names |->
               IF n \in {slotOf[s] : s \in Arrivals} /\ transport = "zmq"
               THEN Drained(n) \ {Oldest(Drained(n))} ELSE Drained(n)]
    /\ wire' = [n \in Names |-> <<>>]

\* Samples before the first one _validate_sample refuses.
ValidPrefix(samples) ==
    LET bad == {i \in 1..Len(samples) : samples[i].len \notin 1..SeqLen}
    IN  IF bad = {} THEN samples ELSE SubSeq(samples, 1, Min(bad) - 1)

\* A batch with no samples or an invalid one evicts its run.
EvictedBy(samples) == samples = <<>> \/ ValidPrefix(samples) # samples

Receive ==
    /\ pc = "receive"
    /\ IF \E n \in Names : ~StepsDiffer(Drained(n))
       THEN pc' = "crashed" /\ UNCHANGED <<wire, pending, received, buffers, evicted>>
       ELSE /\ Kept
            /\ buffers' = [s \in Slots |->
                              IF s \in Arrivals THEN buffers[s] \o ValidPrefix(Arriving(s))
                              ELSE buffers[s]]
            /\ evicted' = evicted \cup
                             {slotOf[s] : s \in {t \in Arrivals : EvictedBy(Arriving(t))}}
            /\ pc' = "forget"
    /\ UNCHANGED <<dir, created, files, published, transport, lost, slept, slotOf, progress,
                   ready, position, selected, rankVars, spoilt, reused>>

\* The discovery that follows forgets what was just evicted.
Forget ==
    /\ pc = "forget"
    /\ DiscoverRuns
    /\ pc' = "pack"
    /\ UNCHANGED <<fsVars, linkVars, slept, ready, position, selected, rankVars, spoilt, reused>>

-----------------------------------------------------------------------------
(* MultiPacker.pack                                                        *)

\* The samples at the head of a slot's buffer that belong to its current step.
CurrentWork(s) ==
    LET later == {i \in 1..Len(buffers[s]) : buffers[s][i].step > progress[s]}
    IN  IF later = {} THEN buffers[s] ELSE SubSeq(buffers[s], 1, Min(later) - 1)

\* All of it as <<slot, sample>>, in the order of the round robin.
Work ==
    FlattenSeq([i \in 1..MaxRuns |->
        LET s == (position + i - 1) % MaxRuns
        IN  [j \in 1..Len(CurrentWork(s)) |-> <<s, CurrentWork(s)[j]>>]])

Tokens(work) ==
    LET upTo[i \in 0..Len(work)] == IF i = 0 THEN 0 ELSE upTo[i - 1] + work[i][2].len
    IN  upTo[Len(work)]

Enough == Tokens(Work) >= Budget

\* Not enough tokens: sleep a second, which is past the timeout.
Sleep ==
    /\ pc = "pack"
    /\ ~Enough /\ (slept => Work = <<>>)
    /\ slept' = TRUE /\ pc' = "discover"
    /\ UNCHANGED <<fsVars, linkVars, mapVars, packVars, rankVars, spoilt, reused>>

Fits(k) == Tokens(SubSeq(Work, 1, k)) <= Budget

\* _select_samples_round_robin takes from each slot in turn until the next
\* sample would exceed the budget ...
MostThatFit(k) == Fits(k) /\ (k < Len(Work) => ~Fits(k + 1))

\* ... and moves past the slot it looked at last: that of the sample that did
\* not fit, unless the budget was used up before it.
NextPosition(k) ==
    LET last == IF k < Len(Work) /\ Tokens(SubSeq(Work, 1, k)) < Budget THEN k + 1 ELSE k
    IN  (Work[last][1] + 1) % MaxRuns

Taken(picked, s) == Selected(picked, {s} \X Samples)

\* Mutant: a step counts as done once a part of it was packed.
StepDoneEarly(s, rest) == TRUE

\* _update_run_progress: nothing of the current step is left.
StepDone(s, rest) == rest = <<>> \/ Head(rest).step > progress[s]

\* The samples of a slot must come from one step.
SingleStep(picked) ==
    \A i, j \in 1..Len(picked) : picked[i][1] = picked[j][1] => picked[i][2].step = picked[j][2].step

Pack ==
    /\ pc = "pack"
    /\ \E k \in 1..Len(Work) :
        /\ MostThatFit(k)
        /\ position' = NextPosition(k)
        /\ selected' = SubSeq(Work, 1, k)
    /\ LET count(s) == Len(Taken(selected', s))
           rest(s) == SubSeq(buffers[s], count(s) + 1, Len(buffers[s]))
           done == {s \in Slots : count(s) > 0 /\ StepDone(s, rest(s))}
       IN
        /\ buffers' = [s \in Slots |-> rest(s)]
        /\ slept' = FALSE
        /\ IF ~SingleStep(selected')
           THEN pc' = "crashed" /\ UNCHANGED <<progress, ready>>
           ELSE /\ pc' = "train"
                /\ progress' = [s \in Slots |-> IF s \in done THEN progress[s] + 1 ELSE progress[s]]
                /\ ready' = ready \cup done
    /\ UNCHANGED <<fsVars, linkVars, slotOf, received, rankVars, spoilt, reused>>

-----------------------------------------------------------------------------
(* synchronize_state, the training step and the broadcast                  *)

\* What a rank does with a new mapping: it frees the slots of the runs that
\* are not in it and gives the runs it does not know their slots, which must
\* be unused; the slots of the runs it knows stay.
FreedBy(old, new) == {s \in Slots : old[s] \in Held(old) \ Held(new)}

TakenBy(old, new) == {s \in Slots : new[s] \in Held(new) \ Held(old)}

Follows(old, new) == \A s \in TakenBy(old, new) : old[s] = Free \/ s \in FreedBy(old, new)

\* Mutant: the creation hooks run on the ranks that learn of a run late only.
ResetsNone(old, new) == {}

\* Slots whose adapter is reset: those of the new runs.
Resets(old, new) == TakenBy(old, new)

\* Mutant: the other ranks keep the slots of deleted runs.
MovedKeep(old, new) ==
    [s \in Slots |-> IF s \in TakenBy(old, new) THEN new[s] ELSE old[s]]

Moved(old, new) ==
    [s \in Slots |-> IF s \in TakenBy(old, new) THEN new[s]
                     ELSE IF s \in FreedBy(old, new) THEN Free ELSE old[s]]

\* wait_for_batch ends with the synchronisation, a collective of all ranks,
\* and the training step on the selected samples follows.
TrainStep ==
    /\ pc = "train"
    /\ IF Follows(rankSlot, slotOf)
       THEN /\ rankSlot' = Moved(rankSlot, slotOf)
            /\ adapter' = [s \in Slots |->
                              {x[2] : x \in ToSet(Taken(selected, s))} \cup
                              IF s \in Resets(lastSynced, slotOf) THEN {} ELSE adapter[s]]
            /\ lastSynced' = slotOf
            /\ pc' = "broadcast"
       ELSE pc' = "crashed" /\ UNCHANGED rankVars
    /\ UNCHANGED <<fsVars, linkVars, slept, mapVars, packVars, spoilt, reused>>

\* pack() already advanced progress.
PublishedStep(s) == progress[s] - 1

\* Each ready run gets its adapter as its last step; a directory that the
\* broadcast brings back from a deletion is removed again.
Broadcast ==
    LET alive(s) == dir[slotOf[s]] # 0
        own(s) == UpTo(slotOf[s], PublishedStep(s))
    IN
    /\ pc = "broadcast"
    /\ published' = [n \in Names |-> published[n] \cup
                        {PublishedStep(s) : s \in {t \in ready : slotOf[t] = n /\ alive(t)}}]
    /\ spoilt' = spoilt \cup
                    {slotOf[s] : s \in {t \in ready : alive(t) /\ adapter[t] # own(t)}}
    /\ ready' = {} /\ selected' = <<>>
    /\ pc' = "discover"
    /\ UNCHANGED <<dir, created, evicted, files, linkVars, slept, mapVars, buffers,
                   position, rankVars, reused>>

-----------------------------------------------------------------------------

Master ==
    Discover \/ Receive \/ Forget \/ Sleep \/ Pack \/ TrainStep \/ Broadcast

Next == Master \/ \E n \in Names : CreateRun(n) \/ DeleteRun(n) \/ Write(n) \/ Close(n)

\* The trainer's loop keeps running: all its waits are bounded.
Spec == Init /\ [][Next]_vars /\ WF_vars(Master)

-----------------------------------------------------------------------------
(* Properties                                                              *)

TypeOK ==
    /\ dir \in [Names -> 0..MaxCreated] /\ created \in 0..MaxCreated
    /\ evicted \subseteq Names /\ reused \subseteq Names
    /\ files \in [Names -> Seq(Seq(Nat))]
    /\ transport \in Transports /\ lost \subseteq Names \X (1..MaxSteps)
    /\ wire \in [Names -> Seq([step : 1..MaxSteps, samples : Seq(Samples)])]
    /\ pending \in [Names -> SUBSET [step : 1..MaxSteps, samples : Seq(Samples)]]
    /\ published \in [Names -> SUBSET Nat] /\ spoilt \subseteq Names
    /\ pc \in {"discover", "receive", "forget", "pack", "train", "broadcast", "crashed"}
    /\ slept \in BOOLEAN
    /\ {slotOf, lastSynced, rankSlot} \subseteq [Slots -> Names \cup {Free}]
    /\ progress \in [Slots -> Nat]
    /\ reused = {} => progress \in [Slots -> 0..(MaxSteps + 1)]
    /\ received \in [Slots -> 0..(MaxSteps + 1)]
    /\ ready \subseteq Used
    /\ buffers \in [Slots -> Seq(Samples)]
    /\ position \in Slots
    /\ selected \in Seq(Slots \X Samples)
    /\ adapter \in [Slots -> SUBSET Samples]

\* Weights published for step k of a run carry exactly the samples of its
\* steps 1..k, each trained once: nothing of the run that had its slot
\* before, of another run, or of an earlier directory of that name, provided
\* the name was not created again before the old run was forgotten
\* (_on_run_data_deleted, _create_run_hooks, _update_run_progress,
\* broadcast_weights).
RunsIsolated ==
    /\ spoilt \subseteq reused
    /\ \A n \in Names \ reused : published[n] \subseteq 1..Len(files[n])
    /\ pc = "train" => \A x \in ToSet(selected) :
            x[2] \notin adapter[x[1]] \/ x[2].run \in reused

\* After synchronize_state every rank maps the same slots to the same runs,
\* and neither the assertions of pack() nor unused_idxs.remove fail, unless
\* a name was created again before every rank forgot it: the ranks compare
\* names only (synchronize_state, pack).
RanksAgree ==
    reused = {} =>
        /\ pc # "crashed"
        /\ pc = "broadcast" => rankSlot = slotOf /\ lastSynced = slotOf

\* Again and again every run that has a slot has all it wrote trained and
\* published, however the other runs come, go and are evicted, unless it is
\* deleted or evicted itself (pack, receive, broadcast_weights).  The batches
\* are finitely many.
StepsPublished ==
    []<>(\A n \in Held(slotOf) :
            \/ \A k \in 1..Len(files[n]) : k \in published[n] \/ <<n, k>> \in lost
            \/ dir[n] = 0 \/ n \in evicted \/ reused # {})
===============================================================================
