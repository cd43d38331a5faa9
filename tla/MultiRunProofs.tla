----------------------------- MODULE MultiRunProofs -----------------------------
(***************************************************************************)
(* Proofs about MultiRun, for every value of its constants.                *)
(***************************************************************************)
EXTENDS MultiRun, SeqToolsProofs

-----------------------------------------------------------------------------
(* The invariant                                                           *)

\* Names that have not been created again too early.
Sound == Names \ reused

\* What synchronize_state leaves of a slot's adapter, what of the batch in
\* training belongs to the slot, and all that its run has been given so far.
Synced(s) == IF slotOf[s] \in Held(lastSynced) THEN adapter[s] ELSE {}
Training(s) == IF pc = "train" THEN {x[2] : x \in ToSet(Taken(selected, s))} ELSE {}
Fed(s) == Synced(s) \cup Training(s)
Given(s) == Fed(s) \cup ToSet(buffers[s])

\* TypeOK but for the bound of progress, which rests on all the rest.
FsTypes ==
    /\ dir \in [Names -> 0..MaxCreated] /\ created \in 0..MaxCreated
    /\ evicted \subseteq Names /\ reused \subseteq Names /\ spoilt \subseteq Names
    /\ files \in [Names -> Seq(Seq(Nat))]
    /\ lost \subseteq Names \X (1..MaxSteps)
    /\ published \in [Names -> SUBSET Nat]

Messages == [step : 1..MaxSteps, samples : Seq(Samples)]

LinkTypes ==
    /\ transport \in Transports
    /\ wire \in [Names -> Seq(Messages)]
    /\ pending \in [Names -> SUBSET Messages]

MasterTypes ==
    /\ pc \in {"discover", "receive", "forget", "pack", "train", "broadcast", "crashed"}
    /\ slept \in BOOLEAN
    /\ slotOf \in [Slots -> Names \cup {Free}]
    /\ progress \in [Slots -> Nat]
    /\ received \in [Slots -> 0..(MaxSteps + 1)]
    /\ ready \subseteq Used
    /\ buffers \in [Slots -> Seq(Samples)]
    /\ position \in Slots
    /\ selected \in Seq(Slots \X Samples)

RankTypes ==
    /\ lastSynced \in [Slots -> Names \cup {Free}] /\ rankSlot \in [Slots -> Names \cup {Free}]
    /\ adapter \in [Slots -> SUBSET Samples]

\* Directories, slots and flags, whatever was reused.
Directories ==
    /\ \A n \in Names : Len(files[n]) <= MaxSteps /\ (dir[n] = 0 => files[n] = <<>>)
    /\ \A n \in Names : dir[n] <= created

SlotsDiffer == \A s, t \in Used : slotOf[s] = slotOf[t] => s = t

Progress ==
    /\ \A s \in Used : progress[s] # 0
    /\ \A s \in Slots \ Used : progress[s] = 0 /\ received[s] = 0 /\ buffers[s] = <<>>

Flags ==
    /\ pc \in {"discover", "receive", "forget", "pack"} => ready = {} /\ selected = <<>>
    /\ \A s \in Used : slotOf[s] \in evicted => pc = "forget"
    /\ pc = "broadcast" => lastSynced = slotOf

\* Whose samples are where.
Owned ==
    /\ \A n \in Names : \A m \in Drained(n) :
            IsInjective(m.samples) /\ \A x \in ToSet(m.samples) : x.run = n
    /\ \A s \in Slots : \A x \in ToSet(buffers[s]) : x.run = slotOf[s]
    /\ pc = "train" => \A x \in ToSet(selected) : x[1] \in Used /\ x[2].run = slotOf[x[1]]

\* What each receiver keeps.
Receivers ==
    /\ transport = "zmq" => \A s \in Slots : received[s] = 0
    /\ transport = "filesystem" =>
        /\ \A n \in Names : wire[n] = <<>> /\ pending[n] = {}
        /\ \A s \in Used : received[s] = 0 => progress[s] = 1 /\ buffers[s] = <<>>

Basics ==
    /\ FsTypes /\ LinkTypes /\ MasterTypes /\ RankTypes
    /\ Directories /\ SlotsDiffer /\ Progress /\ Flags /\ Owned /\ Receivers

\* The mapping of a rank that is late: runs it still has in another place or
\* not at all any more are not to be seen.
Late(old) ==
    /\ \A s, t \in Slots : old[s] = slotOf[t] /\ old[s] \in Sound => s = t
    /\ \A n \in Sound : n \in Held(old) \ Held(slotOf) => n \notin Visible

\* The batches of a run on their way: in order, and while the directory is
\* there, those it wrote.
Link(n) ==
    /\ StepsDiffer(Drained(n))
    /\ \A i, j \in 1..Len(wire[n]) : i < j => wire[n][i].step < wire[n][j].step
    /\ \A x \in pending[n], i \in 1..Len(wire[n]) : x.step < wire[n][i].step
    /\ dir[n] # 0 => \A m \in Drained(n) :
            m.step <= Len(files[n]) /\ m.samples = SamplesOf(n, m.step)

\* None is missing after the first k, but the last ones if they were lost.
Closed(n, k) ==
    /\ \A m \in Drained(n) : \A j \in (k + 1)..m.step : \E y \in Drained(n) : y.step = j
    /\ transport = "zmq" /\ Len(files[n]) < MaxSteps =>
            \A j \in (k + 1)..Len(files[n]) : \E y \in Drained(n) : y.step = j

\* No adapter holds a sample of this creation of n, unless synchronize_state
\* knows that the run is in slot s.
Unknown(n, g, s) ==
    \A t \in Slots : \A y \in adapter[t] :
        y.run = n => y.made < g \/ (t = s /\ lastSynced[s] = n)

\* Every sample in an adapter is of a creation that was.
Known(n) == \A s \in Slots : \A y \in adapter[s] : y.run = n => y.made <= created

\* A run that has no slot yet.
Waiting(n) ==
    n \in Visible \ Held(slotOf) =>
        Closed(n, 0) /\ \A t \in Slots : \A y \in adapter[t] : y.run = n => y.made < dir[n]

\* A run that has slot s: n, creation g of this name, which was given its
\* first k steps.  The step the receiver and the packer are at;
Asks(s, k) ==
    /\ transport = "filesystem" => NextStep(s) = k + 1
    /\ progress[s] \in 1..(k + 1)

\* what is on its way;
Coming(n, k, g) ==
    \A m \in Drained(n) :
        k < m.step /\ \A x \in ToSet(m.samples) : x.step = m.step /\ x.made = g

\* what it was given, which is of this creation;
Mine(s, n, k, g) ==
    /\ dir[n] \in {0, g} /\ g <= created
    /\ \A x \in Given(s) : x.step <= k /\ x.made = g
    /\ Unknown(n, g, s)

\* its buffer, sorted from the current step on;
Queue(s) ==
    /\ \A i \in 1..Len(buffers[s]) : progress[s] <= buffers[s][i].step
    /\ \A i, j \in 1..Len(buffers[s]) : i < j => buffers[s][i].step <= buffers[s][j].step
    /\ IsInjective(buffers[s])

\* each sample in one place;
Once(s) ==
    /\ ToSet(buffers[s]) \cap Fed(s) = {} /\ Synced(s) \cap Training(s) = {}
    /\ \A x \in Fed(s) : x.step <= progress[s]
    /\ s \in ready => 1 < progress[s] /\ \A x \in Fed(s) : x.step < progress[s]

\* and nothing missing.
Whole(s, n, k) ==
    /\ dir[n] # 0 => k <= Len(files[n])
    /\ n \in Visible => Given(s) = UpTo(n, k) /\ Closed(n, k)

Flow(s, n, k, g) ==
    /\ Asks(s, k) /\ Coming(n, k, g) /\ Mine(s, n, k, g)
    /\ Queue(s) /\ Once(s) /\ Whole(s, n, k)

Flows ==
    pc # "crashed" =>
        /\ \A n \in Sound : Link(n) /\ Known(n) /\ Waiting(n)
        /\ \A s \in Used : slotOf[s] \in Sound =>
                \E k \in 0..MaxSteps, g \in 1..MaxCreated : Flow(s, slotOf[s], k, g)

Agreement ==
    reused = {} => pc # "crashed" /\ (pc = "broadcast" => rankSlot = slotOf)

Publications ==
    /\ spoilt \subseteq reused
    /\ \A n \in Sound : published[n] \subseteq 1..Len(files[n])

-----------------------------------------------------------------------------
(* The operators                                                           *)

\* The constants' types.
LEMMA ConstTypes ==
    /\ MaxRuns \in Nat \ {0} /\ MaxCreated \in Nat /\ MaxSteps \in Nat /\ SeqLen \in Nat
    /\ Free \notin Names /\ 0 \in Slots /\ Slots \subseteq Nat
    /\ \A i \in 1..MaxSteps : Batches[i] \subseteq Seq(Nat)
<1>1. MaxRuns \in Nat \ {0} /\ MaxCreated \in Nat /\ SeqLen \in Nat /\ Free \notin Names
  BY MultiRunAssumption
<1>2. Batches \in Seq(SUBSET Seq(Nat))
  BY MultiRunAssumption
<1>3. MaxSteps \in Nat /\ \A i \in 1..MaxSteps : Batches[i] \in SUBSET Seq(Nat)
  BY <1>2 DEF MaxSteps
<1>4. 0 \in Slots /\ Slots \subseteq Nat
  BY <1>1 DEF Slots
<1> QED BY <1>1, <1>3, <1>4

\* A sequence up to its first bad position.
Before(s, bad) == IF bad = {} THEN s ELSE SubSeq(s, 1, Min(bad) - 1)

GoodPart(p, s, bad, S) ==
    /\ p \in Seq(S) /\ Len(p) \in 0..Len(s)
    /\ \A i \in 1..Len(p) : i \in 1..Len(s) /\ p[i] = s[i] /\ i \notin bad

\* It is the part of it that is good from the start.
LEMMA BeforeParts ==
    ASSUME NEW S, NEW s \in Seq(S), NEW bad \in SUBSET (1..Len(s))
    PROVE  GoodPart(Before(s, bad), s, bad, S)
<1> DEFINE p == Before(s, bad)
<1> USE DEF Before, GoodPart
<1>1. Len(s) \in Nat
  OBVIOUS
<1>2. CASE bad = {}
  BY <1>1, <1>2
<1>3. CASE bad # {}
  <2> DEFINE m == Min(bad)
  <2>1. bad \in SUBSET Nat
    BY <1>1
  <2>2. m \in bad /\ \A y \in bad : m <= y
    BY <1>3, <2>1, MinOf
  <2>3. m \in 1..Len(s) /\ p = SubSeq(s, 1, m - 1)
    BY <1>3, <2>2
  <2> HIDE DEF m
  <2>4. p \in Seq(S) /\ Len(p) = m - 1 /\ \A i \in 1..(m - 1) : p[i] = s[i]
    <3>1. m - 1 <= Len(s) /\ 1 <= (m - 1) + 1 /\ 1 \in Int /\ m - 1 \in Nat
      BY <1>1, <2>3
    <3>2. \A i \in 1..(m - 1) : i \in 1..Len(s)
      BY <1>1, <2>3
    <3>3. SubSeq(s, 1, m - 1) \in Seq(S) /\ Len(SubSeq(s, 1, m - 1)) = m - 1
      BY <3>1, <3>2
    <3>4. \A i \in 1..(m - 1) : SubSeq(s, 1, m - 1)[i] = s[i]
      BY <3>1, <3>2
    <3> QED BY <2>3, <3>3, <3>4
  <2> QED BY <1>1, <2>2, <2>3, <2>4
<1> QED BY <1>2, <1>3

\* The samples of a batch that was written.
LEMMA SamplesParts ==
    ASSUME NEW written, NEW n \in Names, NEW j \in 1..MaxSteps,
           written[n][j] \in Seq(Nat), dir[n] \in 1..MaxCreated
    PROVE  /\ SamplesIn(written, n, j) \in Seq(Samples)
           /\ IsInjective(SamplesIn(written, n, j))
           /\ \A x \in ToSet(SamplesIn(written, n, j)) : x.run = n /\ x.made = dir[n] /\ x.step = j
<1> DEFINE b == written[n][j]
           x(i) == [run |-> n, made |-> dir[n], step |-> j, index |-> i, len |-> b[i]]
           q == SamplesIn(written, n, j)
<1>1. Len(b) \in Nat /\ \A i \in 1..Len(b) : b[i] \in Nat
  OBVIOUS
<1>2. \A i \in 1..Len(b) : x(i) \in Samples
  BY <1>1 DEF Samples
<1>3. q = [i \in 1..Len(b) |-> x(i)]
  BY DEF SamplesIn
<1>4. \A i \in 1..Len(b) : x(i).run = n /\ x(i).made = dir[n] /\ x(i).step = j /\ x(i).index = i
  OBVIOUS
<1> HIDE DEF b, x, q
<1>5. q \in Seq(Samples) /\ Len(q) = Len(b) /\ DOMAIN q = 1..Len(b) /\ \A i \in 1..Len(b) : q[i] = x(i)
  BY <1>1, <1>2, <1>3
<1>6. IsInjective(q)
  BY <1>4, <1>5 DEF IsInjective
<1>7. \A y \in ToSet(q) : y.run = n /\ y.made = dir[n] /\ y.step = j
  BY <1>4, <1>5 DEF ToSet
<1> QED BY <1>5, <1>6, <1>7 DEF q

\* What is valid of a batch is a prefix of it.
LEMMA ValidParts ==
    ASSUME NEW a \in Seq(Samples)
    PROVE  /\ ValidPrefix(a) \in Seq(Samples)
           /\ ToSet(ValidPrefix(a)) \subseteq ToSet(a)
           /\ IsInjective(a) => IsInjective(ValidPrefix(a))
<1> DEFINE bad == {i \in 1..Len(a) : a[i].len \notin 1..SeqLen}
           p == ValidPrefix(a)
<1>1. p = Before(a, bad)
  BY Zenon DEF ValidPrefix, Before
<1>2. bad \in SUBSET (1..Len(a))
  OBVIOUS
<1> HIDE DEF bad, p
<1>3. /\ p \in Seq(Samples) /\ Len(p) \in 0..Len(a)
      /\ \A i \in 1..Len(p) : i \in 1..Len(a) /\ p[i] = a[i] /\ i \notin bad
  <2>1. GoodPart(p, a, bad, Samples)
    BY <1>1, <1>2, BeforeParts, Zenon
  <2> QED BY <2>1 DEF GoodPart
<1>4. DOMAIN p = 1..Len(p) /\ DOMAIN a = 1..Len(a)
  BY <1>3
<1>5. ToSet(p) \subseteq ToSet(a)
  BY <1>3, <1>4 DEF ToSet
<1>6. IsInjective(a) => IsInjective(p)
  BY <1>3, <1>4 DEF IsInjective
<1> QED BY <1>3, <1>5, <1>6 DEF p

\* The current work of a slot is the part of its buffer before the first
\* sample of a later step.
LEMMA CurrentParts ==
    ASSUME NEW s \in Slots, buffers[s] \in Seq(Samples), progress[s] \in Nat
    PROVE  /\ CurrentWork(s) \in Seq(Samples) /\ Len(CurrentWork(s)) \in 0..Len(buffers[s])
           /\ \A i \in 1..Len(CurrentWork(s)) :
                  /\ i \in 1..Len(buffers[s]) /\ CurrentWork(s)[i] = buffers[s][i]
                  /\ buffers[s][i].step <= progress[s]
<1> DEFINE b == buffers[s]
           later == {i \in 1..Len(b) : b[i].step > progress[s]}
           p == CurrentWork(s)
<1>1. p = Before(b, later)
  BY Zenon DEF CurrentWork, Before
<1>2. later \in SUBSET (1..Len(b)) /\ b \in Seq(Samples)
  OBVIOUS
<1>3. \A i \in 1..Len(b) : b[i].step \in Nat
  <2>1. \A i \in 1..Len(b) : b[i] \in Samples
    OBVIOUS
  <2>2. \A x \in Samples : x.step \in Nat
    BY ConstTypes DEF Samples
  <2> QED BY <2>1, <2>2
<1>4. \A i \in 1..Len(b) : i \notin later => b[i].step <= progress[s]
  BY <1>3
<1> HIDE DEF b, later, p
<1>5. /\ p \in Seq(Samples) /\ Len(p) \in 0..Len(b)
      /\ \A i \in 1..Len(p) : i \in 1..Len(b) /\ p[i] = b[i] /\ i \notin later
  <2>1. GoodPart(p, b, later, Samples)
    BY <1>1, <1>2, BeforeParts, Zenon
  <2> QED BY <2>1 DEF GoodPart
<1> QED BY <1>4, <1>5 DEF p, b

\* The oldest of some batches.
LEMMA OldestParts ==
    ASSUME NEW D, D # {}, \A m \in D : m.step \in Nat
    PROVE  Oldest(D) \in D /\ \A m \in D : Oldest(D).step <= m.step
<1>1. {m.step : m \in D} \in SUBSET Nat /\ {m.step : m \in D} # {}
  OBVIOUS
<1>2. PICK k \in {m.step : m \in D} : \A y \in {m.step : m \in D} : k <= y
  BY <1>1, LeastOf
<1>3. PICK a \in D : a.step = k
  BY <1>2
<1>4. \A m \in D : a.step <= m.step
  BY <1>2, <1>3
<1> QED BY <1>3, <1>4, Zenon DEF Oldest

\* UpTo without the minimum.
LEMMA UpToIs ==
    ASSUME NEW n \in Names, files[n] \in Seq(Seq(Nat)), NEW k \in Nat
    PROVE  UpTo(n, k) = UNION {ToSet(SamplesOf(n, j)) : j \in {i \in 1..Len(files[n]) : i <= k}}
<1> DEFINE l == Len(files[n])
           m == Min({k, l})
<1>1. l \in Nat
  OBVIOUS
<1>2. m \in {k, l} /\ m <= k /\ m <= l
  <2>1. {k, l} \in SUBSET Nat /\ {k, l} # {}
    BY <1>1
  <2> QED BY <2>1, MinOf
<1> HIDE DEF l, m
<1>3. 1..m = {i \in 1..l : i <= k}
  BY <1>1, <1>2
<1> QED BY <1>3, Zenon DEF UpTo, l, m

\* Runs get unused slots, each at most one.
LEMMA PlacementParts ==
    ASSUME NEW unused \in SUBSET Slots, NEW new, NEW place \in Placements(unused, new)
    PROVE  /\ DOMAIN place \subseteq unused /\ \A s \in DOMAIN place : place[s] \in new
           /\ \A s, t \in DOMAIN place : place[s] = place[t] => s = t
BY DEF Placements

-----------------------------------------------------------------------------
(* The work of a round                                                     *)

\* The slot that has its turn as the i-th.
Turn(i) == (position + i - 1) % MaxRuns

\* Every slot has one turn in a round.
LEMMA Turns ==
    ASSUME position \in Slots
    PROVE  /\ \A i \in 1..MaxRuns : Turn(i) \in Slots
           /\ \A i, j \in 1..MaxRuns : Turn(i) = Turn(j) => i = j
           /\ \A s \in Slots : \E i \in 1..MaxRuns : Turn(i) = s
<1>1. MaxRuns \in Nat \ {0} /\ position \in 0..(MaxRuns - 1)
  BY ConstTypes DEF Slots
<1>2. ASSUME NEW M \in Nat \ {0}, NEW k \in 0..(2 * M - 1)
      PROVE  k % M = IF k < M THEN k ELSE k - M
  <2>1. CASE k < M
    BY <2>1
  <2>2. CASE ~ (k < M)
    <3>1. k - M \in 0..(M - 1) /\ k = M * 1 + (k - M)
      BY <2>2
    <3> QED BY <2>2, <3>1
  <2> QED BY <2>1, <2>2
<1>3. ASSUME NEW i \in 1..MaxRuns
      PROVE  Turn(i) = IF position + i - 1 < MaxRuns THEN position + i - 1
                       ELSE position + i - 1 - MaxRuns
  <2> DEFINE k == position + i - 1
  <2>1. k \in 0..(2 * MaxRuns - 1)
    BY <1>1
  <2>2. Turn(i) = k % MaxRuns
    BY DEF Turn
  <2>3. k % MaxRuns = IF k < MaxRuns THEN k ELSE k - MaxRuns
    <3> HIDE DEF k
    <3> QED BY <1>1, <1>2, <2>1
  <2>4. CASE k < MaxRuns
    BY <1>1, <2>2, <2>3, <2>4
  <2>5. CASE ~ (k < MaxRuns)
    <3>1. Turn(i) = k - MaxRuns
      BY <2>2, <2>3, <2>5
    <3> QED BY <1>1, <2>5, <3>1
  <2> QED BY <2>4, <2>5
<1>4. \A i \in 1..MaxRuns : Turn(i) \in Slots
  BY <1>1, <1>3 DEF Slots
<1>5. \A i, j \in 1..MaxRuns : Turn(i) = Turn(j) => i = j
  <2>1. SUFFICES ASSUME NEW i \in 1..MaxRuns, NEW j \in 1..MaxRuns, Turn(i) = Turn(j)
                 PROVE  i = j
    OBVIOUS
  <2> QED BY <1>1, <1>3, <2>1
<1>6. ASSUME NEW s \in Slots PROVE \E i \in 1..MaxRuns : Turn(i) = s
  <2> DEFINE i == IF position <= s THEN s - position + 1 ELSE s - position + 1 + MaxRuns
  <2>1. s \in 0..(MaxRuns - 1)
    BY DEF Slots
  <2>2. i \in 1..MaxRuns
    BY <1>1, <2>1
  <2>3. Turn(i) = s
    BY <1>1, <1>3, <2>1, <2>2
  <2> QED BY <2>2, <2>3
<1> QED BY <1>4, <1>5, <1>6

\* The current work of a slot as it is in Work.
Tagged(s) == [j \in 1..Len(CurrentWork(s)) |-> <<s, CurrentWork(s)[j]>>]

\* Its parts.
LEMMA TaggedParts ==
    ASSUME NEW s \in Slots, buffers[s] \in Seq(Samples), progress[s] \in Nat
    PROVE  /\ Tagged(s) \in Seq({s} \X Samples) /\ Tagged(s) \in Seq(Slots \X Samples)
           /\ Len(Tagged(s)) = Len(CurrentWork(s))
           /\ \A j \in 1..Len(Tagged(s)) : Tagged(s)[j] = <<s, CurrentWork(s)[j]>>
<1>1. CurrentWork(s) \in Seq(Samples) /\ Len(CurrentWork(s)) \in Nat
  BY CurrentParts
<1>2. \A j \in 1..Len(CurrentWork(s)) :
          <<s, CurrentWork(s)[j]>> \in {s} \X Samples /\ <<s, CurrentWork(s)[j]>> \in Slots \X Samples
  BY <1>1
<1> QED BY <1>1, <1>2 DEF Tagged

\* What Work holds of a slot is its current work, in its order.
LEMMA WorkOf ==
    ASSUME position \in Slots, buffers \in [Slots -> Seq(Samples)], progress \in [Slots -> Nat],
           NEW s \in Slots
    PROVE  Work \in Seq(Slots \X Samples) /\ Selected(Work, {s} \X Samples) = Tagged(s)
<1> DEFINE S == Slots \X Samples
           A == {s} \X Samples
           M == MaxRuns
           q == [i \in 1..M |-> Tagged(Turn(i))]
<1>1. M \in Nat \ {0}
  BY ConstTypes
<1>2. \A t \in Slots : /\ Tagged(t) \in Seq(S) /\ Len(Tagged(t)) \in Nat
                       /\ \A j \in 1..Len(Tagged(t)) : Tagged(t)[j] \in {t} \X Samples
  <2> SUFFICES ASSUME NEW t \in Slots
               PROVE  /\ Tagged(t) \in Seq(S) /\ Len(Tagged(t)) \in Nat
                      /\ \A j \in 1..Len(Tagged(t)) : Tagged(t)[j] \in {t} \X Samples
    OBVIOUS
  <2>1. Tagged(t) \in Seq({t} \X Samples) /\ Tagged(t) \in Seq(S)
    BY TaggedParts
  <2> HIDE DEF S
  <2> QED BY <2>1
<1>3. q \in Seq(Seq(S)) /\ Len(q) = M /\ q # <<>>
  <2>1. \A i \in 1..M : Tagged(Turn(i)) \in Seq(S)
    BY <1>2, Turns
  <2> HIDE DEF S, M
  <2>2. q \in Seq(Seq(S)) /\ Len(q) = M
    BY <1>1, <2>1
  <2> QED BY <1>1, <2>2
<1>4. Work = FlattenSeq(q)
  BY Zenon DEF Work, Tagged, Turn
<1>5. \A i \in 1..M : q[i] = Tagged(Turn(i))
  OBVIOUS
<1> HIDE DEF q, S
<1>6. PICK u \in [0..Len(q) -> Seq(S)] :
          /\ FlattenSeq(q) = u[Len(q)]
          /\ u[0] = <<>>
          /\ \A i \in 1..Len(q) : u[i] = u[i - 1] \o q[i]
  BY <1>3, FlattenUnfolds
<1> HIDE DEF A, M
<1>7. /\ u \in [0..M -> Seq(S)] /\ Work = u[M] /\ u[0] = <<>>
      /\ \A i \in 1..M : u[i] = u[i - 1] \o q[i]
  BY <1>3, <1>4, <1>6
<1> DEFINE upTo(i) == IF \E j \in 1..i : Turn(j) = s THEN Tagged(s) ELSE <<>>
           T == {i \in 0..M : Selected(u[i], A) = upTo(i)}
<1>8. 0 \in T
  <2>1. Selected(<<>>, A) = <<>>
    <3>1. <<>> \in Seq(S) /\ \A i \in 1..Len(<<>>) : <<>>[i] \notin A
      OBVIOUS
    <3> QED BY <3>1, SelectedNone, Zenon
  <2>2. upTo(0) = <<>> /\ 0 \in 0..M
    BY <1>1 DEF M
  <2> QED BY <1>7, <2>1, <2>2, Zenon
<1>9. ASSUME NEW i \in 0..(M - 1), i \in T PROVE i + 1 \in T
  <2>1. i \in 0..M /\ i + 1 \in 1..M /\ (i + 1) - 1 = i /\ i + 1 \in 0..M /\ 1..M = 1..MaxRuns
        /\ 1..(i + 1) = (1..i) \cup {i + 1} /\ 1..i \subseteq 1..M /\ i + 1 \notin 1..i
    BY <1>1 DEF M
  <2>2. u[i] \in Seq(S) /\ q[i + 1] \in Seq(S) /\ q[i + 1] = Tagged(Turn(i + 1))
        /\ u[i + 1] = u[i] \o q[i + 1] /\ Turn(i + 1) \in Slots
    <3>1. Turn(i + 1) \in Slots
      BY <2>1, Turns
    <3>2. q[i + 1] = Tagged(Turn(i + 1)) /\ u[i + 1] = u[i] \o q[i + 1] /\ u[i] \in Seq(S)
      BY <1>5, <1>7, <2>1
    <3> QED BY <1>2, <3>1, <3>2
  <2>3. Selected(u[i + 1], A) = Selected(u[i], A) \o Selected(q[i + 1], A)
    <3>1. SelectsEach(u[i], q[i + 1], A)
      BY <2>2, SelectedEach, Zenon
    <3> QED BY <2>2, <3>1, Zenon DEF SelectsEach
  <2>4. Selected(u[i], A) = upTo(i)
    BY <1>9
  <2>5. CASE Turn(i + 1) = s
    <3>1. Selected(q[i + 1], A) = Tagged(s)
      <4>1. q[i + 1] = Tagged(s) /\ \A j \in 1..Len(q[i + 1]) : q[i + 1][j] \in A
        BY <1>2, <2>2, <2>5 DEF A
      <4> QED BY <2>2, <4>1, SelectedAll, Zenon
    <3>2. ~ \E j \in 1..i : Turn(j) = s
      BY <2>1, <2>5, Turns
    <3>3. upTo(i) = <<>> /\ upTo(i + 1) = Tagged(s)
      <4>1. i + 1 \in 1..(i + 1)
        BY <2>1
      <4> QED BY <2>5, <3>2, <4>1
    <3>4. <<>> \o Tagged(s) = Tagged(s)
      BY <1>2, ConcatEmptySeq
    <3> HIDE DEF upTo
    <3>5. Selected(u[i + 1], A) = upTo(i + 1)
      BY <2>3, <2>4, <3>1, <3>3, <3>4, Zenon
    <3> QED BY <2>1, <3>5
  <2>6. CASE Turn(i + 1) # s
    <3>1. Selected(q[i + 1], A) = <<>>
      <4>1. \A j \in 1..Len(q[i + 1]) : q[i + 1][j] \notin A
        <5>1. \A j \in 1..Len(q[i + 1]) : q[i + 1][j] \in {Turn(i + 1)} \X Samples
          BY <1>2, <2>2
        <5> QED BY <2>6, <5>1 DEF A
      <4> QED BY <2>2, <4>1, SelectedNone, Zenon
    <3>2. upTo(i + 1) = upTo(i)
      BY <2>1, <2>6
    <3>3. upTo(i) \o <<>> = upTo(i)
      <4>1. upTo(i) \in Seq(S)
        BY <1>2
      <4> QED BY <4>1, ConcatEmptySeq
    <3> HIDE DEF upTo
    <3>4. Selected(u[i + 1], A) = upTo(i + 1)
      BY <2>3, <2>4, <3>1, <3>2, <3>3, Zenon
    <3> QED BY <2>1, <3>4
  <2> QED BY <2>5, <2>6
<1>10. \A i \in 0..M : i \in T
  <2>1. M \in Nat
    BY <1>1
  <2> HIDE DEF T
  <2> QED BY <1>8, <1>9, <2>1, UpToInduction
<1>11. upTo(M) = Tagged(s) /\ M \in 0..M
  BY <1>1, Turns DEF M
<1>12. Selected(u[M], A) = Tagged(s)
  <2> HIDE DEF upTo
  <2> QED BY <1>10, <1>11
<1> QED BY <1>7, <1>11, <1>12, Zenon DEF S, A

\* What pack() took of a slot when it took the first k of Work: the head of the
\* slot's buffer, all of its current step.
LEMMA TakenOf ==
    ASSUME position \in Slots, buffers \in [Slots -> Seq(Samples)], progress \in [Slots -> Nat],
           NEW s \in Slots, NEW k \in 1..Len(Work), NEW c, c = Len(Taken(SubSeq(Work, 1, k), s))
    PROVE  /\ c \in 0..Len(buffers[s])
           /\ \A i \in 1..c : i \in 1..Len(buffers[s]) /\ buffers[s][i].step <= progress[s]
           /\ ToSet(Taken(SubSeq(Work, 1, k), s)) = {<<s, buffers[s][i]>> : i \in 1..c}
           /\ Taken(SubSeq(Work, 1, k), s) = [i \in 1..c |-> <<s, buffers[s][i]>>]
<1> DEFINE S == Slots \X Samples
           A == {s} \X Samples
           a == Selected(SubSeq(Work, 1, k), A)
<1>1. Work \in Seq(S) /\ Selected(Work, A) = Tagged(s)
  BY WorkOf
<1>2. k \in 0..Len(Work)
  BY <1>1
<1> HIDE DEF S, A
<1>3. /\ a \in Seq(S) /\ Len(a) \in 0..Len(Tagged(s))
      /\ \A i \in 1..Len(a) : i \in 1..Len(Tagged(s)) /\ a[i] = Tagged(s)[i]
  <2>1. /\ a \in Seq(S) /\ Len(a) \in 0..Len(Selected(Work, A))
        /\ \A i \in 1..Len(a) : i \in 1..Len(Selected(Work, A)) /\ a[i] = Selected(Work, A)[i]
    BY <1>1, <1>2, SelectedPrefix, Zenon
  <2> QED BY <1>1, <2>1, Zenon
<1>4. c = Len(a) /\ Taken(SubSeq(Work, 1, k), s) = a
  BY DEF Taken, A
<1> HIDE DEF a
<1>5. c \in 0..Len(Tagged(s)) /\ \A i \in 1..c : a[i] = Tagged(s)[i] /\ i \in 1..Len(Tagged(s))
  BY <1>3, <1>4
<1>6. /\ Len(Tagged(s)) = Len(CurrentWork(s)) /\ Len(CurrentWork(s)) \in 0..Len(buffers[s])
      /\ \A j \in 1..Len(Tagged(s)) : Tagged(s)[j] = <<s, CurrentWork(s)[j]>>
  BY TaggedParts, CurrentParts
<1>7. \A i \in 1..Len(CurrentWork(s)) :
          /\ i \in 1..Len(buffers[s]) /\ CurrentWork(s)[i] = buffers[s][i]
          /\ buffers[s][i].step <= progress[s]
  BY CurrentParts
<1>8. c \in 0..Len(buffers[s]) /\ Len(buffers[s]) \in Nat
  BY <1>5, <1>6
<1>9. \A i \in 1..c : /\ i \in 1..Len(buffers[s]) /\ buffers[s][i].step <= progress[s]
                      /\ a[i] = <<s, buffers[s][i]>>
  BY <1>5, <1>6, <1>7
<1>10. DOMAIN a = 1..c
  BY <1>3, <1>4
<1>11. ToSet(a) = {a[i] : i \in 1..c}
  BY <1>10 DEF ToSet
<1>12. a = [i \in 1..c |-> <<s, buffers[s][i]>>]
  <2>1. a = [i \in 1..c |-> a[i]]
    BY <1>3, <1>10
  <2> QED BY <1>9, <2>1
<1>13. ToSet(a) = {<<s, buffers[s][i]>> : i \in 1..c}
  BY <1>9, <1>11
<1>14. \A i \in 1..c : i \in 1..Len(buffers[s]) /\ buffers[s][i].step <= progress[s]
  BY <1>9
<1> QED BY <1>4, <1>8, <1>12, <1>13, <1>14, Zenon

-----------------------------------------------------------------------------
(* What the steps do to a slot                                             *)

\* A discovery keeps a slot, gives it to a new run, or leaves it unused.
Keeps(s) ==
    /\ s \in Used /\ slotOf[s] \in Visible /\ slotOf'[s] = slotOf[s]
    /\ progress'[s] = progress[s] /\ buffers'[s] = buffers[s] /\ received'[s] = received[s]

Places(s) ==
    /\ slotOf'[s] \in Visible \ Held(slotOf)
    /\ progress'[s] = 1 /\ buffers'[s] = <<>> /\ received'[s] = 0

Leaves(s) ==
    slotOf'[s] = Free /\ progress'[s] = 0 /\ buffers'[s] = <<>> /\ received'[s] = 0

\* What discover_runs does, slot by slot.
LEMMA DiscoverParts ==
    ASSUME MasterTypes, SlotsDiffer, Progress, DiscoverRuns
    PROVE  /\ slotOf' \in [Slots -> Names \cup {Free}] /\ progress' \in [Slots -> Nat]
           /\ received' \in [Slots -> 0..(MaxSteps + 1)] /\ buffers' \in [Slots -> Seq(Samples)]
           /\ \A s \in Slots : Keeps(s) \/ Places(s) \/ Leaves(s)
           /\ \A s \in Used : slotOf[s] \in Visible => Keeps(s)
           /\ \A s, t \in Slots : slotOf'[s] = slotOf'[t] /\ slotOf'[s] # Free => s = t
<1> DEFINE gone == {s \in Used : slotOf[s] \notin Visible}
           unused == (Slots \ Used) \cup gone
           new == Visible \ Held(slotOf)
<1>1. PICK place \in Placements(unused, new) :
          /\ slotOf' = [s \in Slots |->
                           IF s \in DOMAIN place THEN place[s]
                           ELSE IF s \in gone THEN Free ELSE slotOf[s]]
          /\ progress' = [s \in Slots |->
                             IF s \in DOMAIN place THEN 1
                             ELSE IF s \in gone THEN 0 ELSE progress[s]]
          /\ buffers' = BuffersAfter(gone)
          /\ received' = ReceivedAfter(gone)
  BY Zenon DEF DiscoverRuns
<1>2. unused \in SUBSET Slots /\ gone \subseteq Used /\ Used \subseteq Slots
  BY DEF Used
<1>3. /\ DOMAIN place \subseteq unused /\ \A s \in DOMAIN place : place[s] \in new
      /\ \A s, t \in DOMAIN place : place[s] = place[t] => s = t
  <2> HIDE DEF unused, new
  <2> QED BY <1>2, PlacementParts
<1>4. /\ slotOf \in [Slots -> Names \cup {Free}] /\ progress \in [Slots -> Nat]
      /\ received \in [Slots -> 0..(MaxSteps + 1)] /\ buffers \in [Slots -> Seq(Samples)]
  BY DEF MasterTypes
<1>5. new \subseteq Names /\ MaxSteps \in Nat /\ <<>> \in Seq(Samples)
  BY ConstTypes DEF Visible
<1>6. \A s \in Slots :
          /\ slotOf'[s] = IF s \in DOMAIN place THEN place[s]
                           ELSE IF s \in gone THEN Free ELSE slotOf[s]
          /\ progress'[s] = IF s \in DOMAIN place THEN 1
                             ELSE IF s \in gone THEN 0 ELSE progress[s]
          /\ buffers'[s] = (IF s \in gone THEN <<>> ELSE buffers[s])
          /\ received'[s] = (IF s \in gone THEN 0 ELSE received[s])
  <2> HIDE DEF gone
  <2> QED BY <1>1 DEF BuffersAfter, ReceivedAfter
<1>7. /\ slotOf' \in [Slots -> Names \cup {Free}] /\ progress' \in [Slots -> Nat]
      /\ received' \in [Slots -> 0..(MaxSteps + 1)] /\ buffers' \in [Slots -> Seq(Samples)]
  <2> HIDE DEF gone, unused, new
  <2>1. slotOf' \in [Slots -> Names \cup {Free}]
    BY <1>1, <1>3, <1>4, <1>5
  <2>2. progress' \in [Slots -> Nat]
    BY <1>1, <1>4
  <2>3. received' \in [Slots -> 0..(MaxSteps + 1)]
    BY <1>1, <1>4, <1>5 DEF ReceivedAfter
  <2>4. buffers' \in [Slots -> Seq(Samples)]
    BY <1>1, <1>4, <1>5 DEF BuffersAfter
  <2> QED BY <2>1, <2>2, <2>3, <2>4
<1>8. \A s \in Slots \ Used : received[s] = 0 /\ buffers[s] = <<>> /\ progress[s] = 0 /\ slotOf[s] = Free
  BY DEF Progress, Used
<1>9. \A s \in Used : slotOf[s] \in Visible => Keeps(s)
  BY <1>2, <1>3, <1>6 DEF Keeps
<1>10. ASSUME NEW s \in Slots PROVE Keeps(s) \/ Places(s) \/ Leaves(s)
  <2>1. CASE s \in DOMAIN place
    <3>1. slotOf'[s] \in new /\ progress'[s] = 1 /\ s \in unused
      BY <1>3, <1>6, <2>1
    <3>2. buffers'[s] = <<>> /\ received'[s] = 0
      BY <1>6, <1>8, <3>1
    <3> QED BY <3>1, <3>2 DEF Places
  <2>2. CASE s \notin DOMAIN place /\ s \in unused
    BY <1>6, <1>8, <2>2 DEF Leaves
  <2>3. CASE s \notin unused
    BY <1>9, <2>3
  <2> QED BY <2>1, <2>2, <2>3
<1>11. ASSUME NEW s \in Slots, NEW t \in Slots, slotOf'[s] = slotOf'[t], slotOf'[s] # Free
       PROVE  s = t
  <2>1. CASE s \in DOMAIN place /\ t \in DOMAIN place
    BY <1>3, <1>6, <1>11, <2>1
  <2>2. ASSUME NEW a \in Slots, NEW b \in Slots, a \in DOMAIN place, b \notin DOMAIN place,
               slotOf'[a] = slotOf'[b], slotOf'[b] # Free
        PROVE  FALSE
    <3>1. slotOf'[a] \notin Held(slotOf)
      BY <1>3, <1>6, <2>2
    <3>2. slotOf'[b] = slotOf[b]
      BY <1>6, <2>2
    <3> QED BY <2>2, <3>1, <3>2 DEF Held
  <2>3. CASE s \notin DOMAIN place /\ t \notin DOMAIN place
    <3>1. slotOf[s] = slotOf[t] /\ slotOf[s] # Free
      BY <1>6, <1>11, <2>3
    <3> QED BY <3>1 DEF SlotsDiffer, Used
  <2> QED BY <1>11, <2>1, <2>2, <2>3
<1> QED BY <1>7, <1>9, <1>10, <1>11

\* pack() takes cnt[s] samples from the head of the buffer of each slot s, all
\* of its current step, and nothing else.
Packs(cnt) ==
    /\ \A s \in Slots :
        /\ cnt[s] \in 0..Len(buffers[s])
        /\ \A i \in 1..cnt[s] : i \in 1..Len(buffers[s]) /\ buffers[s][i].step <= progress[s]
        /\ buffers'[s] = SubSeq(buffers[s], cnt[s] + 1, Len(buffers[s]))
        /\ ToSet(Taken(selected', s)) = {<<s, buffers[s][i]>> : i \in 1..cnt[s]}
    /\ \A x \in ToSet(selected') :
        x[1] \in Slots /\ \E i \in 1..cnt[x[1]] : x[2] = buffers[x[1]][i]

\* Slots whose current step is packed with that.
Finished(cnt) == {s \in Slots : cnt[s] > 0 /\ StepDone(s, buffers'[s])}

Advances(cnt) ==
    /\ progress' = [s \in Slots |-> IF s \in Finished(cnt) THEN progress[s] + 1 ELSE progress[s]]
    /\ ready' = ready \cup Finished(cnt)

\* What pack() does, slot by slot.
LEMMA PackParts ==
    ASSUME MasterTypes, Pack
    PROVE  /\ selected' \in Seq(Slots \X Samples) /\ position' \in Slots
           /\ buffers' \in [Slots -> Seq(Samples)]
           /\ \E cnt : /\ Packs(cnt)
                       /\ IF SingleStep(selected') THEN pc' = "train" /\ Advances(cnt)
                          ELSE pc' = "crashed" /\ UNCHANGED <<progress, ready>>
<1> DEFINE S == Slots \X Samples
           cnt == [s \in Slots |-> Len(Taken(selected', s))]
<1>1. /\ position \in Slots /\ buffers \in [Slots -> Seq(Samples)] /\ progress \in [Slots -> Nat]
  BY DEF MasterTypes
<1>2. PICK k \in 1..Len(Work) : position' = NextPosition(k) /\ selected' = SubSeq(Work, 1, k)
  BY Zenon DEF Pack
<1>3. Work \in Seq(S) /\ Len(Work) \in Nat /\ \A i \in 1..Len(Work) : Work[i] \in S
  <2>1. Work \in Seq(S)
    BY <1>1, ConstTypes, WorkOf
  <2> HIDE DEF S
  <2> QED BY <2>1
<1>4. selected' \in Seq(S)
  <2>1. SubSeq(Work, 1, k) \in Seq(S)
    <3> HIDE DEF S
    <3> QED BY <1>3, Split
  <2> QED BY <1>2, <2>1
<1>5. position' \in Slots
  <2>1. PICK last \in {k, k + 1} : last \in 1..Len(Work) /\ position' = (Work[last][1] + 1) % MaxRuns
    <3>1. CASE k < Len(Work) /\ Tokens(SubSeq(Work, 1, k)) < Budget
      <4>1. k + 1 \in 1..Len(Work)
        BY <1>3, <3>1
      <4> QED BY <1>2, <3>1, <4>1, Zenon DEF NextPosition
    <3>2. CASE ~ (k < Len(Work) /\ Tokens(SubSeq(Work, 1, k)) < Budget)
      BY <1>2, <3>2, Zenon DEF NextPosition
    <3> QED BY <3>1, <3>2
  <2>2. Work[last][1] \in Slots
    BY <1>3, <2>1
  <2> HIDE DEF S
  <2>3. MaxRuns \in Nat \ {0} /\ Work[last][1] \in Nat
    BY <2>2, ConstTypes
  <2>4. (Work[last][1] + 1) % MaxRuns \in 0..(MaxRuns - 1)
    BY <2>3
  <2> QED BY <2>1, <2>4 DEF Slots
<1>6. \A s \in Slots :
          /\ cnt[s] \in 0..Len(buffers[s])
          /\ \A i \in 1..cnt[s] : i \in 1..Len(buffers[s]) /\ buffers[s][i].step <= progress[s]
          /\ ToSet(Taken(selected', s)) = {<<s, buffers[s][i]>> : i \in 1..cnt[s]}
  <2> SUFFICES ASSUME NEW s \in Slots, NEW c, c = cnt[s]
               PROVE  /\ c \in 0..Len(buffers[s])
                      /\ \A i \in 1..c : i \in 1..Len(buffers[s]) /\ buffers[s][i].step <= progress[s]
                      /\ ToSet(Taken(selected', s)) = {<<s, buffers[s][i]>> : i \in 1..c}
    OBVIOUS
  <2>1. c = Len(Taken(SubSeq(Work, 1, k), s)) /\ selected' = SubSeq(Work, 1, k)
    BY <1>2
  <2> HIDE DEF cnt
  <2> QED BY <1>1, <2>1, TakenOf, Zenon
<1>7. ASSUME NEW x \in ToSet(selected')
      PROVE  x[1] \in Slots /\ \E i \in 1..cnt[x[1]] : x[2] = buffers[x[1]][i]
  <2>1. x \in S
    BY <1>4 DEF ToSet
  <2>2. x[1] \in Slots /\ x = <<x[1], x[2]>> /\ x \in {x[1]} \X Samples
    BY <2>1
  <2> HIDE DEF S
  <2>3. x \in ToSet(Taken(selected', x[1]))
    <3>1. ToSet(Selected(selected', {x[1]} \X Samples)) = ToSet(selected') \cap ({x[1]} \X Samples)
      BY <1>4, SelectedContent
    <3> QED BY <2>2, <3>1 DEF Taken
  <2>4. x \in {<<x[1], buffers[x[1]][i]>> : i \in 1..cnt[x[1]]}
    BY <1>6, <2>2, <2>3, Zenon
  <2> HIDE DEF cnt
  <2>5. PICK i \in 1..cnt[x[1]] : x = <<x[1], buffers[x[1]][i]>>
    BY <2>4, Zenon
  <2> QED BY <2>2, <2>5
<1> DEFINE rest(s) == SubSeq(buffers[s], cnt[s] + 1, Len(buffers[s]))
<1>8. /\ buffers' = [s \in Slots |-> rest(s)]
      /\ IF SingleStep(selected') THEN pc' = "train" /\ Advances(cnt)
         ELSE pc' = "crashed" /\ UNCHANGED <<progress, ready>>
  <2> DEFINE count(s) == Len(Taken(selected', s))
             rest0(s) == SubSeq(buffers[s], count(s) + 1, Len(buffers[s]))
             done == {s \in Slots : count(s) > 0 /\ StepDone(s, rest0(s))}
  <2>1. /\ buffers' = [s \in Slots |-> rest0(s)]
        /\ IF ~SingleStep(selected')
           THEN pc' = "crashed" /\ UNCHANGED <<progress, ready>>
           ELSE /\ pc' = "train"
                /\ progress' = [s \in Slots |-> IF s \in done THEN progress[s] + 1 ELSE progress[s]]
                /\ ready' = ready \cup done
    BY Zenon DEF Pack
  <2>2. \A s \in Slots : cnt[s] = count(s) /\ rest(s) = rest0(s) /\ buffers'[s] = rest0(s)
    <3>1. \A s \in Slots : cnt[s] = count(s)
      OBVIOUS
    <3>2. \A s \in Slots : buffers'[s] = rest0(s)
      <4> HIDE DEF rest0
      <4> QED BY <2>1
    <3> HIDE DEF cnt, count
    <3> QED BY <3>1, <3>2
  <2> HIDE DEF cnt, count, rest, rest0
  <2>3. Finished(cnt) = done
    BY <2>2 DEF Finished
  <2>4. buffers' = [s \in Slots |-> rest(s)]
    BY <2>1, <2>2
  <2> HIDE DEF done
  <2> QED BY <2>1, <2>3, <2>4 DEF Advances
<1>9. buffers' \in [Slots -> Seq(Samples)] /\ \A s \in Slots : buffers'[s] = rest(s)
  <2>1. ASSUME NEW s \in Slots PROVE rest(s) \in Seq(Samples)
    <3>1. cnt[s] \in 0..Len(buffers[s]) /\ buffers[s] \in Seq(Samples)
      BY <1>1, <1>6
    <3> HIDE DEF cnt
    <3> QED BY <3>1, Split
  <2> HIDE DEF rest
  <2> QED BY <1>8, <2>1
<1>10. Packs(cnt)
  <2> HIDE DEF cnt
  <2> QED BY <1>6, <1>7, <1>9 DEF Packs
<1> HIDE DEF cnt
<1> QED BY <1>4, <1>5, <1>8, <1>9, <1>10

\* r is what is left of s after the first c.
RestOf(r, s, c, S) ==
    /\ r \in Seq(S) /\ Len(r) = Len(s) - c
    /\ \A i \in 1..Len(r) : c + i \in 1..Len(s) /\ r[i] = s[c + i]
    /\ ToSet(s) = {s[i] : i \in 1..c} \cup ToSet(r)
    /\ IsInjective(s) => IsInjective(r) /\ {s[i] : i \in 1..c} \cap ToSet(r) = {}

\* A sequence without its first c elements.
LEMMA RestParts ==
    ASSUME NEW S, NEW s \in Seq(S), NEW c \in 0..Len(s)
    PROVE  RestOf(SubSeq(s, c + 1, Len(s)), s, c, S)
<1> DEFINE r == SubSeq(s, c + 1, Len(s))
<1>1. Len(s) \in Nat /\ c \in Nat /\ c <= Len(s)
  OBVIOUS
<1>2. r \in Seq(S) /\ Len(r) = Len(s) - c /\ \A i \in 1..(Len(s) - c) : r[i] = s[c + i]
  BY <1>1
<1> HIDE DEF r
<1>3. \A i \in 1..Len(r) : c + i \in 1..Len(s) /\ r[i] = s[c + i]
  BY <1>1, <1>2
<1>4. ToSet(s) = {s[i] : i \in 1..Len(s)} /\ ToSet(r) = {r[i] : i \in 1..Len(r)}
  <2>1. ToSet(s) = {s[i] : i \in 1..Len(s)}
    BY ToSetSeq
  <2>2. r \in Seq(S)
    BY <1>2
  <2>3. ToSet(r) = {r[i] : i \in 1..Len(r)}
    <3>1. DOMAIN r = 1..Len(r)
      BY <2>2, ToSetSeq, Zenon
    <3> QED BY <3>1 DEF ToSet
  <2> QED BY <2>1, <2>3
<1>5. ToSet(s) = {s[i] : i \in 1..c} \cup ToSet(r)
  <2>1. ASSUME NEW i \in 1..Len(s) PROVE s[i] \in {s[j] : j \in 1..c} \cup {r[j] : j \in 1..Len(r)}
    <3>1. CASE i <= c
      <4>1. i \in 1..c
        BY <1>1, <3>1
      <4> QED BY <4>1
    <3>2. CASE ~ (i <= c)
      <4>1. i - c \in 1..Len(r) /\ c + (i - c) = i
        BY <1>1, <1>2, <3>2
      <4> QED BY <1>3, <4>1
    <3> QED BY <3>1, <3>2
  <2>2. \A i \in 1..c : i \in 1..Len(s)
    BY <1>1
  <2> QED BY <1>3, <1>4, <2>1, <2>2
<1>6. ASSUME IsInjective(s) PROVE IsInjective(r) /\ {s[i] : i \in 1..c} \cap ToSet(r) = {}
  <2>1. \A i, j \in 1..Len(s) : s[i] = s[j] => i = j
    BY <1>6 DEF IsInjective
  <2>2. IsInjective(r)
    <3>1. \A i, j \in 1..Len(r) : r[i] = r[j] => c + i = c + j
      BY <1>3, <2>1
    <3>2. \A i, j \in 1..Len(r) : r[i] = r[j] => i = j
      BY <1>1, <1>2, <3>1
    <3>3. DOMAIN r = 1..Len(r)
      <4>1. r \in Seq(S)
        BY <1>2
      <4> QED BY <4>1, ToSetSeq, Zenon
    <3> QED BY <3>2, <3>3, Zenon DEF IsInjective
  <2>3. ASSUME NEW i \in 1..c, NEW j \in 1..Len(r) PROVE s[i] # r[j]
    <3>1. i \in 1..Len(s) /\ c + j \in 1..Len(s) /\ i # c + j
      BY <1>1, <1>3
    <3> QED BY <1>3, <2>1, <3>1
  <2>4. {s[i] : i \in 1..c} \cap ToSet(r) = {}
    BY <1>4, <2>3
  <2> QED BY <2>2, <2>4
<1> QED BY <1>2, <1>3, <1>5, <1>6 DEF RestOf, r

\* What is on its way has the type of messages.
LEMMA DrainedType ==
    ASSUME LinkTypes, NEW n \in Names
    PROVE  /\ Drained(n) \subseteq Messages /\ wire[n] \in Seq(Messages)
           /\ \A m \in Drained(n) : m.step \in 1..MaxSteps /\ m.step \in Nat /\ m.samples \in Seq(Samples)
<1>1. wire[n] \in Seq(Messages) /\ pending[n] \subseteq Messages
  BY DEF LinkTypes
<1>2. ToSet(wire[n]) \subseteq Messages
  BY <1>1, ToSetSeq
<1>3. Drained(n) \subseteq Messages
  BY <1>1, <1>2 DEF Drained
<1>4. \A m \in Messages : m.step \in 1..MaxSteps /\ m.step \in Nat /\ m.samples \in Seq(Samples)
  BY ConstTypes DEF Messages
<1> QED BY <1>1, <1>3, <1>4

\* The samples that a directory holds as some step.
LEMMA WrittenParts ==
    ASSUME FsTypes, Directories, NEW n \in Names, NEW j \in 1..Len(files[n])
    PROVE  /\ dir[n] \in 1..MaxCreated /\ j \in 1..MaxSteps
           /\ SamplesOf(n, j) \in Seq(Samples) /\ IsInjective(SamplesOf(n, j))
           /\ \A x \in ToSet(SamplesOf(n, j)) : x.run = n /\ x.made = dir[n] /\ x.step = j
<1>1. files[n] \in Seq(Seq(Nat)) /\ Len(files[n]) <= MaxSteps /\ Len(files[n]) \in Nat /\ MaxSteps \in Nat
  BY ConstTypes DEF FsTypes, Directories
<1>2. dir[n] # 0
  <2>1. files[n] # <<>>
    BY <1>1
  <2> QED BY <2>1 DEF Directories
<1>3. dir[n] \in 1..MaxCreated
  BY <1>2, ConstTypes DEF FsTypes
<1>4. j \in 1..MaxSteps /\ files[n][j] \in Seq(Nat)
  BY <1>1
<1> QED BY <1>3, <1>4, SamplesParts DEF SamplesOf

\* The batch that arrives at a slot is one of its run's.
LEMMA ArrivingParts ==
    ASSUME Basics, NEW s \in Arrivals, NEW n, n = slotOf[s]
    PROVE  /\ s \in Used /\ s \in Slots /\ n \in Names
           /\ Arriving(s) \in Seq(Samples) /\ IsInjective(Arriving(s))
           /\ \A x \in ToSet(Arriving(s)) : x.run = n
           /\ transport = "zmq" =>
                /\ Oldest(Drained(n)) \in Drained(n)
                /\ \A m \in Drained(n) : Oldest(Drained(n)).step <= m.step
                /\ Arriving(s) = Oldest(Drained(n)).samples
           /\ transport # "zmq" =>
                NextStep(s) \in 1..Len(files[n]) /\ Arriving(s) = SamplesOf(n, NextStep(s))
<1> USE DEF Basics
<1>1. s \in Used /\ s \in Slots /\ n \in Names
  BY DEF Arrivals, Used, MasterTypes
<1>2. CASE transport = "zmq"
  <2>1. Drained(n) # {} /\ Arriving(s) = Oldest(Drained(n)).samples
    BY <1>2 DEF Arrivals, Arriving
  <2>2. \A m \in Drained(n) : m.step \in Nat /\ m.samples \in Seq(Samples)
    BY <1>1, DrainedType
  <2>3. Oldest(Drained(n)) \in Drained(n) /\ \A m \in Drained(n) : Oldest(Drained(n)).step <= m.step
    BY <2>1, <2>2, OldestParts
  <2>4. IsInjective(Arriving(s)) /\ \A x \in ToSet(Arriving(s)) : x.run = n
    BY <1>1, <2>1, <2>3 DEF Owned
  <2> QED BY <1>1, <1>2, <2>1, <2>2, <2>3, <2>4
<1>3. CASE transport # "zmq"
  <2>1. NextStep(s) \in 1..Len(files[n]) /\ Arriving(s) = SamplesOf(n, NextStep(s))
    BY <1>3 DEF Arrivals, Arriving
  <2> QED BY <1>1, <1>3, <2>1, WrittenParts
<1> QED BY <1>2, <1>3

\* The step a receiver looks for can be.
LEMMA NextStepType ==
    ASSUME Basics, transport # "zmq", NEW s \in Used
    PROVE  NextStep(s) \in 1..(MaxSteps + 1)
<1>1. /\ received[s] \in 0..(MaxSteps + 1) /\ s \in Slots /\ MaxSteps \in Nat
      /\ transport = "filesystem"
  BY ConstTypes, MultiRunAssumption DEF Basics, MasterTypes, LinkTypes, Used
<1>2. received[s] = 0 => progress[s] = 1
  BY <1>1 DEF Basics, Receivers
<1> QED BY <1>1, <1>2 DEF NextStep

-----------------------------------------------------------------------------
(* Types, slots, flags and owners                                          *)

\* The basics hold at first.
LEMMA InitBasics == Init => Basics
<1> SUFFICES ASSUME Init PROVE Basics
  OBVIOUS
<1> USE DEF Init
<1>1. /\ MaxRuns \in Nat \ {0} /\ MaxCreated \in Nat /\ MaxSteps \in Nat
      /\ Free \notin Names /\ 0 \in Slots
  BY ConstTypes
<1>2. <<>> \in Seq(Samples) /\ <<>> \in Seq(Slots \X Samples) /\ <<>> \in Seq(Seq(Nat)) /\ <<>> \in Seq(Messages)
      /\ ToSet(<<>>) = {} /\ Len(<<>>) = 0
  <2>1. ToSet(<<>>) = {}
    BY DEF ToSet
  <2> QED BY <2>1
<1>3. Used = {}
  BY DEF Used
<1>4. \A n \in Names : Drained(n) = {}
  BY <1>2 DEF Drained
<1>5. FsTypes
  BY <1>1, <1>2 DEF FsTypes
<1>6. LinkTypes
  BY <1>2 DEF LinkTypes
<1>7. MasterTypes
  <2>1. received \in [Slots -> 0..(MaxSteps + 1)] /\ progress \in [Slots -> Nat] /\ position \in Slots
    BY <1>1
  <2>2. buffers \in [Slots -> Seq(Samples)] /\ selected \in Seq(Slots \X Samples)
        /\ slotOf \in [Slots -> Names \cup {Free}]
    BY <1>2
  <2>3. pc = "discover" /\ slept \in BOOLEAN /\ ready = {}
    OBVIOUS
  <2> QED BY <2>1, <2>2, <2>3 DEF MasterTypes
<1>8. RankTypes
  BY DEF RankTypes
<1>9. Directories
  BY <1>1, <1>2 DEF Directories
<1>10. SlotsDiffer /\ Progress /\ Flags
  BY <1>3 DEF SlotsDiffer, Progress, Flags
<1>11. Owned
  BY <1>2, <1>4 DEF Owned
<1>12. Receivers
  BY <1>3 DEF Receivers
<1> QED BY <1>5, <1>6, <1>7, <1>8, <1>9, <1>10, <1>11, <1>12 DEF Basics

\* A new directory is empty.
LEMMA CreateBasics == ASSUME Basics, NEW n \in Names, CreateRun(n) PROVE Basics'
<1> USE DEF Basics
<1>1. /\ created < MaxCreated /\ created' = created + 1 /\ dir' = [dir EXCEPT ![n] = created']
      /\ reused' \subseteq reused \cup {n} /\ dir[n] = 0
      /\ UNCHANGED <<evicted, files, published, linkVars, pc, slept, mapVars, packVars, rankVars, spoilt>>
  BY DEF CreateRun
<1>2. created' \in 0..MaxCreated /\ created' \in 1..MaxCreated
  BY <1>1, ConstTypes DEF FsTypes
<1>3. FsTypes'
  <2>1. dir' \in [Names -> 0..MaxCreated]
    BY <1>1, <1>2 DEF FsTypes
  <2> QED BY <1>1, <1>2, <2>1 DEF FsTypes, linkVars
<1>4. LinkTypes' /\ Owned' /\ Receivers'
  BY <1>1 DEF LinkTypes, Owned, Receivers, linkVars, packVars, mapVars, Drained, Used, NextStep
<1>5. MasterTypes' /\ RankTypes' /\ SlotsDiffer' /\ Progress' /\ Flags'
  BY <1>1 DEF MasterTypes, RankTypes, SlotsDiffer, Progress, Flags, mapVars, packVars, rankVars, Used
<1>6. Directories'
  <2>1. \A m \in Names : Len(files'[m]) <= MaxSteps /\ (dir'[m] = 0 => files'[m] = <<>>)
    <3>1. dir \in [Names -> 0..MaxCreated] /\ \A m \in Names : dir'[m] = 0 => dir[m] = 0
      BY <1>1, <1>2 DEF FsTypes
    <3> QED BY <1>1, <3>1 DEF Directories
  <2>2. \A m \in Names : dir'[m] <= created'
    <3>1. \A m \in Names : dir[m] \in Nat /\ dir[m] <= created
      BY ConstTypes DEF FsTypes, Directories
    <3>2. \A m \in Names : dir'[m] = IF m = n THEN created + 1 ELSE dir[m]
      BY <1>1 DEF FsTypes
    <3>3. created \in Nat
      BY DEF FsTypes
    <3> QED BY <1>1, <3>1, <3>2, <3>3
  <2> QED BY <2>1, <2>2 DEF Directories
<1> QED BY <1>3, <1>4, <1>5, <1>6

\* A removed one leaves nothing behind.
LEMMA DeleteBasics == ASSUME Basics, NEW n \in Names, DeleteRun(n) PROVE Basics'
<1> USE DEF Basics
<1>1. /\ dir' = [dir EXCEPT ![n] = 0] /\ evicted' = evicted \ {n}
      /\ files' = [files EXCEPT ![n] = <<>>] /\ published' = [published EXCEPT ![n] = {}]
      /\ lost' \subseteq lost
      /\ UNCHANGED <<created, transport, wire, pending, pc, slept, mapVars, packVars, rankVars, spoilt, reused>>
  BY DEF DeleteRun
<1>2. /\ dir' = [m \in Names |-> IF m = n THEN 0 ELSE dir[m]]
      /\ files' = [m \in Names |-> IF m = n THEN <<>> ELSE files[m]]
      /\ published' = [m \in Names |-> IF m = n THEN {} ELSE published[m]]
  BY <1>1 DEF FsTypes
<1>3. FsTypes'
  <2>1. dir' \in [Names -> 0..MaxCreated]
    BY <1>2, ConstTypes DEF FsTypes
  <2>2. files' \in [Names -> Seq(Seq(Nat))]
    <3>1. <<>> \in Seq(Seq(Nat))
      OBVIOUS
    <3> QED BY <1>2, <3>1 DEF FsTypes
  <2>3. published' \in [Names -> SUBSET Nat]
    BY <1>2 DEF FsTypes
  <2> QED BY <1>1, <2>1, <2>2, <2>3 DEF FsTypes
<1>4. LinkTypes' /\ Owned' /\ Receivers'
  BY <1>1 DEF LinkTypes, Owned, Receivers, packVars, mapVars, Drained, Used, NextStep
<1>5. MasterTypes' /\ RankTypes' /\ SlotsDiffer' /\ Progress'
  BY <1>1 DEF MasterTypes, RankTypes, SlotsDiffer, Progress, mapVars, packVars, rankVars, Used
<1>6. Flags'
  BY <1>1 DEF Flags, mapVars, packVars, rankVars, Used
<1>7. Directories'
  <2>1. \A m \in Names : Len(files'[m]) <= MaxSteps /\ (dir'[m] = 0 => files'[m] = <<>>)
    BY <1>2, ConstTypes DEF Directories
  <2>2. \A m \in Names : dir'[m] <= created'
    BY <1>1, <1>2 DEF FsTypes, Directories
  <2> QED BY <1>1, <2>1, <2>2 DEF Directories
<1> QED BY <1>3, <1>4, <1>5, <1>6, <1>7

\* What a write does: it adds the next batch, and sends it.
LEMMA WriteParts ==
    ASSUME Basics, NEW n \in Names, Write(n), NEW l, l = Len(files[n]) + 1
    PROVE  /\ dir[n] \in 1..MaxCreated /\ l \in 1..MaxSteps
           /\ \E batch \in Seq(Nat) : files' = [files EXCEPT ![n] = Append(@, batch)]
           /\ files' \in [Names -> Seq(Seq(Nat))]
           /\ Len(files'[n]) = l
           /\ \A j \in 1..Len(files[n]) : files'[n][j] = files[n][j]
           /\ \A m \in Names : m # n => files'[m] = files[m]
           /\ Message(n, files') \in Messages /\ Message(n, files').step = l
           /\ Message(n, files').samples = SamplesOf(n, l)'
           /\ IsInjective(Message(n, files').samples)
           /\ \A x \in ToSet(Message(n, files').samples) :
                  x.run = n /\ x.made = dir[n] /\ x.step = l
           /\ wire' = (IF transport = "zmq" THEN [wire EXCEPT ![n] = Append(@, Message(n, files'))] ELSE wire)
<1>1. /\ dir[n] # 0 /\ Len(files[n]) < MaxSteps
      /\ \E batch \in Batches[Len(files[n]) + 1] : files' = [files EXCEPT ![n] = Append(@, batch)]
      /\ wire' = (IF transport = "zmq" THEN [wire EXCEPT ![n] = Append(@, Message(n, files'))] ELSE wire)
      /\ dir' = dir
  BY DEF Write
<1>2. files \in [Names -> Seq(Seq(Nat))] /\ dir[n] \in 1..MaxCreated /\ Len(files[n]) \in Nat
  BY <1>1, ConstTypes DEF Basics, FsTypes
<1>3. l \in 1..MaxSteps
  BY <1>1, <1>2, ConstTypes
<1>4. PICK batch \in Seq(Nat) : files' = [files EXCEPT ![n] = Append(@, batch)]
  BY <1>1, <1>3, ConstTypes
<1>5. files' = [m \in Names |-> IF m = n THEN Append(files[n], batch) ELSE files[m]]
  BY <1>2, <1>4
<1>6. /\ Append(files[n], batch) \in Seq(Seq(Nat)) /\ Len(Append(files[n], batch)) = l
      /\ \A j \in 1..Len(files[n]) : Append(files[n], batch)[j] = files[n][j]
      /\ Append(files[n], batch)[l] = batch
  <2>1. files[n] \in Seq(Seq(Nat))
    BY <1>2
  <2> QED BY <2>1
<1>7. /\ files' \in [Names -> Seq(Seq(Nat))] /\ files'[n] = Append(files[n], batch)
      /\ \A m \in Names : m # n => files'[m] = files[m]
  BY <1>2, <1>5, <1>6
<1>8. files'[n][l] \in Seq(Nat) /\ Len(files'[n]) = l
  BY <1>6, <1>7
<1>9. /\ SamplesIn(files', n, l) \in Seq(Samples) /\ IsInjective(SamplesIn(files', n, l))
      /\ \A x \in ToSet(SamplesIn(files', n, l)) : x.run = n /\ x.made = dir[n] /\ x.step = l
  <2> QED BY <1>2, <1>3, <1>8, SamplesParts
<1>10. Message(n, files') = [step |-> l, samples |-> SamplesIn(files', n, l)]
  BY <1>8, Zenon DEF Message
<1>11. SamplesOf(n, l)' = SamplesIn(files', n, l)
  BY <1>1 DEF SamplesOf, SamplesIn
<1>12. Message(n, files') \in Messages
  <2> QED BY <1>3, <1>9, <1>10 DEF Messages
<1>13. Message(n, files').step = l /\ Message(n, files').samples = SamplesIn(files', n, l)
  BY <1>10
<1>14. Message(n, files').samples = SamplesOf(n, l)'
  BY <1>11, <1>13
<1>15. /\ IsInjective(Message(n, files').samples)
       /\ \A x \in ToSet(Message(n, files').samples) : x.run = n /\ x.made = dir[n] /\ x.step = l
  BY <1>9, <1>13
<1> QED BY <1>1, <1>2, <1>3, <1>4, <1>6, <1>7, <1>8, <1>12, <1>13, <1>14, <1>15

\* The elements of a longer sequence.
LEMMA ToSetAppend ==
    ASSUME NEW S, NEW s \in Seq(S), NEW x \in S
    PROVE  ToSet(Append(s, x)) = ToSet(s) \cup {x}
<1>1. Append(s, x) = s \o <<x>> /\ <<x>> \in Seq(S)
  BY AppendIsConcat
<1>2. ToSet(<<x>>) = {x}
  BY DEF ToSet
<1>3. \A t \in Seq(S) : ToSet(s \o t) = ToSet(s) \cup ToSet(t)
  BY ToSetConcat
<1> QED BY <1>1, <1>2, <1>3

\* What of a run is on its way after it wrote a batch.
LEMMA WriteDrained ==
    ASSUME Basics, NEW n \in Names, Write(n), NEW m \in Names
    PROVE  /\ Drained(m)' = (IF m = n /\ transport = "zmq" THEN Drained(m) \cup {Message(n, files')}
                             ELSE Drained(m))
           /\ wire'[m] = (IF m = n /\ transport = "zmq" THEN Append(wire[m], Message(n, files')) ELSE wire[m])
           /\ wire'[m] \in Seq(Messages)
<1>1. Message(n, files') \in Messages
  BY WriteParts
<1>2. wire' = (IF transport = "zmq" THEN [wire EXCEPT ![n] = Append(@, Message(n, files'))] ELSE wire)
  BY WriteParts
<1>3. wire \in [Names -> Seq(Messages)] /\ wire[m] \in Seq(Messages) /\ pending' = pending
  BY DEF Basics, LinkTypes, Write
<1>4. wire'[m] = (IF m = n /\ transport = "zmq" THEN Append(wire[m], Message(n, files')) ELSE wire[m])
  BY <1>2, <1>3
<1>5. wire'[m] \in Seq(Messages)
  BY <1>1, <1>3, <1>4
<1>6. ToSet(Append(wire[m], Message(n, files'))) = ToSet(wire[m]) \cup {Message(n, files')}
  BY <1>1, <1>3, ToSetAppend
<1> QED BY <1>3, <1>4, <1>5, <1>6 DEF Drained

\* A batch is of its run and its step.
LEMMA WriteBasics == ASSUME Basics, NEW n \in Names, Write(n) PROVE Basics'
<1> USE DEF Basics
<1>1. /\ dir[n] \in 1..MaxCreated /\ files' \in [Names -> Seq(Seq(Nat))]
      /\ Len(files[n]) + 1 \in 1..MaxSteps /\ Len(files'[n]) = Len(files[n]) + 1
      /\ \A m \in Names : m # n => files'[m] = files[m]
      /\ IsInjective(Message(n, files').samples)
      /\ \A x \in ToSet(Message(n, files').samples) : x.run = n
      /\ wire' = (IF transport = "zmq" THEN [wire EXCEPT ![n] = Append(@, Message(n, files'))] ELSE wire)
  BY WriteParts
<1>2. UNCHANGED <<dir, created, evicted, published, transport, pending, lost, pc, slept, mapVars, packVars,
                  rankVars, spoilt, reused>>
  BY DEF Write
<1>3. FsTypes'
  BY <1>1, <1>2 DEF FsTypes
<1>4. LinkTypes'
  <2>1. wire' \in [Names -> Seq(Messages)]
    <3>1. DOMAIN wire' = Names /\ wire' = [m \in Names |-> wire'[m]]
      BY <1>1 DEF LinkTypes
    <3>2. \A m \in Names : wire'[m] \in Seq(Messages)
      BY WriteDrained
    <3> QED BY <3>1, <3>2
  <2> QED BY <1>2, <2>1 DEF LinkTypes
<1>5. MasterTypes' /\ RankTypes' /\ SlotsDiffer' /\ Progress' /\ Flags'
  BY <1>2 DEF MasterTypes, RankTypes, SlotsDiffer, Progress, Flags, mapVars, packVars, rankVars, Used
<1>6. Directories'
  <2>1. ASSUME NEW m \in Names
        PROVE  Len(files'[m]) <= MaxSteps /\ (dir'[m] = 0 => files'[m] = <<>>)
    <3>1. CASE m = n
      BY <1>1, <1>2, <3>1, ConstTypes
    <3>2. CASE m # n
      <4>1. files'[m] = files[m] /\ dir'[m] = dir[m]
        BY <1>1, <1>2, <3>2
      <4> QED BY <4>1 DEF Directories
    <3> QED BY <3>1, <3>2
  <2> QED BY <1>2, <2>1 DEF Directories
<1>7. Owned'
  <2>1. \A m \in Names : \A y \in Drained(m)' : y \in Drained(m) \/ (m = n /\ y = Message(n, files'))
    BY WriteDrained
  <2>2. \A m \in Names : \A y \in Drained(m)' :
            IsInjective(y.samples) /\ \A x \in ToSet(y.samples) : x.run = m
    BY <1>1, <2>1 DEF Owned
  <2> QED BY <1>2, <2>2 DEF Owned, mapVars, packVars, Used
<1>8. Receivers'
  <2>1. transport = "filesystem" => wire' = wire
    BY <1>1
  <2> QED BY <1>2, <2>1 DEF Receivers, mapVars, packVars, Used
<1> QED BY <1>3, <1>4, <1>5, <1>6, <1>7, <1>8

\* A sender that closes keeps the beginning of what it had not sent.
LEMMA CloseParts ==
    ASSUME Basics, NEW n \in Names, Close(n)
    PROVE  /\ lost' \subseteq Names \X (1..MaxSteps)
           /\ wire' \in [Names -> Seq(Messages)]
           /\ \A m \in Names :
                /\ m # n => wire'[m] = wire[m]
                /\ Len(wire'[m]) <= Len(wire[m])
                /\ \A i \in 1..Len(wire'[m]) : i \in 1..Len(wire[m]) /\ wire'[m][i] = wire[m][i]
                /\ Drained(m)' \subseteq Drained(m)
<1>1. wire \in [Names -> Seq(Messages)] /\ wire[n] \in Seq(Messages) /\ Len(wire[n]) \in Nat
  BY DEF Basics, LinkTypes
<1>2. PICK k \in 1..Len(wire[n]) :
          /\ wire' = [wire EXCEPT ![n] = SubSeq(@, 1, k - 1)]
          /\ lost' = lost \cup {<<n, wire[n][i].step>> : i \in k..Len(wire[n])}
  BY DEF Close
<1>3. \A i \in k..Len(wire[n]) : wire[n][i].step \in 1..MaxSteps
  <2>1. \A i \in k..Len(wire[n]) : i \in 1..Len(wire[n]) /\ wire[n][i] \in Messages
    BY <1>1
  <2> QED BY <2>1 DEF Messages
<1>4. lost' \subseteq Names \X (1..MaxSteps)
  BY <1>2, <1>3 DEF Basics, FsTypes
<1> DEFINE p == SubSeq(wire[n], 1, k - 1)
<1>5. p \in Seq(Messages) /\ Len(p) = k - 1 /\ \A i \in 1..Len(p) : i \in 1..Len(wire[n]) /\ p[i] = wire[n][i]
  <2>1. k - 1 \in 0..Len(wire[n])
    BY <1>1
  <2>2. p \in Seq(Messages)
    BY <1>1, <2>1, Split
  <2>3. Len(p) = k - 1 /\ \A i \in 1..(k - 1) : i \in 1..Len(wire[n]) /\ p[i] = wire[n][i]
    BY <1>1, <2>1
  <2> QED BY <2>2, <2>3
<1> HIDE DEF p
<1>6. wire' = [m \in Names |-> IF m = n THEN p ELSE wire[m]]
  BY <1>1, <1>2 DEF p
<1>7. wire' \in [Names -> Seq(Messages)]
  BY <1>1, <1>5, <1>6
<1>8. ASSUME NEW m \in Names
      PROVE  /\ m # n => wire'[m] = wire[m]
             /\ Len(wire'[m]) <= Len(wire[m])
             /\ \A i \in 1..Len(wire'[m]) : i \in 1..Len(wire[m]) /\ wire'[m][i] = wire[m][i]
             /\ Drained(m)' \subseteq Drained(m)
  <2>1. Len(wire[m]) \in Nat
    BY <1>1
  <2>2. /\ m # n => wire'[m] = wire[m]
        /\ Len(wire'[m]) <= Len(wire[m])
        /\ \A i \in 1..Len(wire'[m]) : i \in 1..Len(wire[m]) /\ wire'[m][i] = wire[m][i]
    BY <1>1, <1>5, <1>6, <2>1
  <2>3. /\ ToSet(wire'[m]) = {wire'[m][i] : i \in 1..Len(wire'[m])}
        /\ ToSet(wire[m]) = {wire[m][i] : i \in 1..Len(wire[m])}
    <3>1. wire'[m] \in Seq(Messages) /\ wire[m] \in Seq(Messages)
      BY <1>1, <1>7
    <3> QED BY <3>1, ToSetSeq
  <2>4. pending' = pending
    BY DEF Close
  <2> QED BY <2>2, <2>3, <2>4 DEF Drained
<1> QED BY <1>4, <1>7, <1>8

\* A closing sender only takes away.
LEMMA CloseBasics == ASSUME Basics, NEW n \in Names, Close(n) PROVE Basics'
<1> USE DEF Basics
<1>1. UNCHANGED <<fsVars, transport, pending, pc, slept, mapVars, packVars, rankVars, spoilt, reused>>
  BY DEF Close
<1>2. /\ lost' \subseteq Names \X (1..MaxSteps) /\ wire' \in [Names -> Seq(Messages)]
      /\ \A m \in Names : Drained(m)' \subseteq Drained(m)
  BY CloseParts
<1>3. FsTypes'
  BY <1>1, <1>2 DEF FsTypes, fsVars
<1>4. LinkTypes'
  BY <1>1, <1>2 DEF LinkTypes
<1>5. MasterTypes' /\ RankTypes' /\ SlotsDiffer' /\ Progress' /\ Flags' /\ Directories'
  BY <1>1 DEF MasterTypes, RankTypes, SlotsDiffer, Progress, Flags, Directories, fsVars, mapVars, packVars,
              rankVars, Used
<1>6. Owned'
  <2>1. \A m \in Names : \A y \in Drained(m)' :
            IsInjective(y.samples) /\ \A x \in ToSet(y.samples) : x.run = m
    BY <1>2 DEF Owned
  <2> QED BY <1>1, <2>1 DEF Owned, mapVars, packVars, Used
<1>7. Receivers'
  <2>1. ASSUME transport = "filesystem", NEW m \in Names PROVE wire'[m] = <<>>
    <3>1. wire[m] = <<>> /\ Len(wire'[m]) <= Len(wire[m])
      BY <2>1, CloseParts DEF Receivers
    <3>2. wire'[m] \in Seq(Messages) /\ Len(wire'[m]) <= 0
      BY <1>2, <3>1
    <3> QED BY <3>2
  <2> QED BY <1>1, <2>1 DEF Receivers, mapVars, packVars, Used
<1> QED BY <1>3, <1>4, <1>5, <1>6, <1>7

\* Slots are given to runs that have none.
LEMMA DiscoverBasics ==
    ASSUME Basics, DiscoverRuns, pc \in {"discover", "forget"}, pc' \in {"receive", "pack"},
           UNCHANGED <<fsVars, linkVars, slept, ready, position, selected, rankVars, spoilt, reused>>
    PROVE  Basics'
<1> USE DEF Basics
<1>1. /\ slotOf' \in [Slots -> Names \cup {Free}] /\ progress' \in [Slots -> Nat]
      /\ received' \in [Slots -> 0..(MaxSteps + 1)] /\ buffers' \in [Slots -> Seq(Samples)]
      /\ \A s \in Slots : Keeps(s) \/ Places(s) \/ Leaves(s)
      /\ \A s, t \in Slots : slotOf'[s] = slotOf'[t] /\ slotOf'[s] # Free => s = t
  BY DiscoverParts
<1>2. Used' = {s \in Slots : slotOf'[s] # Free} /\ Used \subseteq Slots
  BY DEF Used
<1>3. ready = {} /\ selected = <<>> /\ ready' = {} /\ selected' = <<>>
  BY DEF Flags
<1>4. FsTypes' /\ LinkTypes' /\ RankTypes' /\ Directories'
  BY DEF FsTypes, LinkTypes, RankTypes, Directories, fsVars, linkVars, rankVars
<1>5. MasterTypes'
  <2>1. slept \in BOOLEAN /\ position \in Slots /\ selected \in Seq(Slots \X Samples)
    BY DEF MasterTypes
  <2> QED BY <1>1, <1>3, <2>1 DEF MasterTypes
<1>6. SlotsDiffer'
  BY <1>1, <1>2 DEF SlotsDiffer
<1>7. \A s \in Used' : Keeps(s) \/ Places(s)
  BY <1>1, <1>2 DEF Leaves
<1>8. \A s \in Slots \ Used' : Leaves(s)
  <2>1. Free \notin Names
    BY ConstTypes
  <2>2. \A s \in Slots \ Used' : ~ Keeps(s) /\ ~ Places(s)
    BY <1>2, <2>1 DEF Keeps, Places, Used, Visible
  <2> QED BY <1>1, <2>2
<1>9. Progress'
  <2>1. \A s \in Used' : progress'[s] # 0
    BY <1>7 DEF Keeps, Places, Progress
  <2>2. \A s \in Slots \ Used' : progress'[s] = 0 /\ received'[s] = 0 /\ buffers'[s] = <<>>
    BY <1>8 DEF Leaves
  <2> QED BY <2>1, <2>2 DEF Progress
<1>10. Flags'
  <2>1. \A s \in Used' : slotOf'[s] \in Visible
    BY <1>7 DEF Keeps, Places
  <2>2. \A s \in Used' : slotOf'[s] \notin evicted'
    BY <2>1 DEF Visible, fsVars
  <2> QED BY <1>3, <2>2 DEF Flags
<1>11. Owned'
  <2>1. \A n \in Names : Drained(n)' = Drained(n)
    BY DEF Drained, linkVars
  <2>2. ToSet(<<>>) = {}
    BY DEF ToSet
  <2>3. \A s \in Slots : \A x \in ToSet(buffers'[s]) : x.run = slotOf'[s]
    BY <1>1, <2>2 DEF Owned, Keeps, Places, Leaves
  <2> QED BY <2>1, <2>3 DEF Owned
<1>12. Receivers'
  <2>1. transport = "zmq" => \A s \in Slots : received'[s] = 0
    BY <1>1 DEF Keeps, Places, Leaves, Receivers
  <2>2. transport = "filesystem" =>
            \A s \in Used' : received'[s] = 0 => progress'[s] = 1 /\ buffers'[s] = <<>>
    BY <1>7 DEF Keeps, Places, Receivers
  <2> QED BY <2>1, <2>2 DEF Receivers, linkVars
<1> QED BY <1>4, <1>5, <1>6, <1>9, <1>10, <1>11, <1>12

\* What receive() leaves when it does not fail.
Receives ==
    /\ \A n \in Names :
        /\ wire'[n] = <<>>
        /\ pending'[n] = IF transport = "zmq" /\ \E s \in Arrivals : slotOf[s] = n
                         THEN Drained(n) \ {Oldest(Drained(n))} ELSE Drained(n)
        /\ Drained(n)' = pending'[n]
    /\ \A s \in Slots :
        /\ received'[s] = IF transport = "zmq" THEN received[s]
                          ELSE IF s \in Arrivals THEN NextStep(s) + 1
                          ELSE IF s \in Used THEN NextStep(s) ELSE 0
        /\ buffers'[s] = IF s \in Arrivals THEN buffers[s] \o ValidPrefix(Arriving(s)) ELSE buffers[s]
    /\ evicted' = evicted \cup {slotOf[s] : s \in {t \in Arrivals : EvictedBy(Arriving(t))}}

\* Receiving fails, or does as Receives says.
LEMMA ReceiveParts ==
    ASSUME Basics, Receive
    PROVE  \/ /\ pc' = "crashed" /\ UNCHANGED <<wire, pending, received, buffers, evicted>>
              /\ \E n \in Names : ~StepsDiffer(Drained(n))
           \/ /\ pc' = "forget" /\ Receives
              /\ wire' \in [Names -> Seq(Messages)] /\ pending' \in [Names -> SUBSET Messages]
              /\ received' \in [Slots -> 0..(MaxSteps + 1)]
              /\ buffers' \in [Slots -> Seq(Samples)] /\ evicted' \subseteq Names
<1> USE DEF Basics
<1>1. CASE \E n \in Names : ~StepsDiffer(Drained(n))
  BY <1>1, Zenon DEF Receive
<1>2. CASE ~ \E n \in Names : ~StepsDiffer(Drained(n))
  <2>1. /\ Kept
        /\ buffers' = [s \in Slots |->
                          IF s \in Arrivals THEN buffers[s] \o ValidPrefix(Arriving(s)) ELSE buffers[s]]
        /\ evicted' = evicted \cup {slotOf[s] : s \in {t \in Arrivals : EvictedBy(Arriving(t))}}
        /\ pc' = "forget"
    BY <1>2, Zenon DEF Receive
  <2>2. \A n \in Names : wire'[n] = <<>>
    BY <2>1 DEF Kept
  <2>3. \A n \in Names : pending'[n] = IF transport = "zmq" /\ \E s \in Arrivals : slotOf[s] = n
                                       THEN Drained(n) \ {Oldest(Drained(n))} ELSE Drained(n)
    <3>1. \A n \in Names : pending'[n] =
              IF n \in {slotOf[s] : s \in Arrivals} /\ transport = "zmq"
              THEN Drained(n) \ {Oldest(Drained(n))} ELSE Drained(n)
      BY <2>1, Zenon DEF Kept
    <3> QED BY <3>1
  <2>4. \A n \in Names : Drained(n)' = pending'[n]
    BY <2>2 DEF Drained, ToSet
  <2>5. \A s \in Slots :
            received'[s] = IF transport = "zmq" THEN received[s]
                           ELSE IF s \in Arrivals THEN NextStep(s) + 1
                           ELSE IF s \in Used THEN NextStep(s) ELSE 0
    BY <2>1 DEF Kept
  <2>6. \A s \in Slots :
            buffers'[s] = IF s \in Arrivals THEN buffers[s] \o ValidPrefix(Arriving(s)) ELSE buffers[s]
    BY <2>1, Zenon
  <2>7. Receives
    BY <2>1, <2>2, <2>3, <2>4, <2>5, <2>6, Zenon DEF Receives
  <2>8. wire' \in [Names -> Seq(Messages)]
    <3>1. <<>> \in Seq(Messages)
      OBVIOUS
    <3> QED BY <2>1, <3>1 DEF Kept
  <2>9. pending' \in [Names -> SUBSET Messages]
    <3>1. \A n \in Names : pending'[n] \in SUBSET Messages
      <4>1. \A n \in Names : Drained(n) \subseteq Messages
        BY DrainedType
      <4> QED BY <2>3, <4>1
    <3>2. pending' = [n \in Names |-> pending'[n]]
      BY <2>1 DEF Kept
    <3> QED BY <3>1, <3>2
  <2>10. received' \in [Slots -> 0..(MaxSteps + 1)]
    <3>1. CASE transport = "zmq"
      BY <2>1, <3>1 DEF Kept, MasterTypes
    <3>2. CASE transport # "zmq"
      <4>1. received' = [s \in Slots |-> IF s \in Arrivals THEN NextStep(s) + 1
                                         ELSE IF s \in Used THEN NextStep(s) ELSE 0]
        BY <2>1, <3>2 DEF Kept
      <4>2. \A s \in Arrivals : NextStep(s) + 1 \in 0..(MaxSteps + 1)
        <5>1. ASSUME NEW s \in Arrivals PROVE NextStep(s) + 1 \in 0..(MaxSteps + 1)
          <6>1. slotOf[s] \in Names /\ NextStep(s) \in 1..Len(files[slotOf[s]])
            BY <3>2, ArrivingParts
          <6>2. NextStep(s) \in 1..MaxSteps
            BY <6>1, WrittenParts
          <6> QED BY <6>2, ConstTypes
        <5> QED BY <5>1
      <4>3. \A s \in Used : NextStep(s) \in 0..(MaxSteps + 1)
        <5>1. ASSUME NEW s \in Used PROVE NextStep(s) \in 0..(MaxSteps + 1)
          <6>1. NextStep(s) \in 1..(MaxSteps + 1)
            BY <3>2, NextStepType
          <6> QED BY <6>1, ConstTypes
        <5> QED BY <5>1
      <4>4. 0 \in 0..(MaxSteps + 1)
        BY ConstTypes
      <4> QED BY <4>1, <4>2, <4>3, <4>4
    <3> QED BY <3>1, <3>2
  <2>11. buffers' \in [Slots -> Seq(Samples)]
    <3>1. \A s \in Arrivals : buffers[s] \o ValidPrefix(Arriving(s)) \in Seq(Samples)
      <4>1. ASSUME NEW s \in Arrivals PROVE buffers[s] \o ValidPrefix(Arriving(s)) \in Seq(Samples)
        <5>1. s \in Slots /\ Arriving(s) \in Seq(Samples)
          BY ArrivingParts
        <5>2. buffers[s] \in Seq(Samples) /\ ValidPrefix(Arriving(s)) \in Seq(Samples)
          BY <5>1, ValidParts DEF MasterTypes
        <5> QED BY <5>2, ConcatProperties
      <4> QED BY <4>1
    <3>2. \A s \in Slots : buffers[s] \in Seq(Samples)
      BY DEF MasterTypes
    <3>3. \A s \in Slots : buffers'[s] \in Seq(Samples)
      BY <2>6, <3>1, <3>2, Zenon
    <3>4. buffers' = [s \in Slots |-> buffers'[s]]
      BY <2>1
    <3> QED BY <3>3, <3>4
  <2>12. evicted' \subseteq Names
    <3>1. \A s \in Arrivals : slotOf[s] \in Names
      BY ArrivingParts
    <3> QED BY <2>1, <3>1 DEF FsTypes
  <2> QED BY <2>1, <2>7, <2>8, <2>9, <2>10, <2>11, <2>12
<1> QED BY <1>1, <1>2

\* A batch goes to the slot of its run.
LEMMA ReceiveBasics == ASSUME Basics, Receive PROVE Basics'
<1> USE DEF Basics
<1>1. pc = "receive" /\ UNCHANGED <<dir, created, files, published, transport, lost, slept, slotOf, progress,
                   ready, position, selected, rankVars, spoilt, reused>>
  BY DEF Receive
<1>2. Directories' /\ RankTypes' /\ SlotsDiffer'
  BY <1>1 DEF Directories, RankTypes, SlotsDiffer, Used, rankVars
<1>3. CASE /\ pc' = "crashed" /\ UNCHANGED <<wire, pending, received, buffers, evicted>>
  <2>1. FsTypes' /\ LinkTypes' /\ MasterTypes' /\ Progress' /\ Receivers'
    BY <1>1, <1>3 DEF FsTypes, LinkTypes, MasterTypes, Progress, Receivers, Used
  <2>2. Flags'
    BY <1>1, <1>3 DEF Flags, Used
  <2>3. Owned'
    BY <1>1, <1>3 DEF Owned, Drained, Used
  <2> QED BY <1>2, <2>1, <2>2, <2>3
<1>4. CASE /\ pc' = "forget" /\ Receives
           /\ wire' \in [Names -> Seq(Messages)] /\ pending' \in [Names -> SUBSET Messages]
           /\ received' \in [Slots -> 0..(MaxSteps + 1)]
           /\ buffers' \in [Slots -> Seq(Samples)] /\ evicted' \subseteq Names
  <2>1. FsTypes' /\ LinkTypes'
    BY <1>1, <1>4 DEF FsTypes, LinkTypes
  <2>2. MasterTypes'
    BY <1>1, <1>4 DEF MasterTypes, Used
  <2>3. Arrivals \subseteq Used /\ Used \subseteq Slots
    BY DEF Arrivals, Used
  <2>4. Progress'
    <3>1. \A s \in Slots \ Used : received'[s] = 0 /\ buffers'[s] = buffers[s]
      BY <1>4, <2>3 DEF Receives, Progress
    <3> QED BY <1>1, <3>1 DEF Progress, Used
  <2>5. Flags'
    BY <1>1, <1>4 DEF Flags
  <2>6. Owned'
    <3>1. \A n \in Names : Drained(n)' \subseteq Drained(n)
      BY <1>4 DEF Receives
    <3>2. \A n \in Names : \A m \in Drained(n)' :
              IsInjective(m.samples) /\ \A x \in ToSet(m.samples) : x.run = n
      BY <3>1 DEF Owned
    <3>3. ASSUME NEW s \in Slots, NEW x \in ToSet(buffers'[s]) PROVE x.run = slotOf[s]
      <4>1. CASE s \in Arrivals
        <5>1. Arriving(s) \in Seq(Samples) /\ \A y \in ToSet(Arriving(s)) : y.run = slotOf[s]
          BY <4>1, ArrivingParts
        <5>2. buffers[s] \in Seq(Samples) /\ ValidPrefix(Arriving(s)) \in Seq(Samples)
              /\ ToSet(ValidPrefix(Arriving(s))) \subseteq ToSet(Arriving(s))
          BY <5>1, ValidParts DEF MasterTypes
        <5>3. buffers'[s] = buffers[s] \o ValidPrefix(Arriving(s))
          BY <1>4, <4>1 DEF Receives
        <5>4. ToSet(buffers'[s]) = ToSet(buffers[s]) \cup ToSet(ValidPrefix(Arriving(s)))
          BY <5>2, <5>3, ToSetConcat
        <5> QED BY <3>3, <5>1, <5>2, <5>4 DEF Owned
      <4>2. CASE s \notin Arrivals
        <5>1. buffers'[s] = buffers[s]
          BY <1>4, <4>2 DEF Receives
        <5> QED BY <3>3, <5>1 DEF Owned
      <4> QED BY <4>1, <4>2
    <3> QED BY <1>1, <1>4, <3>2, <3>3 DEF Owned
  <2>7. Receivers'
    <3>1. transport = "zmq" => \A s \in Slots : received'[s] = 0
      BY <1>4 DEF Receives, Receivers
    <3>2. ASSUME transport = "filesystem", NEW n \in Names PROVE wire'[n] = <<>> /\ pending'[n] = {}
      <4>1. wire[n] = <<>> /\ pending[n] = {}
        BY <3>2 DEF Receivers
      <4>2. Drained(n) = {}
        BY <4>1 DEF Drained, ToSet
      <4> QED BY <1>4, <3>2, <4>2 DEF Receives
    <3>3. ASSUME transport = "filesystem", NEW s \in Used PROVE received'[s] # 0
      <4>1. NextStep(s) \in 1..(MaxSteps + 1)
        BY <3>3, NextStepType
      <4>2. received'[s] \in {NextStep(s) + 1, NextStep(s)}
        BY <1>4, <2>3, <3>3 DEF Receives
      <4> QED BY <4>1, <4>2, ConstTypes
    <3> QED BY <1>1, <3>1, <3>2, <3>3 DEF Receivers, Used
  <2> QED BY <1>2, <2>1, <2>2, <2>4, <2>5, <2>6, <2>7
<1> QED BY <1>3, <1>4, ReceiveParts

\* Sleeping changes a flag.
LEMMA SleepBasics == ASSUME Basics, Sleep PROVE Basics'
<1> USE DEF Basics
<1>1. /\ pc = "pack" /\ slept' = TRUE /\ pc' = "discover"
      /\ UNCHANGED <<fsVars, linkVars, mapVars, packVars, rankVars, spoilt, reused>>
  BY DEF Sleep
<1>2. FsTypes' /\ LinkTypes' /\ RankTypes' /\ Directories' /\ SlotsDiffer' /\ Progress' /\ Receivers'
  BY <1>1 DEF FsTypes, LinkTypes, RankTypes, Directories, SlotsDiffer, Progress, Receivers, Used,
              fsVars, linkVars, mapVars, packVars, rankVars
<1>3. MasterTypes' /\ Flags' /\ Owned'
  BY <1>1 DEF MasterTypes, Flags, Owned, Drained, Used, fsVars, linkVars, mapVars, packVars, rankVars
<1> QED BY <1>2, <1>3

\* Samples move from the buffers to the batch.
LEMMA PackBasics == ASSUME Basics, Pack PROVE Basics'
<1> USE DEF Basics
<1>1. /\ pc = "pack" /\ slept' = FALSE
      /\ UNCHANGED <<fsVars, linkVars, slotOf, received, rankVars, spoilt, reused>>
  BY DEF Pack
<1>2. /\ selected' \in Seq(Slots \X Samples) /\ position' \in Slots
      /\ buffers' \in [Slots -> Seq(Samples)]
  BY PackParts
<1>3. PICK cnt : /\ Packs(cnt)
                 /\ IF SingleStep(selected') THEN pc' = "train" /\ Advances(cnt)
                    ELSE pc' = "crashed" /\ UNCHANGED <<progress, ready>>
  BY PackParts
<1>4. FsTypes' /\ LinkTypes' /\ RankTypes' /\ Directories' /\ SlotsDiffer'
  BY <1>1 DEF FsTypes, LinkTypes, RankTypes, Directories, SlotsDiffer, Used, fsVars, linkVars, rankVars
<1>5. \A s \in Slots :
          /\ buffers[s] \in Seq(Samples) /\ cnt[s] \in 0..Len(buffers[s])
          /\ buffers'[s] = SubSeq(buffers[s], cnt[s] + 1, Len(buffers[s]))
  BY <1>3 DEF Packs, MasterTypes
<1>6. \A s \in Slots \ Used : buffers[s] = <<>> /\ cnt[s] = 0 /\ buffers'[s] = <<>> /\ progress[s] = 0
  <2>1. ASSUME NEW s \in Slots \ Used PROVE buffers[s] = <<>> /\ cnt[s] = 0 /\ buffers'[s] = <<>>
    <3>1. buffers[s] = <<>> /\ Len(<<>>) = 0
      BY DEF Progress
    <3>2. cnt[s] = 0 /\ buffers'[s] = SubSeq(<<>>, 1, 0)
      BY <1>5, <3>1
    <3>3. SubSeq(<<>>, 1, 0) = <<>>
      BY SubSeqEmpty
    <3> QED BY <3>1, <3>2, <3>3
  <2> QED BY <2>1 DEF Progress
<1>7. pc' = "train" => Finished(cnt) \subseteq Used
  <2>1. \A s \in Finished(cnt) : s \in Slots /\ cnt[s] > 0
    BY DEF Finished
  <2> QED BY <1>6, <2>1
<1>8. progress' \in [Slots -> Nat] /\ ready' \subseteq Used /\ pc' \in {"train", "crashed"}
      /\ \A s \in Slots : progress'[s] = progress[s] \/ (s \in Used /\ progress'[s] = progress[s] + 1)
  <2>1. progress \in [Slots -> Nat] /\ ready \subseteq Used
    BY DEF MasterTypes
  <2>2. CASE SingleStep(selected')
    <3>1. pc' = "train" /\ Advances(cnt)
      BY <1>3, <2>2
    <3> QED BY <1>7, <2>1, <3>1 DEF Advances
  <2>3. CASE ~ SingleStep(selected')
    BY <1>3, <2>1, <2>3
  <2> QED BY <2>2, <2>3
<1>9. MasterTypes'
  BY <1>1, <1>2, <1>8 DEF MasterTypes, Used
<1>10. Progress'
  <2>1. \A s \in Used : progress'[s] # 0
    BY <1>8 DEF MasterTypes, Progress, Used
  <2>2. \A s \in Slots \ Used : progress'[s] = 0 /\ buffers'[s] = <<>>
    BY <1>6, <1>8
  <2> QED BY <1>1, <2>1, <2>2 DEF Progress, Used
<1>11. Flags'
  BY <1>1, <1>8 DEF Flags, Used, fsVars, rankVars
<1>12. Owned'
  <2>1. \A n \in Names : Drained(n)' = Drained(n)
    BY <1>1 DEF Drained, linkVars
  <2>2. \A s \in Slots : ToSet(buffers'[s]) \subseteq ToSet(buffers[s])
    <3>1. ASSUME NEW s \in Slots PROVE ToSet(buffers'[s]) \subseteq ToSet(buffers[s])
      <4>1. RestOf(buffers'[s], buffers[s], cnt[s], Samples)
        BY <1>5, RestParts, Zenon
      <4> QED BY <4>1 DEF RestOf
    <3> QED BY <3>1
  <2>3. ASSUME NEW x \in ToSet(selected') PROVE x[1] \in Used /\ x[2].run = slotOf[x[1]]
    <3>1. x[1] \in Slots /\ \E i \in 1..cnt[x[1]] : x[2] = buffers[x[1]][i]
      BY <1>3 DEF Packs
    <3>2. PICK i \in 1..cnt[x[1]] : x[2] = buffers[x[1]][i]
      BY <3>1
    <3>3. i \in 1..Len(buffers[x[1]]) /\ cnt[x[1]] # 0
      BY <1>5, <3>1
    <3>4. x[2] \in ToSet(buffers[x[1]])
      BY <1>5, <3>1, <3>2, <3>3, ToSetSeq
    <3> QED BY <1>6, <3>1, <3>3, <3>4 DEF Owned
  <2> QED BY <1>1, <2>1, <2>2, <2>3 DEF Owned, Used
<1>13. Receivers'
  <2>1. ASSUME transport = "filesystem", NEW s \in Used, received[s] = 0
        PROVE  progress'[s] = 1 /\ buffers'[s] = <<>>
    <3>1. progress[s] = 1 /\ buffers[s] = <<>> /\ Len(<<>>) = 0 /\ s \in Slots
      BY <2>1 DEF Receivers, Used
    <3>2. cnt[s] = 0 /\ buffers'[s] = SubSeq(<<>>, 1, 0)
      BY <1>5, <3>1
    <3>3. buffers'[s] = <<>>
      BY <3>2, SubSeqEmpty
    <3>4. s \notin Finished(cnt)
      BY <3>2 DEF Finished
    <3>5. progress'[s] = progress[s]
      <4>1. CASE SingleStep(selected')
        BY <1>3, <3>1, <3>4, <4>1 DEF Advances
      <4>2. CASE ~ SingleStep(selected')
        BY <1>3, <4>2
      <4> QED BY <4>1, <4>2
    <3> QED BY <3>1, <3>3, <3>5
  <2> QED BY <1>1, <2>1 DEF Receivers, Used, linkVars
<1> QED BY <1>4, <1>9, <1>10, <1>11, <1>12, <1>13

\* The samples in training are those that pack() selected.
LEMMA TrainingParts ==
    ASSUME Basics, pc = "train", NEW s \in Slots
    PROVE  /\ {x[2] : x \in ToSet(Taken(selected, s))} \subseteq Samples
           /\ \A y \in {x[2] : x \in ToSet(Taken(selected, s))} :
                  s \in Used /\ y.run = slotOf[s] /\ <<s, y>> \in ToSet(selected)
           /\ \A x \in ToSet(selected) : x[1] = s => x[2] \in {z[2] : z \in ToSet(Taken(selected, s))}
<1>1. selected \in Seq(Slots \X Samples)
  BY DEF Basics, MasterTypes
<1>2. ToSet(Taken(selected, s)) = ToSet(selected) \cap ({s} \X Samples)
  BY <1>1, SelectedContent DEF Taken
<1>3. \A x \in ToSet(selected) : x \in Slots \X Samples
  BY <1>1, ToSetSeq
<1>4. \A x \in ToSet(Taken(selected, s)) :
          x \in ToSet(selected) /\ x[1] = s /\ x[2] \in Samples /\ x = <<s, x[2]>>
  BY <1>2
<1>5. \A x \in ToSet(selected) : x[1] = s => x \in ToSet(Taken(selected, s))
  BY <1>2, <1>3
<1>6. \A x \in ToSet(selected) : x[1] \in Used /\ x[2].run = slotOf[x[1]]
  BY DEF Basics, Owned
<1> QED BY <1>4, <1>5, <1>6

\* ... and from there to the adapters.
LEMMA TrainBasics == ASSUME Basics, TrainStep PROVE Basics'
<1> USE DEF Basics
<1>1. pc = "train" /\ UNCHANGED <<fsVars, linkVars, slept, mapVars, packVars, spoilt, reused>>
  BY DEF TrainStep
<1>2. \/ /\ rankSlot' = Moved(rankSlot, slotOf)
         /\ adapter' = [s \in Slots |->
                           {x[2] : x \in ToSet(Taken(selected, s))} \cup
                           IF s \in Resets(lastSynced, slotOf) THEN {} ELSE adapter[s]]
         /\ lastSynced' = slotOf /\ pc' = "broadcast"
      \/ pc' = "crashed" /\ UNCHANGED rankVars
  BY Zenon DEF TrainStep
<1>3. \A s \in Slots : adapter'[s] \subseteq {x[2] : x \in ToSet(Taken(selected, s))} \cup adapter[s]
  <2>1. CASE UNCHANGED rankVars
    BY <2>1 DEF rankVars
  <2>2. CASE adapter' = [s \in Slots |->
                           {x[2] : x \in ToSet(Taken(selected, s))} \cup
                           IF s \in Resets(lastSynced, slotOf) THEN {} ELSE adapter[s]]
    BY <2>2
  <2> QED BY <1>2, <2>1, <2>2
<1>4. FsTypes' /\ LinkTypes' /\ SlotsDiffer' /\ Progress' /\ Receivers' /\ MasterTypes'
  BY <1>1, <1>2 DEF FsTypes, LinkTypes, SlotsDiffer, Progress, Receivers, MasterTypes, Used,
              fsVars, linkVars, mapVars, packVars
<1>5. \A s \in Slots : adapter'[s] \subseteq Samples
  BY <1>1, <1>3, TrainingParts DEF RankTypes
<1>6. RankTypes'
  <2>1. CASE UNCHANGED rankVars
    BY <2>1 DEF RankTypes, rankVars
  <2>2. CASE /\ rankSlot' = Moved(rankSlot, slotOf)
             /\ adapter' = [s \in Slots |->
                           {x[2] : x \in ToSet(Taken(selected, s))} \cup
                           IF s \in Resets(lastSynced, slotOf) THEN {} ELSE adapter[s]]
             /\ lastSynced' = slotOf
    <3>1. slotOf \in [Slots -> Names \cup {Free}] /\ rankSlot \in [Slots -> Names \cup {Free}]
      BY DEF MasterTypes, RankTypes
    <3>2. rankSlot' \in [Slots -> Names \cup {Free}]
      BY <2>2, <3>1 DEF Moved
    <3>3. adapter' \in [Slots -> SUBSET Samples]
      BY <1>5, <2>2
    <3> QED BY <2>2, <3>1, <3>2, <3>3 DEF RankTypes
  <2> QED BY <1>2, <2>1, <2>2
<1>7. Directories'
  BY <1>1 DEF Directories, fsVars
<1>8. Flags'
  BY <1>1, <1>2 DEF Flags, Used, fsVars, mapVars, packVars
<1>9. Owned'
  BY <1>1, <1>2 DEF Owned, Drained, Used, linkVars, mapVars, packVars
<1> QED BY <1>4, <1>6, <1>7, <1>8, <1>9

\* A broadcast takes the step before the current one.
LEMMA BroadcastBasics == ASSUME Basics, Broadcast PROVE Basics'
<1> USE DEF Basics
<1>1. /\ pc = "broadcast" /\ pc' = "discover" /\ ready' = {} /\ selected' = <<>>
      /\ UNCHANGED <<dir, created, evicted, files, linkVars, slept, mapVars, buffers,
                     position, rankVars, reused>>
  BY DEF Broadcast
<1>2. /\ ready \subseteq Used /\ Used \subseteq Slots
      /\ \A s \in Used : slotOf[s] \in Names
      /\ \A s \in Used : PublishedStep(s) \in Nat
  <2>1. \A s \in Used : progress[s] \in Nat /\ progress[s] # 0
    BY DEF MasterTypes, Progress, Used
  <2> QED BY <2>1 DEF MasterTypes, Used, PublishedStep
<1>3. published' \in [Names -> SUBSET Nat]
  <2> DEFINE steps(n) == {PublishedStep(s) : s \in {t \in ready : slotOf[t] = n /\ dir[slotOf[t]] # 0}}
  <2>1. published' = [n \in Names |-> published[n] \cup steps(n)]
    BY Zenon DEF Broadcast
  <2>2. \A n \in Names : steps(n) \subseteq Nat
    BY <1>2
  <2>3. \A n \in Names : published[n] \subseteq Nat
    BY DEF FsTypes
  <2> HIDE DEF steps
  <2> QED BY <2>1, <2>2, <2>3
<1>4. spoilt' \subseteq Names
  <2> DEFINE bad == {slotOf[s] : s \in {t \in ready :
                       dir[slotOf[t]] # 0 /\ adapter[t] # UpTo(slotOf[t], PublishedStep(t))}}
  <2>1. spoilt' = spoilt \cup bad
    BY Zenon DEF Broadcast
  <2>2. bad \subseteq Names
    BY <1>2
  <2> HIDE DEF bad
  <2> QED BY <2>1, <2>2 DEF FsTypes
<1>5. FsTypes'
  BY <1>1, <1>3, <1>4 DEF FsTypes, linkVars
<1>6. LinkTypes' /\ RankTypes' /\ Directories' /\ SlotsDiffer' /\ Progress' /\ Receivers'
  BY <1>1 DEF LinkTypes, RankTypes, Directories, SlotsDiffer, Progress, Receivers, Used,
              linkVars, mapVars, rankVars
<1>7. MasterTypes'
  <2>1. <<>> \in Seq(Slots \X Samples)
    OBVIOUS
  <2> QED BY <1>1, <2>1 DEF MasterTypes, mapVars
<1>8. Flags' /\ Owned'
  BY <1>1 DEF Flags, Owned, Drained, Used, linkVars, mapVars
<1> QED BY <1>5, <1>6, <1>7, <1>8

\* Every step preserves the basics.
LEMMA NextBasics == ASSUME Basics, [Next]_vars PROVE Basics'
<1>1. CASE UNCHANGED vars
  <2>1. UNCHANGED <<fsVars, linkVars, pc, slept, mapVars, packVars, rankVars, spoilt, reused>>
    BY <1>1 DEF vars
  <2>2. FsTypes' /\ LinkTypes' /\ RankTypes' /\ Directories' /\ SlotsDiffer' /\ Progress' /\ Receivers'
    BY <2>1 DEF Basics, FsTypes, LinkTypes, RankTypes, Directories, SlotsDiffer, Progress, Receivers, Used,
                fsVars, linkVars, mapVars, packVars, rankVars
  <2>3. MasterTypes' /\ Flags' /\ Owned'
    BY <2>1 DEF Basics, MasterTypes, Flags, Owned, Drained, Used, fsVars, linkVars, mapVars, packVars, rankVars
  <2> QED BY <2>2, <2>3 DEF Basics
<1>2. CASE \E n \in Names : CreateRun(n) \/ DeleteRun(n) \/ Write(n) \/ Close(n)
  BY <1>2, CreateBasics, DeleteBasics, WriteBasics, CloseBasics
<1>3. CASE Discover \/ Forget
  <2>1. /\ DiscoverRuns /\ pc \in {"discover", "forget"} /\ pc' \in {"receive", "pack"}
        /\ UNCHANGED <<fsVars, linkVars, slept, ready, position, selected, rankVars, spoilt, reused>>
    BY <1>3 DEF Discover, Forget
  <2> QED BY <2>1, DiscoverBasics
<1>4. CASE Receive \/ Sleep \/ Pack \/ TrainStep \/ Broadcast
  BY <1>4, ReceiveBasics, SleepBasics, PackBasics, TrainBasics, BroadcastBasics
<1> QED BY <1>1, <1>2, <1>3, <1>4 DEF Next, Master

-----------------------------------------------------------------------------
(* Mappings that are late                                                  *)

\* Nobody is late at first.
LEMMA InitLate == Init => Late(rankSlot) /\ Late(lastSynced)
<1> SUFFICES ASSUME Init PROVE Late(rankSlot) /\ Late(lastSynced)
  OBVIOUS
<1>1. \A s \in Slots : slotOf[s] = Free /\ lastSynced[s] = Free /\ rankSlot[s] = Free
  BY DEF Init
<1>2. Free \notin Sound
  BY ConstTypes DEF Sound
<1> QED BY <1>1, <1>2 DEF Late, Held

\* A mapping that stays is late whatever is discovered, and whatever else
\* leaves the slots alone and makes no run visible that it might still hold.
LEMMA DiscoverLate ==
    ASSUME Basics, DiscoverRuns, UNCHANGED <<dir, evicted, reused>>,
           NEW old \in [Slots -> Names \cup {Free}], Late(old)
    PROVE  /\ \A s, t \in Slots : old[s] = slotOf'[t] /\ old[s] \in Sound' => s = t
           /\ \A n \in Sound' : n \in Held(old) \ Held(slotOf') => n \notin Visible'
<1>1. /\ \A s \in Slots : Keeps(s) \/ Places(s) \/ Leaves(s)
      /\ \A s \in Used : slotOf[s] \in Visible => Keeps(s)
  BY DiscoverParts DEF Basics
<1>2. Sound' = Sound /\ Visible' = Visible /\ Free \notin Sound
  BY ConstTypes DEF Sound, Visible
<1>3. ASSUME NEW s \in Slots, NEW t \in Slots, old[s] = slotOf'[t], old[s] \in Sound
      PROVE  s = t
  <2>1. CASE Keeps(t)
    BY <1>3, <2>1 DEF Late, Keeps
  <2>2. CASE Places(t)
    <3>1. old[s] \in Held(old) \ Held(slotOf) /\ old[s] \in Visible
      BY <1>2, <1>3, <2>2 DEF Places, Held
    <3> QED BY <1>3, <3>1 DEF Late
  <2>3. CASE Leaves(t)
    BY <1>2, <1>3, <2>3 DEF Leaves
  <2> QED BY <1>1, <2>1, <2>2, <2>3
<1>4. ASSUME NEW n \in Sound, n \in Held(old) \ Held(slotOf'), n \in Visible
      PROVE  FALSE
  <2>1. CASE n \in Held(slotOf)
    <3>1. PICK s \in Slots : slotOf[s] = n /\ s \in Used
      BY <2>1 DEF Held, Used
    <3>2. slotOf'[s] = n /\ n # Free
      BY <1>1, <1>2, <1>4, <3>1 DEF Keeps
    <3> QED BY <1>4, <3>2 DEF Held
  <2>2. CASE n \notin Held(slotOf)
    BY <1>4, <2>2 DEF Late
  <2> QED BY <2>1, <2>2
<1> QED BY <1>2, <1>3, <1>4

\* A step that gives no slots away makes nobody later than they were.
LEMMA QuietLate ==
    ASSUME NEW old, Late(old), slotOf' = slotOf, reused \subseteq reused',
           \A n \in Sound' : n \in Held(old) \ Held(slotOf) /\ n \in Visible' => n \in Visible
    PROVE  /\ \A s, t \in Slots : old[s] = slotOf'[t] /\ old[s] \in Sound' => s = t
           /\ \A n \in Sound' : n \in Held(old) \ Held(slotOf') => n \notin Visible'
<1>1. Sound' \subseteq Sound
  BY DEF Sound
<1> QED BY <1>1 DEF Late

\* Every step keeps both mappings late at most.
LEMMA NextLate ==
    ASSUME Basics, Late(rankSlot), Late(lastSynced), [Next]_vars
    PROVE  Late(rankSlot)' /\ Late(lastSynced)'
<1>0. rankSlot \in [Slots -> Names \cup {Free}] /\ lastSynced \in [Slots -> Names \cup {Free}]
      /\ slotOf \in [Slots -> Names \cup {Free}] /\ Free \notin Names
  BY ConstTypes DEF Basics, RankTypes, MasterTypes
<1>1. ASSUME DiscoverRuns, UNCHANGED <<dir, evicted, reused, rankVars>>
      PROVE  Late(rankSlot)' /\ Late(lastSynced)'
  <2>1. UNCHANGED <<lastSynced, rankSlot>>
    BY <1>1 DEF rankVars
  <2>2. Late(rankSlot)'
    BY <1>0, <1>1, <2>1, DiscoverLate DEF Late, Held
  <2>3. Late(lastSynced)'
    BY <1>0, <1>1, <2>1, DiscoverLate DEF Late, Held
  <2> QED BY <2>2, <2>3
<1>2. ASSUME UNCHANGED <<slotOf, rankVars>>, reused \subseteq reused',
             \A n \in Sound' : n \in (Held(lastSynced) \cup Held(rankSlot)) \ Held(slotOf)
                               /\ n \in Visible' => n \in Visible
      PROVE  Late(rankSlot)' /\ Late(lastSynced)'
  <2>1. UNCHANGED <<lastSynced, rankSlot>> /\ slotOf' = slotOf
    BY <1>2 DEF rankVars
  <2>2. Late(rankSlot)'
    BY <1>2, <2>1, QuietLate DEF Late, Held
  <2>3. Late(lastSynced)'
    BY <1>2, <2>1, QuietLate DEF Late, Held
  <2> QED BY <2>2, <2>3
<1>3. CASE UNCHANGED vars
  BY <1>2, <1>3 DEF vars, fsVars, linkVars, mapVars, packVars, Visible
<1>4. ASSUME NEW n \in Names, CreateRun(n) PROVE Late(rankSlot)' /\ Late(lastSynced)'
  <2>1. /\ dir' = [dir EXCEPT ![n] = created'] /\ UNCHANGED <<evicted, mapVars, rankVars>>
        /\ reused \subseteq reused'
        /\ n \in Held(lastSynced) \cup Held(rankSlot) => n \in reused'
    BY <1>4 DEF CreateRun
  <2>2. \A m \in Names : m # n /\ m \in Visible' => m \in Visible
    BY <2>1 DEF Visible, Basics, FsTypes
  <2>3. \A m \in Sound' : m \in Held(lastSynced) \cup Held(rankSlot) => m # n /\ m \in Names
    BY <2>1 DEF Sound
  <2> QED BY <1>2, <2>1, <2>2, <2>3 DEF mapVars
<1>5. ASSUME NEW n \in Names, DeleteRun(n) PROVE Late(rankSlot)' /\ Late(lastSynced)'
  <2>1. /\ dir' = [dir EXCEPT ![n] = 0] /\ UNCHANGED <<mapVars, rankVars, reused>>
        /\ evicted' = evicted \ {n}
    BY <1>5 DEF DeleteRun
  <2>2. Visible' \subseteq Visible
    BY <2>1 DEF Visible, Basics, FsTypes
  <2> QED BY <1>2, <2>1, <2>2 DEF mapVars
<1>6. ASSUME NEW n \in Names, Write(n) \/ Close(n) PROVE Late(rankSlot)' /\ Late(lastSynced)'
  <2>1. UNCHANGED <<dir, evicted, mapVars, rankVars, reused>>
    BY <1>6 DEF Write, Close, fsVars
  <2> QED BY <1>2, <2>1 DEF mapVars, Visible
<1>7. CASE Discover \/ Forget
  <2>1. DiscoverRuns /\ UNCHANGED <<fsVars, rankVars, reused>>
    BY <1>7 DEF Discover, Forget
  <2> QED BY <1>1, <2>1 DEF fsVars
<1>8. CASE Receive
  <2>1. UNCHANGED <<dir, slotOf, rankVars, reused>> /\ evicted \subseteq evicted'
    BY <1>8, ReceiveParts DEF Receive, Receives
  <2> QED BY <1>2, <2>1 DEF Visible
<1>9. CASE Sleep \/ Pack \/ Broadcast
  <2>1. UNCHANGED <<dir, evicted, slotOf, rankVars, reused>>
    BY <1>9 DEF Sleep, Pack, Broadcast, fsVars, mapVars
  <2> QED BY <1>2, <2>1 DEF Visible
<1>10. CASE TrainStep
  <2>1. pc = "train" /\ UNCHANGED <<fsVars, mapVars, reused>>
    BY <1>10 DEF TrainStep
  <2>2. CASE UNCHANGED rankVars
    BY <1>2, <2>1, <2>2 DEF fsVars, mapVars, Visible
  <2>3. CASE rankSlot' = Moved(rankSlot, slotOf) /\ lastSynced' = slotOf
    <3>1. slotOf' = slotOf /\ Sound' = Sound /\ Free \notin Sound
      BY <1>0, <2>1 DEF mapVars, Sound
    <3>2. \A s, t \in Slots : slotOf[s] = slotOf[t] /\ slotOf[s] \in Sound => s = t
      BY <3>1 DEF Basics, SlotsDiffer, Used
    <3>3. Late(lastSynced)'
      BY <2>3, <3>1, <3>2 DEF Late, Held
    <3>4. \A s \in Slots : \/ rankSlot'[s] = slotOf[s]
                           \/ rankSlot'[s] = Free
                           \/ rankSlot'[s] = rankSlot[s] /\ rankSlot[s] \in Held(slotOf)
      BY <1>0, <2>3 DEF Moved, TakenBy, FreedBy, Held
    <3>5. \A s, t \in Slots : rankSlot'[s] = slotOf'[t] /\ rankSlot'[s] \in Sound' => s = t
      BY <3>1, <3>2, <3>4 DEF Late
    <3>6. Held(rankSlot') \subseteq Held(slotOf')
      BY <3>1, <3>4 DEF Held
    <3> QED BY <3>3, <3>5, <3>6 DEF Late
  <2> QED BY <1>10, <2>2, <2>3, Zenon DEF TrainStep
<1> QED BY <1>3, <1>4, <1>5, <1>6, <1>7, <1>8, <1>9, <1>10 DEF Next, Master

\* While no name is created again too early, a rank that is late can follow the
\* master, and then has the same runs in the same slots.
LEMMA LateFollows ==
    ASSUME Basics, Late(rankSlot), reused = {}
    PROVE  Follows(rankSlot, slotOf) /\ Moved(rankSlot, slotOf) = slotOf
<1>1. /\ rankSlot \in [Slots -> Names \cup {Free}] /\ slotOf \in [Slots -> Names \cup {Free}]
      /\ Free \notin Names
  BY ConstTypes DEF Basics, RankTypes, MasterTypes
<1>2. \A s, t \in Slots : rankSlot[s] = slotOf[t] /\ slotOf[t] # Free => s = t
  BY <1>1 DEF Late, Sound
<1>3. ASSUME NEW s \in TakenBy(rankSlot, slotOf)
      PROVE  rankSlot[s] = Free \/ s \in FreedBy(rankSlot, slotOf)
  <2>1. s \in Slots /\ slotOf[s] # Free /\ slotOf[s] \notin Held(rankSlot)
    BY DEF TakenBy, Held
  <2>2. rankSlot[s] # Free => rankSlot[s] \notin Held(slotOf)
    BY <1>2, <2>1 DEF Held
  <2> QED BY <2>1, <2>2 DEF FreedBy, Held
<1>4. ASSUME NEW s \in Slots PROVE Moved(rankSlot, slotOf)[s] = slotOf[s]
  <2>1. CASE s \in TakenBy(rankSlot, slotOf)
    BY <2>1 DEF Moved
  <2>2. CASE s \notin TakenBy(rankSlot, slotOf)
    <3>1. slotOf[s] # Free => rankSlot[s] = slotOf[s]
      BY <1>2, <2>2 DEF TakenBy, Held
    <3>2. CASE s \in FreedBy(rankSlot, slotOf)
      <4>1. Moved(rankSlot, slotOf)[s] = Free
        BY <2>2, <3>2 DEF Moved
      <4>2. slotOf[s] = Free
        BY <3>1, <3>2 DEF FreedBy, Held
      <4> QED BY <4>1, <4>2
    <3>3. CASE s \notin FreedBy(rankSlot, slotOf)
      <4>1. Moved(rankSlot, slotOf)[s] = rankSlot[s]
        BY <2>2, <3>3 DEF Moved
      <4>2. CASE slotOf[s] = Free
        <5>1. rankSlot[s] = Free
          BY <1>2, <3>3, <4>2 DEF FreedBy, Held
        <5> QED BY <4>1, <4>2, <5>1
      <4> QED BY <3>1, <4>1, <4>2
    <3> QED BY <3>2, <3>3
  <2> QED BY <2>1, <2>2
<1>5. Moved(rankSlot, slotOf) = slotOf
  <2>1. Moved(rankSlot, slotOf) = [s \in Slots |-> Moved(rankSlot, slotOf)[s]]
    BY Zenon DEF Moved
  <2>2. slotOf = [s \in Slots |-> slotOf[s]]
    BY <1>1
  <2> QED BY <1>4, <2>1, <2>2
<1> QED BY <1>3, <1>5 DEF Follows

-----------------------------------------------------------------------------
(* What a slot was given                                                   *)

\* The part of the state that a run's directory and its link are.
SameRun(n) ==
    /\ wire'[n] = wire[n] /\ pending'[n] = pending[n] /\ transport' = transport
    /\ dir'[n] = dir[n] /\ files'[n] = files[n]

\* What depends on the directory and its link alone.
LEMMA RunSame ==
    ASSUME NEW n, SameRun(n)
    PROVE  /\ Drained(n)' = Drained(n)
           /\ \A j : SamplesOf(n, j)' = SamplesOf(n, j)
           /\ \A k : UpTo(n, k)' = UpTo(n, k)
           /\ \A k : Closed(n, k) => Closed(n, k)'
           /\ Link(n) => Link(n)'
<1>1. Drained(n)' = Drained(n)
  BY DEF SameRun, Drained
<1>2. \A j : SamplesOf(n, j)' = SamplesOf(n, j)
  BY DEF SameRun, SamplesOf, SamplesIn
<1>3. \A k : UpTo(n, k)' = UpTo(n, k)
  BY <1>2 DEF SameRun, UpTo
<1>4. \A k : Closed(n, k) => Closed(n, k)'
  BY <1>1 DEF SameRun, Closed
<1>5. Link(n) => Link(n)'
  BY <1>1, <1>2 DEF SameRun, Link
<1> QED BY <1>1, <1>2, <1>3, <1>4, <1>5

\* The part that the master and the ranks keep of a slot.
SameSlot(s) ==
    /\ transport' = transport /\ slotOf'[s] = slotOf[s]
    /\ progress'[s] = progress[s] /\ received'[s] = received[s] /\ buffers'[s] = buffers[s]
    /\ ready' \subseteq ready /\ UNCHANGED rankVars
    /\ Training(s)' = Training(s)

\* What depends on the slot alone.
LEMMA SlotSame ==
    ASSUME NEW s, SameSlot(s)
    PROVE  /\ Fed(s)' = Fed(s) /\ Given(s)' = Given(s)
           /\ Queue(s) => Queue(s)'
           /\ Once(s) => Once(s)'
           /\ \A k : Asks(s, k) => Asks(s, k)'
           /\ \A n, g : Unknown(n, g, s) => Unknown(n, g, s)'
<1>1. UNCHANGED <<lastSynced, adapter>>
  BY DEF SameSlot, rankVars
<1>2. Synced(s)' = Synced(s)
  BY <1>1 DEF SameSlot, Synced
<1>3. Fed(s)' = Fed(s)
  BY <1>2 DEF SameSlot, Fed
<1>4. Given(s)' = Given(s)
  BY <1>3 DEF SameSlot, Given
<1>5. Queue(s) => Queue(s)'
  BY DEF SameSlot, Queue
<1>6. Once(s) => Once(s)'
  BY <1>2, <1>3 DEF SameSlot, Once
<1>7. \A k : Asks(s, k) => Asks(s, k)'
  BY DEF SameSlot, Asks, NextStep
<1>8. \A n, g : Unknown(n, g, s) => Unknown(n, g, s)'
  BY <1>1 DEF Unknown
<1> QED BY <1>3, <1>4, <1>5, <1>6, <1>7, <1>8

\* A step that leaves a slot and its run alone.
LEMMA FlowSame ==
    ASSUME NEW s, NEW n, NEW k, NEW g, Flow(s, n, k, g), SameSlot(s), SameRun(n),
           g <= created', n \in Visible' => n \in Visible
    PROVE  Flow(s, n, k, g)'
<1>1. /\ Drained(n)' = Drained(n) /\ UpTo(n, k)' = UpTo(n, k) /\ (Closed(n, k) => Closed(n, k)')
  BY RunSame
<1>2. /\ Given(s)' = Given(s) /\ (Queue(s) => Queue(s)') /\ (Once(s) => Once(s)')
      /\ (Asks(s, k) => Asks(s, k)') /\ (Unknown(n, g, s) => Unknown(n, g, s)')
  BY SlotSame
<1>3. Coming(n, k, g)'
  BY <1>1 DEF Flow, Coming
<1>4. Mine(s, n, k, g)'
  BY <1>2 DEF Flow, Mine, SameRun
<1>5. Whole(s, n, k)'
  BY <1>1, <1>2 DEF Flow, Whole, SameRun
<1> QED BY <1>2, <1>3, <1>4, <1>5 DEF Flow

\* A run without a slot that stays so.
LEMMA WaitingSame ==
    ASSUME NEW n, Waiting(n), SameRun(n), adapter' = adapter,
           n \in Visible' \ Held(slotOf)' => n \in Visible \ Held(slotOf)
    PROVE  Waiting(n)'
<1>1. Closed(n, 0) => Closed(n, 0)'
  BY RunSame
<1> QED BY <1>1 DEF Waiting, SameRun

\* The slots' view of a step is that of its runs.
LEMMA FlowsFrom ==
    ASSUME Basics', 
           \A n \in Sound' : Link(n)' /\ Known(n)' /\ Waiting(n)',
           \A s \in Used' : slotOf'[s] \in Sound' =>
               \E n : n = slotOf'[s] /\ \E k \in 0..MaxSteps, g \in 1..MaxCreated : Flow(s, n, k, g)'
    PROVE  Flows'
<1>1. ASSUME NEW s \in Used', slotOf'[s] \in Sound'
      PROVE  \E k \in 0..MaxSteps, g \in 1..MaxCreated : Flow(s, slotOf[s], k, g)'
  <2>1. PICK n : n = slotOf'[s] /\ \E k \in 0..MaxSteps, g \in 1..MaxCreated : Flow(s, n, k, g)'
    BY <1>1
  <2> QED BY <2>1 DEF Flow
<1> QED BY <1>1 DEF Flows

\* Steps that change neither slots nor ranks nor what is in training.
LEMMA SlotsSame ==
    ASSUME UNCHANGED <<transport, slotOf, progress, received, buffers, rankVars, pc, selected>>,
           ready' \subseteq ready
    PROVE  \A s : SameSlot(s)
<1>1. \A s : Training(s)' = Training(s)
  BY DEF Training, Taken
<1> QED BY <1>1 DEF SameSlot

\* The flow of a used slot.
LEMMA FlowOf ==
    ASSUME Flows, pc # "crashed", NEW s \in Used, NEW n, n = slotOf[s], n \in Sound
    PROVE  \E k \in 0..MaxSteps, g \in 1..MaxCreated : Flow(s, n, k, g)
BY DEF Flows

\* A new directory gets a name that nobody holds, or the name is reused.
LEMMA CreateFlows ==
    ASSUME Basics, Basics', Flows, NEW m \in Names, CreateRun(m)
    PROVE  Flows'
<1>1. /\ pc # "crashed" /\ created' = created + 1 /\ dir' = [dir EXCEPT ![m] = created'] /\ dir[m] = 0
      /\ reused' = IF \/ m \in Held(slotOf) \cup Held(lastSynced) \cup Held(rankSlot)
                      \/ wire[m] # <<>> \/ pending[m] # {}
                   THEN reused \cup {m} ELSE reused
      /\ UNCHANGED <<evicted, files, published, linkVars, pc, slept, mapVars, packVars, rankVars, spoilt>>
  BY DEF CreateRun, Looking
<1>2. created \in Nat /\ created' \in Nat /\ dir \in [Names -> 0..MaxCreated]
  BY <1>1 DEF Basics, FsTypes
<1>3. \A n \in Names \ {m} : SameRun(n)
  BY <1>1, <1>2 DEF SameRun, linkVars
<1>4. \A s : SameSlot(s)
  BY <1>1, SlotsSame DEF linkVars, mapVars, packVars
<1>5. Sound' \subseteq Sound /\ Used' = Used /\ \A n \in Names \ {m} : n \in Visible' => n \in Visible
  BY <1>1, <1>2 DEF Sound, Used, mapVars, Visible
<1>6. ASSUME m \in Sound'
      PROVE  m \notin Held(slotOf) /\ Drained(m) = {} /\ Drained(m)' = {} /\ wire[m] = <<>> /\ pending[m] = {}
  <2>1. m \notin Held(slotOf) /\ wire[m] = <<>> /\ pending[m] = {}
    BY <1>1, <1>6 DEF Sound
  <2> QED BY <1>1, <2>1 DEF Drained, ToSet, linkVars
<1>7. \A n \in Sound : \A s \in Slots : \A y \in adapter[s] :
          y.run = n => y.made <= created /\ y.made \in Nat
  <2>1. \A s \in Slots : \A y \in adapter[s] : y.made \in Nat
    <3>1. \A s \in Slots : adapter[s] \subseteq Samples
      BY DEF Basics, RankTypes
    <3>2. \A y \in Samples : y.made \in Nat
      BY ConstTypes DEF Samples
    <3> QED BY <3>1, <3>2
  <2> QED BY <1>1, <2>1 DEF Flows, Known
<1>8. ASSUME NEW n \in Sound' PROVE Link(n)' /\ Known(n)' /\ Waiting(n)'
  <2>1. n \in Sound /\ n \in Names /\ adapter' = adapter
    BY <1>1, <1>5 DEF Sound, rankVars
  <2>2. Known(n)'
    BY <1>1, <1>2, <1>7, <2>1 DEF Known
  <2>3. CASE n = m
    <3>1. n \notin Held(slotOf) /\ Drained(n)' = {} /\ wire'[n] = <<>> /\ pending'[n] = {}
      BY <1>1, <1>6, <2>3 DEF linkVars
    <3>2. Link(n)'
      BY <3>1 DEF Link, StepsDiffer
    <3>3. files'[n] = <<>> /\ Len(<<>>) = 0 /\ dir'[n] = created + 1
      BY <1>1, <1>2, <2>1, <2>3 DEF Basics, Directories
    <3>4. Closed(n, 0)'
      BY <3>1, <3>3 DEF Closed
    <3>5. \A t \in Slots : \A y \in adapter'[t] : y.run = n => y.made < dir'[n]
      BY <1>2, <1>7, <2>1, <3>3
    <3> QED BY <2>2, <3>2, <3>4, <3>5 DEF Waiting
  <2>4. CASE n # m
    <3>1. SameRun(n) /\ Link(n) /\ Waiting(n)
      BY <1>1, <1>3, <2>1, <2>4 DEF Flows
    <3>2. Link(n)'
      BY <3>1, RunSame
    <3>3. n \in Visible' \ Held(slotOf)' => n \in Visible \ Held(slotOf)
      BY <1>1, <1>5, <2>1, <2>4 DEF mapVars, Held
    <3> QED BY <2>1, <2>2, <3>1, <3>2, <3>3, WaitingSame
  <2> QED BY <2>3, <2>4
<1>9. ASSUME NEW s \in Used', slotOf'[s] \in Sound'
      PROVE  \E n : n = slotOf'[s] /\ \E k \in 0..MaxSteps, g \in 1..MaxCreated : Flow(s, n, k, g)'
  <2>1. PICK n : n = slotOf[s] /\ n = slotOf'[s] /\ n \in Sound /\ n \in Sound' /\ s \in Used /\ s \in Slots
    BY <1>1, <1>5, <1>9 DEF mapVars, Used
  <2>2. n # m /\ n \in Names
    <3>1. n \in Held(slotOf) /\ n \in Names
      BY <2>1, ConstTypes DEF Held, Sound
    <3> QED BY <1>6, <2>1, <3>1
  <2>3. PICK k \in 0..MaxSteps, g \in 1..MaxCreated : Flow(s, n, k, g)
    BY <1>1, <2>1, FlowOf
  <2>4. g <= created'
    <3>1. g <= created /\ g \in Nat
      BY <2>3, ConstTypes DEF Flow, Mine
    <3> QED BY <1>1, <1>2, <3>1
  <2>5. Flow(s, n, k, g)'
    BY <1>3, <1>4, <1>5, <2>2, <2>3, <2>4, FlowSame, Zenon
  <2> QED BY <2>1, <2>5
<1> QED BY <1>8, <1>9, FlowsFrom

\* A directory that is gone is not to be seen any more.
LEMMA DeleteFlows ==
    ASSUME Basics, Basics', Flows, NEW m \in Names, DeleteRun(m)
    PROVE  Flows'
<1>1. /\ pc # "crashed" /\ dir' = [dir EXCEPT ![m] = 0] /\ evicted' = evicted \ {m}
      /\ files' = [files EXCEPT ![m] = <<>>]
      /\ UNCHANGED <<created, transport, wire, pending, pc, slept, mapVars, packVars, rankVars, spoilt, reused>>
  BY DEF DeleteRun, Looking
<1>2. dir \in [Names -> 0..MaxCreated] /\ files \in [Names -> Seq(Seq(Nat))]
  BY DEF Basics, FsTypes
<1>3. \A n \in Names \ {m} : SameRun(n)
  BY <1>1, <1>2 DEF SameRun
<1>4. \A s : SameSlot(s)
  BY <1>1, SlotsSame DEF mapVars, packVars
<1>5. Sound' = Sound /\ Used' = Used /\ Held(slotOf)' = Held(slotOf) /\ created' = created
      /\ Visible' \subseteq Visible /\ m \notin Visible' /\ dir'[m] = 0
  BY <1>1, <1>2 DEF Sound, Used, mapVars, Visible, Held
<1>6. Drained(m)' = Drained(m) /\ wire' = wire /\ pending' = pending /\ adapter' = adapter
      /\ lastSynced' = lastSynced
  BY <1>1 DEF Drained, rankVars
<1>7. ASSUME NEW n \in Sound' PROVE Link(n)' /\ Known(n)' /\ Waiting(n)'
  <2>1. n \in Sound /\ n \in Names /\ Link(n) /\ Known(n) /\ Waiting(n)
    BY <1>1, <1>5 DEF Sound, Flows
  <2>2. Known(n)'
    BY <1>5, <1>6, <2>1 DEF Known
  <2>3. CASE n = m
    BY <1>5, <1>6, <2>1, <2>2, <2>3 DEF Link, StepsDiffer, Waiting
  <2>4. CASE n # m
    <3>1. SameRun(n)
      BY <1>3, <2>1, <2>4
    <3>2. Link(n)'
      BY <2>1, <3>1, RunSame
    <3> QED BY <1>5, <1>6, <2>1, <2>2, <3>1, <3>2, WaitingSame
  <2> QED BY <2>3, <2>4
<1>8. ASSUME NEW s \in Used', slotOf'[s] \in Sound'
      PROVE  \E n : n = slotOf'[s] /\ \E k \in 0..MaxSteps, g \in 1..MaxCreated : Flow(s, n, k, g)'
  <2>1. PICK n : n = slotOf[s] /\ n = slotOf'[s] /\ n \in Sound /\ n \in Names /\ s \in Used
    BY <1>1, <1>5, <1>8 DEF mapVars, Sound
  <2>2. PICK k \in 0..MaxSteps, g \in 1..MaxCreated : Flow(s, n, k, g)
    BY <1>1, <2>1, FlowOf
  <2>3. g <= created'
    BY <1>5, <2>2 DEF Flow, Mine
  <2>4. CASE n # m
    <3>1. Flow(s, n, k, g)'
      BY <1>3, <1>4, <1>5, <2>1, <2>2, <2>3, <2>4, FlowSame, Zenon
    <3> QED BY <2>1, <3>1
  <2>5. CASE n = m
    <3>1. /\ Given(s)' = Given(s) /\ Queue(s)' /\ Once(s)' /\ Asks(s, k)' /\ Unknown(n, g, s)'
      BY <1>4, <2>2, SlotSame, Zenon DEF Flow, Mine
    <3>2. Coming(n, k, g)'
      BY <1>6, <2>2, <2>5 DEF Flow, Coming
    <3>3. Mine(s, n, k, g)'
      BY <1>5, <2>2, <2>3, <2>5, <3>1 DEF Flow, Mine
    <3>4. Whole(s, n, k)'
      BY <1>5, <2>5 DEF Whole
    <3>5. Flow(s, n, k, g)'
      BY <3>1, <3>2, <3>3, <3>4 DEF Flow
    <3> QED BY <2>1, <3>5
  <2> QED BY <2>4, <2>5
<1> QED BY <1>7, <1>8, FlowsFrom

\* The written batches up to a step do not change when another is written.
LEMMA WriteUpTo ==
    ASSUME Basics, NEW m \in Names, Write(m), NEW k \in 0..Len(files[m])
    PROVE  UpTo(m, k)' = UpTo(m, k) /\ \A j \in 1..Len(files[m]) : SamplesOf(m, j)' = SamplesOf(m, j)
<1>1. PICK l : l = Len(files[m]) + 1
  OBVIOUS
<1>2. /\ Len(files'[m]) = l /\ \A j \in 1..Len(files[m]) : files'[m][j] = files[m][j]
      /\ files'[m] \in Seq(Seq(Nat)) /\ files[m] \in Seq(Seq(Nat)) /\ dir' = dir
  <2>1. files' \in [Names -> Seq(Seq(Nat))] /\ Len(files'[m]) = l
        /\ \A j \in 1..Len(files[m]) : files'[m][j] = files[m][j]
    BY <1>1, WriteParts
  <2> QED BY <2>1 DEF Basics, FsTypes, Write
<1>3. \A j \in 1..Len(files[m]) : SamplesOf(m, j)' = SamplesOf(m, j)
  BY <1>2 DEF SamplesOf, SamplesIn
<1>4. Len(files[m]) \in Nat /\ k \in Nat
  BY <1>2
<1>5. UpTo(m, k) = UNION {ToSet(SamplesOf(m, j)) : j \in {i \in 1..Len(files[m]) : i <= k}}
  BY <1>2, <1>4, UpToIs
<1>6. UpTo(m, k)' = UNION {ToSet(SamplesOf(m, j)') : j \in {i \in 1..Len(files'[m]) : i <= k}}
  <2>1. UpTo(m, k)' = UNION {ToSet(SamplesOf(m, j)') : j \in 1..Min({k, Len(files'[m])})}
    BY Zenon DEF UpTo
  <2>2. Min({k, Len(files'[m])}) = k /\ Min({k, Len(files'[m])}) \in Nat
    <3>1. {k, Len(files'[m])} \in SUBSET Nat /\ {k, Len(files'[m])} # {} /\ k <= Len(files'[m])
      BY <1>1, <1>2, <1>4
    <3>2. /\ Min({k, Len(files'[m])}) \in {k, Len(files'[m])}
          /\ \A y \in {k, Len(files'[m])} : Min({k, Len(files'[m])}) <= y
      BY <3>1, MinOf
    <3> QED BY <1>4, <3>1, <3>2
  <2>3. 1..k = {i \in 1..Len(files'[m]) : i <= k}
    BY <1>1, <1>2, <1>4
  <2> QED BY <2>1, <2>2, <2>3
<1>7. {i \in 1..Len(files'[m]) : i <= k} = {i \in 1..Len(files[m]) : i <= k}
  BY <1>1, <1>2, <1>4
<1> QED BY <1>3, <1>5, <1>6, <1>7

\* A batch written is the next on the link.
LEMMA WriteLink ==
    ASSUME Basics, NEW m \in Names, Write(m), Link(m)
    PROVE  Link(m)' /\ \A k \in 0..Len(files[m]) : Closed(m, k) => Closed(m, k)'
<1>1. PICK l : l = Len(files[m]) + 1
  OBVIOUS
<1>2. PICK msg : msg = Message(m, files')
  OBVIOUS
<1>3. /\ l \in 1..MaxSteps /\ Len(files'[m]) = l /\ msg.step = l /\ msg.samples = SamplesOf(m, l)'
      /\ dir[m] # 0 /\ dir' = dir /\ Len(files[m]) < MaxSteps /\ Len(files[m]) \in Nat /\ l \in Nat
      /\ pending' = pending /\ transport' = transport
  <2>1. files[m] \in Seq(Seq(Nat))
    BY DEF Basics, FsTypes
  <2>2. /\ l \in 1..MaxSteps /\ Len(files'[m]) = l /\ msg.step = l /\ msg.samples = SamplesOf(m, l)'
    BY <1>1, <1>2, WriteParts
  <2> QED BY <2>1, <2>2 DEF Write
<1>4. /\ Drained(m)' = (IF transport = "zmq" THEN Drained(m) \cup {msg} ELSE Drained(m))
      /\ wire'[m] = (IF transport = "zmq" THEN Append(wire[m], msg) ELSE wire[m])
      /\ wire[m] \in Seq(Messages) /\ msg \in Messages
  BY <1>2, WriteDrained, WriteParts, DrainedType DEF Basics
<1>5. \A y \in Drained(m) : /\ y.step \in Nat /\ y.step < l
                            /\ y.step \in 1..Len(files[m]) /\ y.samples = SamplesOf(m, y.step)
  <2>1. \A y \in Drained(m) : y.step \in 1..MaxSteps /\ y.step \in Nat
    BY DrainedType DEF Basics
  <2>2. \A y \in Drained(m) : y.step <= Len(files[m]) /\ y.samples = SamplesOf(m, y.step)
    BY <1>3 DEF Link
  <2> QED BY <1>1, <1>3, <2>1, <2>2
<1>6. pending[m] \subseteq Drained(m) /\ \A i \in 1..Len(wire[m]) : wire[m][i] \in Drained(m)
  <2>1. ToSet(wire[m]) = {wire[m][i] : i \in 1..Len(wire[m])}
    BY <1>4, ToSetSeq
  <2> QED BY <2>1 DEF Drained
<1>7. \A j \in 1..Len(files[m]) : SamplesOf(m, j)' = SamplesOf(m, j)
  <2>1. 0 \in 0..Len(files[m])
    BY <1>3
  <2> QED BY <2>1, WriteUpTo
<1>8. Link(m)'
  <2>1. StepsDiffer(Drained(m)')
    <3>1. \A y \in Drained(m)' : y \in Drained(m) \/ y = msg
      BY <1>4
    <3>2. StepsDiffer(Drained(m))
      BY DEF Link
    <3> QED BY <1>3, <1>5, <3>1, <3>2 DEF StepsDiffer
  <2>2. \A y \in Drained(m)' : y.step <= Len(files'[m]) /\ y.samples = SamplesOf(m, y.step)'
    <3>1. ASSUME NEW y \in Drained(m) PROVE y.step <= Len(files'[m]) /\ y.samples = SamplesOf(m, y.step)'
      <4>1. PICK j \in 1..Len(files[m]) : j = y.step
        BY <1>5
      <4>2. y.samples = SamplesOf(m, j) /\ y.step < l
        BY <1>5, <4>1
      <4>3. SamplesOf(m, j)' = SamplesOf(m, y.step)'
        BY <4>1 DEF SamplesOf, SamplesIn
      <4> QED BY <1>3, <1>5, <1>7, <4>1, <4>2, <4>3
    <3>2. msg.step <= Len(files'[m]) /\ msg.samples = SamplesOf(m, msg.step)'
      <4>1. SamplesOf(m, l)' = SamplesOf(m, msg.step)'
        BY <1>3 DEF SamplesOf, SamplesIn
      <4> QED BY <1>3, <4>1
    <3>3. \A y \in Drained(m)' : y \in Drained(m) \/ y = msg
      BY <1>4
    <3> QED BY <3>1, <3>2, <3>3
  <2>3. /\ \A i, j \in 1..Len(wire'[m]) : i < j => wire'[m][i].step < wire'[m][j].step
        /\ \A x \in pending'[m], i \in 1..Len(wire'[m]) : x.step < wire'[m][i].step
    <3>1. CASE transport = "zmq"
      <4>1. /\ wire'[m] = Append(wire[m], msg) /\ Len(wire'[m]) = Len(wire[m]) + 1 /\ Len(wire[m]) \in Nat
            /\ wire'[m][Len(wire[m]) + 1] = msg
            /\ \A i \in 1..Len(wire[m]) : wire'[m][i] = wire[m][i]
        BY <1>4, <3>1
      <4>2. \A i \in 1..Len(wire'[m]) : i \in 1..Len(wire[m]) \/ i = Len(wire[m]) + 1
        BY <4>1
      <4> QED BY <1>3, <1>5, <1>6, <4>1, <4>2 DEF Link
    <3>2. CASE transport # "zmq"
      BY <1>3, <1>4, <3>2 DEF Link
    <3> QED BY <3>1, <3>2
  <2> QED BY <2>1, <2>2, <2>3 DEF Link
<1>9. ASSUME NEW k \in 0..Len(files[m]), Closed(m, k) PROVE Closed(m, k)'
  <2>1. CASE transport = "zmq"
    <3>1. ASSUME NEW j \in (k + 1)..l PROVE \E y \in Drained(m)' : y.step = j
      <4>1. CASE j = l
        BY <1>3, <1>4, <2>1, <4>1
      <4>2. CASE j # l
        <5>1. j \in (k + 1)..Len(files[m])
          BY <1>1, <1>3, <4>2
        <5> QED BY <1>3, <1>4, <1>9, <2>1, <5>1 DEF Closed
      <4> QED BY <4>1, <4>2
    <3>2. \A y \in Drained(m)' : \A j \in (k + 1)..y.step : j \in (k + 1)..l
      BY <1>3, <1>4, <1>5
    <3> QED BY <1>3, <3>1, <3>2 DEF Closed
  <2>2. CASE transport # "zmq"
    BY <1>3, <1>4, <1>9, <2>2 DEF Closed
  <2> QED BY <2>1, <2>2
<1> QED BY <1>8, <1>9

\* It concerns the one run only.
LEMMA WriteFlows ==
    ASSUME Basics, Basics', Flows, NEW m \in Names, Write(m)
    PROVE  Flows'
<1>1. /\ pc # "crashed" /\ dir[m] # 0 /\ dir' = dir /\ Len(files[m]) \in Nat
      /\ UNCHANGED <<dir, created, evicted, published, transport, pending, lost, pc, slept, mapVars, packVars,
                     rankVars, spoilt, reused>>
  BY DEF Write, Looking, Basics, FsTypes
<1>2. \A n \in Names \ {m} : SameRun(n)
  BY <1>1, WriteDrained, WriteParts DEF SameRun
<1>3. \A s : SameSlot(s)
  BY <1>1, SlotsSame DEF mapVars, packVars
<1>4. Sound' = Sound /\ Used' = Used /\ Held(slotOf)' = Held(slotOf) /\ created' = created
      /\ Visible' = Visible /\ adapter' = adapter /\ lastSynced' = lastSynced
  BY <1>1 DEF Sound, Used, mapVars, Visible, Held, rankVars
<1>5. ASSUME NEW n \in Sound' PROVE Link(n)' /\ Known(n)' /\ Waiting(n)'
  <2>1. n \in Sound /\ n \in Names /\ Link(n) /\ Known(n) /\ Waiting(n)
    BY <1>1, <1>4, <1>5 DEF Sound, Flows
  <2>2. Known(n)'
    BY <1>4, <2>1 DEF Known
  <2>3. CASE n = m
    <3>1. Link(n)' /\ (Closed(n, 0) => Closed(n, 0)')
      <4>1. 0 \in 0..Len(files[m])
        BY <1>1
      <4> QED BY <2>1, <2>3, <4>1, WriteLink
    <3>2. Waiting(n)'
      BY <1>1, <1>4, <2>1, <3>1 DEF Waiting
    <3> QED BY <2>2, <3>1, <3>2
  <2>4. CASE n # m
    <3>1. SameRun(n)
      BY <1>2, <2>1, <2>4
    <3>2. Link(n)'
      BY <2>1, <3>1, RunSame
    <3> QED BY <1>4, <2>1, <2>2, <3>1, <3>2, WaitingSame
  <2> QED BY <2>3, <2>4
<1>6. ASSUME NEW s \in Used', slotOf'[s] \in Sound'
      PROVE  \E n : n = slotOf'[s] /\ \E k \in 0..MaxSteps, g \in 1..MaxCreated : Flow(s, n, k, g)'
  <2>1. PICK n : n = slotOf[s] /\ n = slotOf'[s] /\ n \in Sound /\ n \in Names /\ s \in Used
    BY <1>1, <1>4, <1>6 DEF mapVars, Sound
  <2>2. PICK k \in 0..MaxSteps, g \in 1..MaxCreated : Flow(s, n, k, g)
    BY <1>1, <2>1, FlowOf
  <2>3. g <= created'
    BY <1>4, <2>2 DEF Flow, Mine
  <2>4. CASE n # m
    <3>1. Flow(s, n, k, g)'
      BY <1>2, <1>3, <1>4, <2>1, <2>2, <2>3, <2>4, FlowSame, Zenon
    <3> QED BY <2>1, <3>1
  <2>5. CASE n = m
    <3>1. k \in 0..Len(files[n]) /\ Link(n) /\ dir[n] = g
      BY <1>1, <2>1, <2>2, <2>5 DEF Flow, Whole, Flows, Mine
    <3>2. /\ UpTo(n, k)' = UpTo(n, k) /\ (Closed(n, k) => Closed(n, k)')
      BY <2>5, <3>1, WriteUpTo, WriteLink
    <3>3. /\ Given(s)' = Given(s) /\ (Queue(s) => Queue(s)') /\ (Once(s) => Once(s)')
          /\ (Asks(s, k) => Asks(s, k)') /\ (Unknown(n, g, s) => Unknown(n, g, s)')
      BY <1>3, SlotSame
    <3>4. PICK l : l = Len(files[m]) + 1
      OBVIOUS
    <3>5. /\ Len(files'[m]) = l /\ Message(m, files').step = l
          /\ \A x \in ToSet(Message(m, files').samples) : x.step = l /\ x.made = dir[m]
      BY <3>4, WriteParts
    <3>6. Coming(n, k, g)'
      <4>1. \A y \in Drained(n)' : y \in Drained(n) \/ y = Message(m, files')
        BY <2>5, WriteDrained
      <4>2. k < l
        BY <1>1, <2>5, <3>1, <3>4
      <4>3. \A y \in Drained(n)' : k < y.step /\ \A x \in ToSet(y.samples) : x.step = y.step /\ x.made = g
        BY <2>2, <2>5, <3>1, <3>5, <4>1, <4>2 DEF Flow, Coming
      <4> QED BY <4>3 DEF Coming
    <3>7. Mine(s, n, k, g)'
      BY <1>1, <2>2, <2>3, <3>3 DEF Flow, Mine
    <3>8. Whole(s, n, k)'
      <4>1. k <= Len(files'[n])
        BY <1>1, <2>5, <3>1, <3>4, <3>5
      <4> QED BY <1>4, <2>2, <3>2, <3>3, <4>1 DEF Flow, Whole
    <3>9. Flow(s, n, k, g)'
      BY <2>2, <3>3, <3>6, <3>7, <3>8 DEF Flow
    <3> QED BY <2>1, <3>9
  <2> QED BY <2>4, <2>5
<1> QED BY <1>5, <1>6, FlowsFrom

\* What a closing sender drops are the last batches of a run that wrote all.
LEMMA CloseFlows ==
    ASSUME Basics, Basics', Flows, NEW m \in Names, Close(m)
    PROVE  Flows'
<1>1. /\ pc # "crashed" /\ Len(files[m]) = MaxSteps
      /\ UNCHANGED <<fsVars, transport, pending, pc, slept, mapVars, packVars, rankVars, spoilt, reused>>
  BY DEF Close, Looking
<1>2. \A n \in Names \ {m} : SameRun(n)
  BY <1>1, CloseParts DEF SameRun, fsVars
<1>3. \A s : SameSlot(s)
  BY <1>1, SlotsSame DEF mapVars, packVars
<1>4. Sound' = Sound /\ Used' = Used /\ Held(slotOf)' = Held(slotOf) /\ created' = created
      /\ Visible' = Visible /\ adapter' = adapter /\ lastSynced' = lastSynced
      /\ dir' = dir /\ files' = files /\ pending' = pending /\ transport' = transport
  BY <1>1 DEF Sound, Used, mapVars, Visible, Held, rankVars, fsVars
<1>5. /\ Drained(m)' \subseteq Drained(m)
      /\ \A i \in 1..Len(wire'[m]) : i \in 1..Len(wire[m]) /\ wire'[m][i] = wire[m][i]
      /\ wire[m] \in Seq(Messages) /\ wire'[m] \in Seq(Messages)
  BY CloseParts DEF Basics, LinkTypes
<1>6. \A j : SamplesOf(m, j)' = SamplesOf(m, j)
  BY <1>4 DEF SamplesOf, SamplesIn
<1>7. /\ ToSet(wire[m]) = {wire[m][i] : i \in 1..Len(wire[m])}
      /\ ToSet(wire'[m]) = {wire'[m][i] : i \in 1..Len(wire'[m])}
  BY <1>5, ToSetSeq
<1>8. ASSUME Link(m) PROVE Link(m)'
  BY <1>4, <1>5, <1>6, <1>8 DEF Link, StepsDiffer
\* What was before a batch that is still on its way is as well.
<1>9. ASSUME Link(m), NEW y \in Drained(m), NEW z \in Drained(m)', y.step <= z.step
      PROVE  y \in Drained(m)'
  <2>1. y.step \in Nat /\ z.step \in Nat
    BY <1>5, DrainedType DEF Basics
  <2>2. CASE y \in pending[m]
    BY <1>4, <2>2 DEF Drained
  <2>3. CASE y \notin pending[m]
    <3>1. PICK i \in 1..Len(wire[m]) : y = wire[m][i]
      BY <1>7, <2>3 DEF Drained
    <3>2. CASE i \in 1..Len(wire'[m])
      BY <1>5, <1>7, <3>1, <3>2 DEF Drained
    <3>3. CASE i \notin 1..Len(wire'[m])
      <4>1. CASE z \in pending[m]
        BY <1>9, <2>1, <3>1, <4>1 DEF Link
      <4>2. CASE z \notin pending[m]
        <5>1. PICK j \in 1..Len(wire'[m]) : z = wire'[m][j]
          BY <1>4, <1>7, <4>2 DEF Drained
        <5>2. j \in 1..Len(wire[m]) /\ z = wire[m][j] /\ j < i
          BY <1>5, <3>3, <5>1
        <5> QED BY <1>9, <2>1, <3>1, <5>2 DEF Link
      <4> QED BY <4>1, <4>2
    <3> QED BY <3>2, <3>3
  <2> QED BY <2>2, <2>3
<1>10. ASSUME Link(m), NEW k \in Nat, Closed(m, k) PROVE Closed(m, k)'
  <2>1. ASSUME NEW z \in Drained(m)', NEW j \in (k + 1)..z.step
        PROVE  \E y \in Drained(m)' : y.step = j
    <3>1. z \in Drained(m) /\ z.step \in Nat
      BY <1>5, DrainedType DEF Basics
    <3>2. PICK y \in Drained(m) : y.step = j
      BY <1>10, <3>1 DEF Closed
    <3>3. y \in Drained(m)'
      BY <1>9, <1>10, <3>1, <3>2
    <3> QED BY <3>2, <3>3
  <2>2. ~ (Len(files'[m]) < MaxSteps)
    BY <1>1, <1>4, ConstTypes
  <2> QED BY <2>1, <2>2 DEF Closed
<1>11. ASSUME NEW n \in Sound' PROVE Link(n)' /\ Known(n)' /\ Waiting(n)'
  <2>1. n \in Sound /\ n \in Names /\ Link(n) /\ Known(n) /\ Waiting(n)
    BY <1>1, <1>4, <1>11 DEF Sound, Flows
  <2>2. Known(n)'
    BY <1>4, <2>1 DEF Known
  <2>3. CASE n = m
    <3>1. Link(n)' /\ (Closed(n, 0) => Closed(n, 0)')
      BY <1>8, <1>10, <2>1, <2>3
    <3>2. Waiting(n)'
      BY <1>4, <2>1, <3>1 DEF Waiting
    <3> QED BY <2>2, <3>1, <3>2
  <2>4. CASE n # m
    <3>1. SameRun(n)
      BY <1>2, <2>1, <2>4
    <3>2. Link(n)'
      BY <2>1, <3>1, RunSame
    <3> QED BY <1>4, <2>1, <2>2, <3>1, <3>2, WaitingSame
  <2> QED BY <2>3, <2>4
<1>12. ASSUME NEW s \in Used', slotOf'[s] \in Sound'
       PROVE  \E n : n = slotOf'[s] /\ \E k \in 0..MaxSteps, g \in 1..MaxCreated : Flow(s, n, k, g)'
  <2>1. PICK n : n = slotOf[s] /\ n = slotOf'[s] /\ n \in Sound /\ n \in Names /\ s \in Used
    BY <1>1, <1>4, <1>12 DEF mapVars, Sound
  <2>2. PICK k \in 0..MaxSteps, g \in 1..MaxCreated : Flow(s, n, k, g)
    BY <1>1, <2>1, FlowOf
  <2>3. g <= created'
    BY <1>4, <2>2 DEF Flow, Mine
  <2>4. CASE n # m
    <3>1. Flow(s, n, k, g)'
      BY <1>2, <1>3, <1>4, <2>1, <2>2, <2>3, <2>4, FlowSame, Zenon
    <3> QED BY <2>1, <3>1
  <2>5. CASE n = m
    <3>1. Link(n) /\ k \in Nat
      BY <1>1, <2>1, ConstTypes DEF Flows
    <3>2. UpTo(n, k)' = UpTo(n, k) /\ (Closed(n, k) => Closed(n, k)')
      <4>1. UpTo(n, k)' = UpTo(n, k)
        <5>1. SUFFICES UpTo(m, k)' = UpTo(m, k)
          BY <2>5
        <5> QED BY <1>4, <1>6 DEF UpTo
      <4> QED BY <1>10, <2>5, <3>1, <4>1
    <3>3. /\ Given(s)' = Given(s) /\ (Queue(s) => Queue(s)') /\ (Once(s) => Once(s)')
          /\ (Asks(s, k) => Asks(s, k)') /\ (Unknown(n, g, s) => Unknown(n, g, s)')
      BY <1>3, SlotSame
    <3>4. Coming(n, k, g)'
      BY <1>5, <2>2, <2>5 DEF Flow, Coming
    <3>5. Mine(s, n, k, g)'
      BY <1>4, <2>2, <2>3, <3>3 DEF Flow, Mine
    <3>6. Whole(s, n, k)'
      BY <1>4, <2>2, <3>2, <3>3 DEF Flow, Whole
    <3>7. Flow(s, n, k, g)'
      BY <2>2, <3>3, <3>4, <3>5, <3>6 DEF Flow
    <3> QED BY <2>1, <3>7
  <2> QED BY <2>4, <2>5
<1> QED BY <1>11, <1>12, FlowsFrom

\* Steps of the master that leave its slots alone.
LEMMA QuietFlows ==
    ASSUME Basics, Basics', Flows, pc \notin {"crashed", "train"}, pc' # "train", ready' \subseteq ready,
           UNCHANGED <<dir, created, evicted, files, linkVars, mapVars, buffers, rankVars, reused>>
    PROVE  Flows'
<1>1. \A n : SameRun(n)
  BY DEF SameRun, linkVars
<1>2. \A s : SameSlot(s)
  BY DEF SameSlot, Training, linkVars, mapVars
<1>3. Sound' = Sound /\ Used' = Used /\ Held(slotOf)' = Held(slotOf) /\ created' = created
      /\ Visible' = Visible /\ adapter' = adapter
  BY DEF Sound, Used, mapVars, Visible, Held, rankVars
<1>4. ASSUME NEW n \in Sound' PROVE Link(n)' /\ Known(n)' /\ Waiting(n)'
  <2>1. n \in Sound /\ Link(n) /\ Known(n) /\ Waiting(n) /\ SameRun(n)
    BY <1>1, <1>3, <1>4 DEF Flows
  <2>2. Link(n)'
    BY <2>1, RunSame
  <2>3. Known(n)'
    BY <1>3, <2>1 DEF Known
  <2> QED BY <1>3, <2>1, <2>2, <2>3, WaitingSame
<1>5. ASSUME NEW s \in Used', slotOf'[s] \in Sound'
      PROVE  \E n : n = slotOf'[s] /\ \E k \in 0..MaxSteps, g \in 1..MaxCreated : Flow(s, n, k, g)'
  <2>1. PICK n : n = slotOf[s] /\ n = slotOf'[s] /\ n \in Sound /\ s \in Used
    BY <1>3, <1>5 DEF mapVars
  <2>2. PICK k \in 0..MaxSteps, g \in 1..MaxCreated : Flow(s, n, k, g)
    BY <2>1, FlowOf
  <2>3. g <= created'
    BY <1>3, <2>2 DEF Flow, Mine
  <2>4. Flow(s, n, k, g)'
    BY <1>1, <1>2, <1>3, <2>2, <2>3, FlowSame, Zenon
  <2> QED BY <2>1, <2>4
<1> QED BY <1>4, <1>5, FlowsFrom

\* A run that gets a slot has been given nothing yet, one that keeps its slot goes on.
LEMMA DiscoverFlows ==
    ASSUME Basics, Basics', Flows, Late(lastSynced), DiscoverRuns,
           pc \in {"discover", "forget"}, pc' \in {"receive", "pack"},
           UNCHANGED <<fsVars, linkVars, slept, ready, position, selected, rankVars, spoilt, reused>>
    PROVE  Flows'
<1>1. /\ \A s \in Slots : Keeps(s) \/ Places(s) \/ Leaves(s)
      /\ \A s \in Used : slotOf[s] \in Visible => Keeps(s)
  BY DiscoverParts DEF Basics
<1>2. Sound' = Sound /\ created' = created /\ Visible' = Visible /\ adapter' = adapter
      /\ lastSynced' = lastSynced /\ Free \notin Names /\ dir' = dir /\ files' = files
      /\ ready = {} /\ ready' = {} /\ pc # "train" /\ pc' # "train"
  BY ConstTypes DEF Sound, Visible, rankVars, fsVars, Basics, Flags
<1>3. \A n : SameRun(n)
  BY DEF SameRun, fsVars, linkVars
<1>4. ASSUME NEW n \in Sound' PROVE Link(n)' /\ Known(n)' /\ Waiting(n)'
  <2>1. n \in Sound /\ Link(n) /\ Known(n) /\ Waiting(n) /\ SameRun(n)
    BY <1>2, <1>3, <1>4 DEF Flows
  <2>2. Link(n)'
    BY <2>1, RunSame
  <2>3. Known(n)'
    BY <1>2, <2>1 DEF Known
  <2>4. n \in Visible' \ Held(slotOf)' => n \in Visible \ Held(slotOf)
    <3>1. ASSUME n \in Visible, n \in Held(slotOf) PROVE n \in Held(slotOf)'
      <4>1. PICK s \in Slots : slotOf[s] = n /\ n # Free /\ s \in Used
        BY <3>1 DEF Held, Used
      <4>2. slotOf'[s] = n
        BY <1>1, <3>1, <4>1 DEF Keeps
      <4> QED BY <4>1, <4>2 DEF Held
    <3> QED BY <1>2, <3>1
  <2> QED BY <1>2, <2>1, <2>2, <2>3, <2>4, WaitingSame
<1>5. ASSUME NEW s \in Used', slotOf'[s] \in Sound'
      PROVE  \E n : n = slotOf'[s] /\ \E k \in 0..MaxSteps, g \in 1..MaxCreated : Flow(s, n, k, g)'
  <2>1. PICK n : n = slotOf'[s] /\ n \in Sound /\ n \in Names /\ s \in Slots /\ n # Free
    BY <1>2, <1>5 DEF Used, Sound
  <2>2. CASE Keeps(s)
    <3>1. SameSlot(s) /\ s \in Used /\ n = slotOf[s]
      BY <1>2, <2>1, <2>2 DEF SameSlot, Keeps, Training, linkVars
    <3>2. PICK k \in 0..MaxSteps, g \in 1..MaxCreated : Flow(s, n, k, g)
      BY <2>1, <3>1, FlowOf
    <3>3. g <= created'
      BY <1>2, <3>2 DEF Flow, Mine
    <3>4. Flow(s, n, k, g)'
      BY <1>2, <1>3, <3>1, <3>2, <3>3, FlowSame, Zenon
    <3> QED BY <2>1, <3>4
  <2>3. CASE Places(s)
    <3>1. /\ n \in Visible \ Held(slotOf) /\ progress'[s] = 1 /\ buffers'[s] = <<>> /\ received'[s] = 0
      BY <2>1, <2>3 DEF Places
    <3>2. Closed(n, 0) /\ Link(n) /\ \A t \in Slots : \A y \in adapter[t] : y.run = n => y.made < dir[n]
      BY <1>2, <2>1, <3>1 DEF Flows, Waiting
    <3>3. n \notin Held(lastSynced)
      BY <2>1, <3>1 DEF Late
    <3>4. PICK g \in 1..MaxCreated : g = dir[n] /\ g <= created
      <4>1. dir[n] # 0 /\ dir[n] \in 0..MaxCreated /\ dir[n] <= created
        BY <2>1, <3>1 DEF Visible, Basics, FsTypes, Directories
      <4> QED BY <4>1, ConstTypes
    <3>5. Fed(s)' = {} /\ Given(s)' = {} /\ ToSet(<<>>) = {} /\ Len(<<>>) = 0
      <4>1. Synced(s)' = {} /\ Training(s)' = {}
        BY <1>2, <2>1, <3>3 DEF Synced, Training
      <4>2. ToSet(<<>>) = {}
        BY DEF ToSet
      <4>3. Fed(s)' = {}
        BY <4>1 DEF Fed
      <4> QED BY <3>1, <4>2, <4>3 DEF Given
    <3>6. Asks(s, 0)'
      BY <3>1 DEF Asks, NextStep
    <3>7. Coming(n, 0, g)'
      <4>1. ASSUME NEW y \in Drained(n)
            PROVE  0 < y.step /\ \A x \in ToSet(y.samples) : x.step = y.step /\ x.made = g
        <5>1. y.step \in 1..MaxSteps /\ y.step \in Nat
          BY <2>1, DrainedType DEF Basics
        <5>2. y.step <= Len(files[n]) /\ y.samples = SamplesOf(n, y.step) /\ Len(files[n]) \in Nat
          BY <2>1, <3>2, <3>4 DEF Link, Basics, FsTypes
        <5>3. PICK j \in 1..Len(files[n]) : j = y.step
          BY <5>1, <5>2
        <5>4. \A x \in ToSet(SamplesOf(n, j)) : x.step = j /\ x.made = dir[n]
          BY <2>1, WrittenParts DEF Basics
        <5> QED BY <3>4, <5>1, <5>2, <5>3, <5>4
      <4>2. Drained(n)' = Drained(n)
        BY <1>3, RunSame
      <4> QED BY <4>1, <4>2 DEF Coming
    <3>8. Mine(s, n, 0, g)'
      BY <1>2, <3>2, <3>4, <3>5 DEF Mine, Unknown
    <3>9. Queue(s)' /\ Once(s)'
      <4>1. IsInjective(<<>>)
        BY DEF IsInjective
      <4>2. Queue(s)'
        BY <3>1, <3>5, <4>1 DEF Queue
      <4>3. Synced(s)' \cap Training(s)' = {}
        BY <1>2 DEF Training
      <4> QED BY <1>2, <3>1, <3>5, <4>2, <4>3 DEF Once
    <3>10. Whole(s, n, 0)'
      <4>1. UpTo(n, 0)' = {}
        <5>1. UpTo(n, 0) = UNION {ToSet(SamplesOf(n, j)) : j \in {i \in 1..Len(files[n]) : i <= 0}}
          BY <2>1, UpToIs DEF Basics, FsTypes
        <5>2. {i \in 1..Len(files[n]) : i <= 0} = {}
          OBVIOUS
        <5>3. UpTo(n, 0)' = UpTo(n, 0)
          BY <1>3, RunSame
        <5> QED BY <5>1, <5>2, <5>3
      <4>2. Closed(n, 0)'
        BY <1>3, <3>2, RunSame
      <4>3. 0 <= Len(files'[n])
        BY <1>2, <2>1 DEF Basics, FsTypes
      <4> QED BY <3>5, <4>1, <4>2, <4>3 DEF Whole
    <3>11. Flow(s, n, 0, g)' /\ 0 \in 0..MaxSteps
      BY <3>6, <3>7, <3>8, <3>9, <3>10, ConstTypes DEF Flow
    <3> QED BY <2>1, <3>11
  <2>4. ~ Leaves(s)
    BY <2>1 DEF Leaves
  <2> QED BY <1>1, <2>1, <2>2, <2>3, <2>4
<1> QED BY <1>4, <1>5, FlowsFrom

\* One step more.
LEMMA UpToMore ==
    ASSUME NEW n \in Names, files[n] \in Seq(Seq(Nat)), NEW k \in Nat, k + 1 <= Len(files[n])
    PROVE  UpTo(n, k + 1) = UpTo(n, k) \cup ToSet(SamplesOf(n, k + 1))
<1>1. UpTo(n, k) = UNION {ToSet(SamplesOf(n, j)) : j \in {i \in 1..Len(files[n]) : i <= k}}
  BY UpToIs
<1>2. UpTo(n, k + 1) = UNION {ToSet(SamplesOf(n, j)) : j \in {i \in 1..Len(files[n]) : i <= k + 1}}
  BY UpToIs
<1>3. {i \in 1..Len(files[n]) : i <= k + 1} = {i \in 1..Len(files[n]) : i <= k} \cup {k + 1}
  OBVIOUS
<1> QED BY <1>1, <1>2, <1>3

\* The batch that arrives at a slot: of a later step than those it was given,
\* of the next one if its run is to be seen; and what is then on its way.
Comes(s, n, k, g, h) ==
    /\ k < h
    /\ \A x \in ToSet(Arriving(s)) : x.step = h /\ x.made = g
    /\ dir[n] # 0 => h <= Len(files[n]) /\ Arriving(s) = SamplesOf(n, h)
    /\ transport = "filesystem" => h = NextStep(s) /\ h = k + 1
    /\ n \in Visible => h = k + 1
    /\ Drained(n)' \subseteq Drained(n)
    /\ \A y \in Drained(n)' : h < y.step
    /\ \A y \in Drained(n) : h < y.step => y \in Drained(n)'

\* There is such a step: by file the next one, by ZMQ the oldest pending.
LEMMA ReceivedStep ==
    ASSUME Basics, Receives, NEW s \in Arrivals, NEW n, n = slotOf[s], Link(n),
           NEW k \in 0..MaxSteps, NEW g \in 1..MaxCreated, Flow(s, n, k, g)
    PROVE  \E h \in 1..MaxSteps : Comes(s, n, k, g, h)
<1>1. /\ s \in Used /\ s \in Slots /\ n \in Names
      /\ transport = "zmq" =>
           /\ Oldest(Drained(n)) \in Drained(n)
           /\ \A m \in Drained(n) : Oldest(Drained(n)).step <= m.step
           /\ Arriving(s) = Oldest(Drained(n)).samples
      /\ transport # "zmq" =>
           NextStep(s) \in 1..Len(files[n]) /\ Arriving(s) = SamplesOf(n, NextStep(s))
  BY ArrivingParts
<1>2. /\ transport \in {"filesystem", "zmq"} /\ MaxSteps \in Nat
      /\ files[n] \in Seq(Seq(Nat)) /\ Len(files[n]) \in Nat /\ Len(files[n]) <= MaxSteps
      /\ dir[n] = 0 => files[n] = <<>>
  BY <1>1, ConstTypes, MultiRunAssumption DEF Basics, LinkTypes, FsTypes, Directories
<1>3. /\ transport = "filesystem" => NextStep(s) = k + 1
      /\ \A m \in Drained(n) : k < m.step /\ \A x \in ToSet(m.samples) : x.step = m.step /\ x.made = g
      /\ dir[n] \in {0, g} /\ (n \in Visible => Closed(n, k))
  BY DEF Flow, Asks, Coming, Mine, Whole
<1>4. /\ \A m \in Drained(n) : m.step \in 1..MaxSteps /\ m.step \in Nat
  BY <1>1, DrainedType DEF Basics
<1>5. CASE transport = "zmq"
  <2>1. PICK o : o = Oldest(Drained(n))
    OBVIOUS
  <2>2. o \in Drained(n) /\ o.step \in 1..MaxSteps /\ k < o.step /\ Arriving(s) = o.samples
        /\ \A m \in Drained(n) : o.step <= m.step
    BY <1>1, <1>3, <1>4, <1>5, <2>1
  <2>3. Drained(n)' = Drained(n) \ {o}
    BY <1>1, <1>5, <2>1 DEF Receives
  <2>4. \A m \in Drained(n) : m # o => o.step < m.step
    BY <1>4, <2>2 DEF Link, StepsDiffer
  <2>5. dir[n] # 0 => o.step <= Len(files[n]) /\ o.samples = SamplesOf(n, o.step)
    BY <2>2 DEF Link
  <2>6. n \in Visible => o.step = k + 1
    <3>1. ASSUME n \in Visible PROVE o.step = k + 1
      <4>1. k + 1 \in (k + 1)..o.step
        BY <2>2, <1>4
      <4>2. PICK y \in Drained(n) : y.step = k + 1
        BY <1>3, <2>2, <3>1, <4>1 DEF Closed
      <4> QED BY <1>4, <2>2, <4>2
    <3> QED BY <3>1
  <2>7. Comes(s, n, k, g, o.step)
    BY <1>3, <1>4, <1>5, <2>2, <2>3, <2>4, <2>5, <2>6 DEF Comes
  <2> QED BY <2>2, <2>7
<1>6. CASE transport = "filesystem"
  <2>1. PICK h : h = k + 1
    OBVIOUS
  <2>2. h = NextStep(s) /\ h \in 1..Len(files[n]) /\ Arriving(s) = SamplesOf(n, h) /\ h \in 1..MaxSteps
    BY <1>1, <1>2, <1>3, <1>6, <2>1
  <2>3. dir[n] = g /\ \A x \in ToSet(SamplesOf(n, h)) : x.step = h /\ x.made = dir[n]
    BY <1>1, <1>3, <2>2, WrittenParts DEF Basics
  <2>4. Drained(n) = {} /\ Drained(n)' = {}
    <3>1. wire[n] = <<>> /\ pending[n] = {}
      BY <1>1, <1>6 DEF Basics, Receivers
    <3>2. Drained(n) = {}
      BY <3>1 DEF Drained, ToSet
    <3> QED BY <1>1, <1>6, <3>2 DEF Receives
  <2>5. Comes(s, n, k, g, h)
    BY <1>2, <1>3, <2>1, <2>2, <2>3, <2>4 DEF Comes
  <2> QED BY <2>2, <2>5
<1> QED BY <1>2, <1>5, <1>6

\* A buffer to which a later step's valid samples are added.
LEMMA LaterSamples ==
    ASSUME NEW b \in Seq(Samples), NEW v \in Seq(Samples), NEW k \in Nat, NEW h \in Nat, k < h,
           NEW p \in Nat, p <= k + 1,
           \A x \in ToSet(b) : x.step <= k, \A x \in ToSet(v) : x.step = h,
           IsInjective(b), IsInjective(v),
           \A i \in 1..Len(b) : p <= b[i].step,
           \A i, j \in 1..Len(b) : i < j => b[i].step <= b[j].step
    PROVE  /\ \A i \in 1..Len(b \o v) : p <= (b \o v)[i].step
           /\ \A i, j \in 1..Len(b \o v) : i < j => (b \o v)[i].step <= (b \o v)[j].step
           /\ IsInjective(b \o v) /\ ToSet(b \o v) = ToSet(b) \cup ToSet(v)
<1>1. \A x \in Samples : x.step \in Nat
  BY ConstTypes DEF Samples
<1>2. PICK c : c = b \o v
  OBVIOUS
<1>3. /\ Len(c) = Len(b) + Len(v) /\ Len(b) \in Nat /\ Len(v) \in Nat
      /\ \A i \in 1..Len(b) : c[i] = b[i]
      /\ \A i \in 1..Len(v) : c[Len(b) + i] = v[i]
  BY <1>2
<1>4. \A i \in 1..Len(b) : c[i] \in Samples /\ c[i].step <= k /\ p <= c[i].step
  <2>1. \A i \in 1..Len(b) : b[i] \in ToSet(b) /\ b[i] \in Samples
    BY ToSetSeq
  <2> QED BY <1>3, <2>1
<1>5. \A i \in 1..Len(v) : v[i].step = h
  <2>1. \A i \in 1..Len(v) : v[i] \in ToSet(v)
    BY ToSetSeq
  <2> QED BY <2>1
<1>6. \A i \in 1..Len(c) : i \in 1..Len(b) \/ (i > Len(b) /\ c[i].step = h)
  <2>1. ASSUME NEW i \in 1..Len(c), i \notin 1..Len(b) PROVE i > Len(b) /\ c[i].step = h
    <3>1. i > Len(b) /\ i - Len(b) \in 1..Len(v) /\ Len(b) + (i - Len(b)) = i
      BY <1>3, <2>1
    <3> QED BY <1>3, <1>5, <3>1
  <2> QED BY <2>1
<1>7. \A i \in 1..Len(c) : p <= c[i].step
  BY <1>1, <1>4, <1>6
<1>8. \A i, j \in 1..Len(c) : i < j => c[i].step <= c[j].step
  <2>1. ASSUME NEW i \in 1..Len(c), NEW j \in 1..Len(c), i < j PROVE c[i].step <= c[j].step
    <3>1. CASE j \in 1..Len(b)
      <4>1. i \in 1..Len(b)
        BY <1>3, <2>1, <3>1
      <4> QED BY <1>3, <2>1, <3>1, <4>1
    <3>2. CASE j \notin 1..Len(b)
      <4>1. c[j].step = h
        BY <1>6, <3>2
      <4>2. CASE i \in 1..Len(b)
        BY <1>1, <1>4, <4>1, <4>2
      <4>3. CASE i \notin 1..Len(b)
        BY <1>6, <4>1, <4>3
      <4> QED BY <4>2, <4>3
    <3> QED BY <3>1, <3>2
  <2> QED BY <2>1
<1>9. ToSet(b) \cap ToSet(v) = {}
  BY ONLY k \in Nat, h \in Nat, k < h, \A x \in ToSet(b) : x.step <= k, \A x \in ToSet(v) : x.step = h
<1>10. IsInjective(b \o v) /\ ToSet(b \o v) = ToSet(b) \cup ToSet(v)
  BY <1>9, InjectiveConcat, ToSetConcat
<1> QED BY <1>2, <1>7, <1>8, <1>10

\* What the slot of an arrival has been given then.
LEMMA ArrivalFlow ==
    ASSUME Basics, Basics', Receives, pc = "receive", pc' = "forget",
           UNCHANGED <<dir, created, files, transport, slotOf, progress, ready, selected, rankVars, reused>>,
           NEW s \in Arrivals, NEW n, n = slotOf[s], Link(n),
           NEW k \in 0..MaxSteps, NEW g \in 1..MaxCreated, Flow(s, n, k, g)
    PROVE  \E h \in 1..MaxSteps : Flow(s, n, h, g)'
<1>1. PICK h \in 1..MaxSteps : Comes(s, n, k, g, h)
  BY ReceivedStep
<1>2. /\ s \in Used /\ s \in Slots /\ n \in Names /\ Arriving(s) \in Seq(Samples) /\ IsInjective(Arriving(s))
  BY ArrivingParts
<1>3. PICK v : v = ValidPrefix(Arriving(s))
  OBVIOUS
<1>4. /\ v \in Seq(Samples) /\ IsInjective(v) /\ ToSet(v) \subseteq ToSet(Arriving(s))
      /\ buffers'[s] = buffers[s] \o v /\ buffers[s] \in Seq(Samples)
  BY <1>2, <1>3, ValidParts DEF Receives, Basics, MasterTypes
<1>5. /\ k \in Nat /\ h \in Nat /\ k < h /\ h \in 1..MaxSteps /\ progress[s] \in Nat /\ progress[s] \in 1..(k + 1)
      /\ MaxSteps \in Nat
  BY <1>1, <1>2, ConstTypes DEF Comes, Flow, Asks
<1>6. \A x \in ToSet(v) : x.step = h /\ x.made = g
  BY <1>1, <1>4 DEF Comes
<1>7. /\ \A x \in Given(s) : x.step <= k /\ x.made = g
      /\ ToSet(buffers[s]) \subseteq Given(s) /\ Fed(s) \subseteq Given(s)
  BY DEF Flow, Mine, Given
<1>8. /\ \A i \in 1..Len(buffers'[s]) : progress[s] <= buffers'[s][i].step
      /\ \A i, j \in 1..Len(buffers'[s]) : i < j => buffers'[s][i].step <= buffers'[s][j].step
      /\ IsInjective(buffers'[s]) /\ ToSet(buffers'[s]) = ToSet(buffers[s]) \cup ToSet(v)
  <2>1. PICK b : b = buffers[s]
    OBVIOUS
  <2>2. /\ b \in Seq(Samples) /\ IsInjective(b) /\ \A x \in ToSet(b) : x.step <= k
        /\ \A i \in 1..Len(b) : progress[s] <= b[i].step
        /\ \A i, j \in 1..Len(b) : i < j => b[i].step <= b[j].step
    BY <1>4, <1>7, <2>1 DEF Flow, Queue
  <2>3. progress[s] <= k + 1
    BY <1>5
  <2>4. PICK p : p = progress[s]
    OBVIOUS
  <2>5. /\ \A i \in 1..Len(b \o v) : p <= (b \o v)[i].step
        /\ \A i, j \in 1..Len(b \o v) : i < j => (b \o v)[i].step <= (b \o v)[j].step
        /\ IsInjective(b \o v) /\ ToSet(b \o v) = ToSet(b) \cup ToSet(v)
    BY <1>4, <1>5, <1>6, <2>2, <2>3, <2>4, LaterSamples
  <2> QED BY <1>4, <2>1, <2>4, <2>5
<1>9. Synced(s)' = Synced(s) /\ Training(s)' = Training(s) /\ Fed(s)' = Fed(s)
  <2>1. Synced(s)' = Synced(s)
    BY DEF Synced, rankVars
  <2>2. Training(s)' = Training(s)
    BY DEF Training
  <2> QED BY <2>1, <2>2 DEF Fed
<1>10. Given(s)' = Given(s) \cup ToSet(v)
  BY <1>8, <1>9 DEF Given
<1>11. Asks(s, h)'
  <2>1. progress'[s] \in 1..(h + 1)
    BY <1>5
  <2>2. ASSUME transport = "filesystem" PROVE NextStep(s)' = h + 1
    <3>1. h = NextStep(s) /\ received'[s] = NextStep(s) + 1
      BY <1>1, <1>2, <2>2 DEF Comes, Receives
    <3> QED BY <1>5, <3>1 DEF NextStep
  <2> QED BY <2>1, <2>2 DEF Asks
<1>12. Coming(n, h, g)'
  <2>1. \A y \in Drained(n)' : h < y.step /\ y \in Drained(n)
    BY <1>1 DEF Comes
  <2> QED BY <2>1 DEF Coming, Flow
<1>13. Mine(s, n, h, g)'
  <2>1. \A x \in Given(s)' : x.step <= h /\ x.made = g
    <3>1. ASSUME NEW x \in Given(s) PROVE x.step <= h /\ x.made = g
      <4>1. x.step <= k /\ x.made = g /\ x.step \in Nat
        <5>1. Given(s) \subseteq Samples
          <6>1. Training(s) = {}
            BY DEF Training
          <6>2. Synced(s) \subseteq Samples /\ ToSet(buffers[s]) \subseteq Samples
            BY <1>2, <1>4, ToSetSeq DEF Synced, Basics, RankTypes
          <6> QED BY <6>1, <6>2 DEF Given, Fed
        <5>2. \A y \in Samples : y.step \in Nat
          BY ConstTypes DEF Samples
        <5> QED BY <1>7, <5>1, <5>2
      <4> QED BY <1>5, <4>1
    <3>2. \A x \in ToSet(v) : x.step <= h /\ x.made = g
      BY <1>5, <1>6
    <3> QED BY <1>10, <3>1, <3>2
  <2>2. Unknown(n, g, s)'
    BY DEF Flow, Mine, Unknown, rankVars
  <2> QED BY <2>1, <2>2 DEF Mine, Flow
<1>14. Queue(s)'
  BY <1>8 DEF Queue
<1>15. Once(s)'
  <2>1. \A x \in Fed(s) : x.step # h
    <3>1. \A x \in Fed(s) : x.step <= k
      BY <1>7
    <3> QED BY <1>5, <3>1
  <2>2. ToSet(buffers'[s]) \cap Fed(s)' = {}
    BY <1>6, <1>8, <1>9, <2>1 DEF Flow, Once
  <2> QED BY <1>9, <2>2 DEF Flow, Once
<1>16. Whole(s, n, h)'
  <2>1. dir'[n] # 0 => h <= Len(files'[n])
    BY <1>1 DEF Comes
  <2>2. ASSUME n \in Visible' PROVE Given(s)' = UpTo(n, h)' /\ Closed(n, h)'
    <3>1. n \in Visible /\ dir[n] # 0 /\ ~ EvictedBy(Arriving(s))
      BY <1>2, <2>2 DEF Visible, Receives
    <3>2. h = k + 1 /\ h <= Len(files[n]) /\ Arriving(s) = SamplesOf(n, h) /\ v = Arriving(s)
      BY <1>1, <1>3, <3>1 DEF Comes, EvictedBy
    <3>3. Given(s) = UpTo(n, k) /\ Closed(n, k)
      BY <3>1 DEF Flow, Whole
    <3>4. UpTo(n, k + 1) = UpTo(n, k) \cup ToSet(SamplesOf(n, k + 1))
      BY <1>2, <1>5, <3>2, UpToMore DEF Basics, FsTypes
    <3>5. UpTo(n, h)' = UpTo(n, h)
      BY DEF UpTo, SamplesOf, SamplesIn
    <3>6. \A y \in Drained(n) : y.step # h /\ y.step >= h => y \in Drained(n)'
      <4>1. \A y \in Drained(n) : y.step \in Nat
        BY <1>2, DrainedType DEF Basics
      <4> QED BY <1>1, <1>5, <4>1 DEF Comes
    <3>7. Closed(n, h)'
      <4>1. ASSUME NEW y \in Drained(n)', NEW j \in (h + 1)..y.step PROVE \E z \in Drained(n)' : z.step = j
        <5>1. y \in Drained(n) /\ j \in (k + 1)..y.step
          BY <1>1, <1>5, <3>2 DEF Comes
        <5>2. PICK z \in Drained(n) : z.step = j
          BY <3>3, <5>1 DEF Closed
        <5> QED BY <1>5, <3>6, <5>2
      <4>2. ASSUME transport = "zmq", Len(files[n]) < MaxSteps, NEW j \in (h + 1)..Len(files[n])
            PROVE  \E z \in Drained(n)' : z.step = j
        <5>1. j \in (k + 1)..Len(files[n])
          BY <1>5, <3>2
        <5>2. PICK z \in Drained(n) : z.step = j
          BY <3>3, <4>2, <5>1 DEF Closed
        <5> QED BY <1>5, <3>6, <5>2
      <4> QED BY <4>1, <4>2 DEF Closed
    <3> QED BY <1>10, <3>2, <3>3, <3>4, <3>5, <3>7
  <2> QED BY <2>1, <2>2 DEF Whole
<1>17. Flow(s, n, h, g)'
  BY <1>11, <1>12, <1>13, <1>14, <1>15, <1>16 DEF Flow
<1> QED BY <1>17

\* Each slot for which there is a batch gets one, the others nothing.
LEMMA ReceiveFlows ==
    ASSUME Basics, Basics', Flows, Receive
    PROVE  Flows'
<1>1. CASE pc' = "crashed"
  BY <1>1 DEF Flows
<1>2. CASE pc' # "crashed"
  <2>1. /\ Receives /\ pc = "receive" /\ pc' = "forget"
        /\ UNCHANGED <<dir, created, files, published, transport, lost, slept, slotOf, progress,
                       ready, position, selected, rankVars, spoilt, reused>>
    BY <1>2, ReceiveParts DEF Receive
  <2>2. Sound' = Sound /\ Used' = Used /\ Held(slotOf)' = Held(slotOf) /\ created' = created
        /\ Visible' \subseteq Visible /\ adapter' = adapter /\ dir' = dir /\ files' = files
    BY <2>1 DEF Sound, Used, Visible, Held, rankVars, Receives
  <2>3. \A n \in Names : wire'[n] = <<>> /\ Drained(n)' = pending'[n] /\ Drained(n)' \subseteq Drained(n)
    <3>1. ASSUME NEW n \in Names
          PROVE  wire'[n] = <<>> /\ Drained(n)' = pending'[n] /\ pending'[n] \subseteq Drained(n)
      BY <2>1 DEF Receives
    <3> QED BY <3>1
  <2>4. \A n \in Names : n \notin {slotOf[s] : s \in Arrivals} => Drained(n)' = Drained(n)
    BY <2>1 DEF Receives
  <2>5. ASSUME NEW n \in Names, Drained(n)' = Drained(n), NEW k, Closed(n, k) PROVE Closed(n, k)'
    BY <2>1, <2>5 DEF Closed
  <2>6. ASSUME NEW n \in Sound' PROVE Link(n)' /\ Known(n)' /\ Waiting(n)'
    <3>1. n \in Sound /\ n \in Names /\ Link(n) /\ Known(n) /\ Waiting(n)
      BY <2>1, <2>2, <2>6 DEF Flows, Sound
    <3>2. Link(n)'
      <4>1. \A j : SamplesOf(n, j)' = SamplesOf(n, j)
        BY <2>1 DEF SamplesOf, SamplesIn
      <4>2. StepsDiffer(Drained(n)')
        BY <2>3, <3>1 DEF Link, StepsDiffer
      <4>3. Len(wire'[n]) = 0
        BY <2>3, <3>1
      <4>4. \A y \in Drained(n)' : y \in Drained(n)
        BY <2>3, <3>1
      <4>5. dir'[n] # 0 => \A m \in Drained(n)' : m.step <= Len(files'[n]) /\ m.samples = SamplesOf(n, m.step)'
        <5>1. ASSUME dir[n] # 0, NEW m \in Drained(n)' PROVE m.step <= Len(files'[n]) /\ m.samples = SamplesOf(n, m.step)'
          BY <2>2, <3>1, <4>1, <4>4, <5>1 DEF Link
        <5> QED BY <2>2, <5>1
      <4> QED BY <4>2, <4>3, <4>5 DEF Link
    <3>3. Known(n)'
      BY <2>2, <3>1 DEF Known
    <3>4. Waiting(n)'
      <4>1. ASSUME n \in Visible' \ Held(slotOf) PROVE Drained(n)' = Drained(n) /\ Closed(n, 0)
        <5>1. \A s \in Arrivals : slotOf[s] \in Held(slotOf)
          BY DEF Arrivals, Used, Held
        <5> QED BY <2>2, <2>4, <3>1, <4>1, <5>1 DEF Waiting
      <4>2. n \in Visible' \ Held(slotOf) => Closed(n, 0)'
        BY <2>5, <3>1, <4>1
      <4> QED BY <2>2, <3>1, <4>2 DEF Waiting
    <3> QED BY <3>2, <3>3, <3>4
  <2>7. ASSUME NEW s \in Used', slotOf'[s] \in Sound'
        PROVE  \E n : n = slotOf'[s] /\ \E k \in 0..MaxSteps, g \in 1..MaxCreated : Flow(s, n, k, g)'
    <3>1. PICK n : n = slotOf[s] /\ n = slotOf'[s] /\ n \in Sound /\ n \in Names /\ s \in Used /\ Link(n)
      BY <2>1, <2>2, <2>7 DEF Sound, Flows
    <3>2. PICK k \in 0..MaxSteps, g \in 1..MaxCreated : Flow(s, n, k, g)
      BY <2>1, <3>1, FlowOf
    <3>3. CASE s \in Arrivals
      <4>1. \E h \in 1..MaxSteps : Flow(s, n, h, g)'
        BY <2>1, <3>1, <3>2, <3>3, ArrivalFlow
      <4> QED BY <3>1, <4>1, ConstTypes
    <3>4. CASE s \notin Arrivals
      <4>1. Drained(n)' = Drained(n)
        <5>1. \A t \in Arrivals : slotOf[t] # n
          BY <3>1, <3>4 DEF Arrivals, Basics, SlotsDiffer
        <5> QED BY <2>4, <3>1, <5>1
      <4>2. s \in Slots /\ buffers'[s] = buffers[s]
        BY <2>1, <3>1, <3>4 DEF Receives, Used
      <4>3. Fed(s)' = Fed(s) /\ Given(s)' = Given(s) /\ Synced(s)' = Synced(s) /\ Training(s)' = Training(s)
        <5>1. Synced(s)' = Synced(s)
          BY <2>1 DEF Synced, rankVars
        <5>2. Training(s)' = Training(s)
          BY <2>1 DEF Training
        <5>3. Fed(s)' = Fed(s)
          BY <5>1, <5>2 DEF Fed
        <5> QED BY <4>2, <5>1, <5>2, <5>3 DEF Given
      <4>4. Asks(s, k)'
        <5>1. ASSUME transport = "filesystem" PROVE NextStep(s)' = k + 1
          <6>1. received'[s] = NextStep(s) /\ NextStep(s) = k + 1 /\ k \in Nat
            BY <2>1, <3>1, <3>2, <3>4, <4>2, <5>1, ConstTypes DEF Receives, Flow, Asks
          <6> QED BY <6>1 DEF NextStep
        <5> QED BY <2>1, <3>2, <5>1 DEF Flow, Asks
      <4>5. Coming(n, k, g)'
        BY <3>2, <4>1 DEF Flow, Coming
      <4>6. Mine(s, n, k, g)'
        <5>1. Unknown(n, g, s)'
          BY <2>1, <3>2 DEF Flow, Mine, Unknown, rankVars
        <5> QED BY <2>2, <3>2, <4>3, <5>1 DEF Flow, Mine
      <4>7. Queue(s)' /\ Once(s)'
        BY <2>1, <3>2, <4>2, <4>3 DEF Flow, Queue, Once
      <4>8. Whole(s, n, k)'
        <5>1. UpTo(n, k)' = UpTo(n, k)
          BY <2>1 DEF UpTo, SamplesOf, SamplesIn
        <5>2. Closed(n, k) => Closed(n, k)'
          BY <2>5, <3>1, <4>1
        <5> QED BY <2>2, <3>2, <4>3, <5>1, <5>2 DEF Flow, Whole
      <4>9. Flow(s, n, k, g)'
        BY <4>4, <4>5, <4>6, <4>7, <4>8 DEF Flow
      <4> QED BY <3>1, <4>9
    <3> QED BY <3>3, <3>4
  <2> QED BY <2>6, <2>7, FlowsFrom
<1> QED BY <1>1, <1>2

\* What a slot was given stays the same when a part of it is packed.
LEMMA PackFlow ==
    ASSUME Basics, Basics', pc = "pack", pc' = "train",
           UNCHANGED <<fsVars, linkVars, slotOf, received, rankVars, spoilt, reused>>,
           NEW cnt, Packs(cnt), Advances(cnt),
           NEW s \in Used, NEW n, n = slotOf[s],
           NEW k \in 0..MaxSteps, NEW g \in 1..MaxCreated, Flow(s, n, k, g)
    PROVE  Flow(s, n, k, g)'
<1>1. /\ s \in Slots /\ buffers[s] \in Seq(Samples) /\ progress[s] \in Nat /\ k \in Nat
      /\ ready = {} /\ n \in Names /\ progress \in [Slots -> Nat] /\ s \in Used'
  <2>1. s \in Slots /\ s \in Used' /\ slotOf[s] # Free
    BY DEF Used
  <2>2. /\ buffers \in [Slots -> Seq(Samples)] /\ progress \in [Slots -> Nat]
        /\ slotOf \in [Slots -> Names \cup {Free}] /\ ready = {}
    BY DEF Basics, MasterTypes, Flags
  <2>3. k \in Nat
    BY ConstTypes
  <2> QED BY <2>1, <2>2, <2>3
<1>2. PICK b : b = buffers[s]
  OBVIOUS
<1>3. PICK c : c = cnt[s]
  OBVIOUS
<1>4. PICK r : r = buffers'[s]
  OBVIOUS
<1>5. PICK p : p = progress[s]
  OBVIOUS
<1> DEFINE taken == {b[i] : i \in 1..c}
<1>6. /\ c \in 0..Len(b) /\ r = SubSeq(b, c + 1, Len(b)) /\ b \in Seq(Samples) /\ Len(b) \in Nat
      /\ \A i \in 1..c : i \in 1..Len(b) /\ b[i].step <= p
      /\ ToSet(Taken(selected', s)) = {<<s, b[i]>> : i \in 1..c}
  BY <1>1, <1>2, <1>3, <1>4, <1>5 DEF Packs
<1>7. /\ \A i \in 1..Len(b) : p <= b[i].step
      /\ \A i, j \in 1..Len(b) : i < j => b[i].step <= b[j].step
      /\ IsInjective(b) /\ p \in 1..(k + 1)
  BY <1>2, <1>5 DEF Flow, Queue, Asks
<1>8. RestOf(r, b, c, Samples)
  BY <1>6, RestParts, Zenon
<1>9. /\ r \in Seq(Samples) /\ Len(r) = Len(b) - c
      /\ \A i \in 1..Len(r) : c + i \in 1..Len(b) /\ r[i] = b[c + i]
      /\ ToSet(b) = taken \cup ToSet(r) /\ IsInjective(r) /\ taken \cap ToSet(r) = {}
  BY <1>7, <1>8 DEF RestOf
<1>10. \A i \in 1..Len(b) : b[i] \in Samples /\ b[i].step \in Nat /\ b[i] \in ToSet(b)
  <2>1. \A x \in Samples : x.step \in Nat
    BY ConstTypes DEF Samples
  <2>2. \A i \in 1..Len(b) : b[i] \in Samples /\ b[i] \in ToSet(b)
    BY <1>6, ToSetSeq
  <2> QED BY <2>1, <2>2
<1>11. \A x \in taken : x.step = p
  <2>1. \A i \in 1..c : b[i].step = p
    BY <1>1, <1>5, <1>6, <1>7, <1>10
  <2> QED BY <2>1
<1> HIDE DEF taken
<1>12. Training(s)' = taken /\ Training(s) = {} /\ Synced(s)' = Synced(s)
  <2>1. {x[2] : x \in ToSet(Taken(selected', s))} = taken
    <3>1. PICK T : T = ToSet(Taken(selected', s))
      OBVIOUS
    <3>2. T = {<<s, b[i]>> : i \in 1..c}
      BY <1>6, <3>1
    <3>3. \A x \in T : \E i \in 1..c : x[2] = b[i]
      BY <3>2
    <3>4. \A i \in 1..c : <<s, b[i]>> \in T /\ <<s, b[i]>>[2] = b[i]
      BY <3>2
    <3>5. {x[2] : x \in T} = {b[i] : i \in 1..c}
      <4>1. ASSUME NEW x \in T PROVE x[2] \in {b[i] : i \in 1..c}
        BY <3>3
      <4>2. ASSUME NEW i \in 1..c PROVE b[i] \in {x[2] : x \in T}
        <5>1. \E x \in T : x[2] = b[i]
          BY <3>4
        <5> QED BY <5>1
      <4> QED BY <4>1, <4>2
    <3> QED BY <3>1, <3>5 DEF taken
  <2>2. Training(s)' = {x[2] : x \in ToSet(Taken(selected', s))}
    BY DEF Training, Taken
  <2>3. Training(s) = {}
    BY DEF Training
  <2>4. Synced(s)' = Synced(s)
    BY DEF Synced, rankVars
  <2> QED BY <2>1, <2>2, <2>3, <2>4
<1>13. Fed(s) = Synced(s) /\ Fed(s)' = Synced(s) \cup taken /\ Given(s)' = Given(s)
  <2>1. Fed(s) = Synced(s) /\ Fed(s)' = Synced(s) \cup taken
    BY <1>12 DEF Fed
  <2>2. Given(s) = Synced(s) \cup ToSet(b)
    BY <1>2, <2>1 DEF Given
  <2>3. Given(s)' = Synced(s) \cup taken \cup ToSet(r)
    BY <1>4, <2>1 DEF Given
  <2> QED BY <1>9, <2>1, <2>2, <2>3
\* The step that is done, if it is.
<1>14. /\ s \in Finished(cnt) <=> (c > 0 /\ (r = <<>> \/ Head(r).step > p))
       /\ progress'[s] = (IF s \in Finished(cnt) THEN p + 1 ELSE p)
       /\ s \in ready' <=> s \in Finished(cnt)
  BY <1>1, <1>3, <1>4, <1>5 DEF Finished, StepDone, Advances
<1>15. ASSUME c > 0 PROVE p <= k
  <2>1. 1 \in 1..c /\ 1 \in 1..Len(b)
    BY <1>6, <1>15
  <2>2. b[1] \in Given(s) /\ b[1].step = p
    <3>1. b[1] \in taken
      BY <2>1 DEF taken
    <3>2. b[1] \in ToSet(b)
      BY <1>10, <2>1
    <3> QED BY <1>2, <1>11, <3>1, <3>2 DEF Given
  <2> QED BY <2>2 DEF Flow, Mine
<1>16. Asks(s, k)'
  <2>1. progress'[s] \in 1..(k + 1)
    BY <1>1, <1>5, <1>7, <1>14, <1>15
  <2>2. ASSUME transport = "filesystem" PROVE NextStep(s)' = k + 1
    <3>1. NextStep(s) = k + 1
      BY <2>2 DEF Flow, Asks
    <3>2. received[s] = 0 => progress[s] = 1 /\ progress'[s] = 1
      BY <1>1, <2>2 DEF Basics, Receivers, linkVars
    <3> QED BY <3>1, <3>2 DEF NextStep
  <2> QED BY <2>1, <2>2 DEF Asks, linkVars
<1>17. Coming(n, k, g)'
  BY DEF Flow, Coming, Drained, linkVars
<1>18. Mine(s, n, k, g)'
  <2>1. Unknown(n, g, s)'
    BY DEF Flow, Mine, Unknown, rankVars
  <2> QED BY <1>13, <2>1 DEF Flow, Mine, fsVars
<1>19. Queue(s)'
  <2>1. \A i, j \in 1..Len(r) : i < j => r[i].step <= r[j].step
    <3>1. ASSUME NEW i \in 1..Len(r), NEW j \in 1..Len(r), i < j PROVE r[i].step <= r[j].step
      <4>1. c + i < c + j /\ c + i \in 1..Len(b) /\ c + j \in 1..Len(b)
        BY <1>6, <1>9, <3>1
      <4> QED BY <1>7, <1>9, <4>1
    <3> QED BY <3>1
  <2>2. \A i \in 1..Len(r) : p <= r[i].step /\ r[i].step \in Nat
    BY <1>7, <1>9, <1>10
  <2>3. ASSUME s \in Finished(cnt), NEW i \in 1..Len(r) PROVE p + 1 <= r[i].step
    <3>1. r # <<>> /\ Head(r) = r[1] /\ 1 \in 1..Len(r)
      BY <1>9, <2>3
    <3>2. p < r[1].step
      BY <1>14, <2>2, <2>3, <3>1, <1>1, <1>5
    <3>3. r[1].step <= r[i].step
      <4>1. i = 1 \/ 1 < i
        BY <2>3
      <4> QED BY <2>1, <2>2, <3>1, <4>1
    <3> QED BY <1>1, <1>5, <2>2, <3>1, <3>2, <3>3
  <2>4. \A i \in 1..Len(r) : progress'[s] <= r[i].step
    BY <1>14, <2>2, <2>3
  <2> QED BY <1>4, <1>9, <2>1, <2>4 DEF Queue
<1>20. Once(s)'
  <2>1. ToSet(b) \cap Synced(s) = {} /\ \A x \in Synced(s) : x.step <= p
    BY <1>2, <1>5, <1>13 DEF Flow, Once
  <2>2. ToSet(r) \cap Fed(s)' = {} /\ Synced(s) \cap taken = {}
    BY <1>9, <1>13, <2>1
  <2>3. \A x \in Fed(s)' : x.step <= p
    BY <1>1, <1>5, <1>11, <1>13, <2>1
  <2>4. Fed(s)' \subseteq Samples /\ \A x \in Samples : x.step \in Nat
    <3>1. Synced(s) \subseteq Samples
      BY <1>1 DEF Synced, Basics, RankTypes
    <3>2. ToSet(b) \subseteq Samples
      BY <1>6, ToSetSeq
    <3>3. \A x \in Samples : x.step \in Nat
      BY ConstTypes DEF Samples
    <3> QED BY <1>9, <1>13, <3>1, <3>2, <3>3
  <2>5. \A x \in Fed(s)' : x.step <= progress'[s]
    BY <1>1, <1>5, <1>14, <2>3, <2>4
  <2>6. s \in ready' => 1 < progress'[s] /\ \A x \in Fed(s)' : x.step < progress'[s]
    BY <1>1, <1>5, <1>7, <1>14, <2>3, <2>4
  <2> QED BY <1>4, <1>12, <2>2, <2>5, <2>6 DEF Once
<1>21. Whole(s, n, k)'
  <2>1. SameRun(n)
    BY DEF SameRun, fsVars, linkVars
  <2>2. UpTo(n, k)' = UpTo(n, k) /\ (Closed(n, k) => Closed(n, k)') /\ Visible' = Visible
    BY <2>1, RunSame DEF Visible, fsVars
  <2> QED BY <1>13, <2>2 DEF Flow, Whole, fsVars
<1> QED BY <1>16, <1>17, <1>18, <1>19, <1>20, <1>21 DEF Flow

\* Nothing else of the runs changes with it.
LEMMA MasterOnly ==
    ASSUME UNCHANGED <<fsVars, linkVars, slotOf, reused>>, NEW n \in Sound, Link(n), Waiting(n),
           n \notin Held(slotOf) => \A t \in Slots : \A y \in adapter'[t] : y.run = n => y \in adapter[t]
    PROVE  Link(n)' /\ Waiting(n)'
<1>1. SameRun(n)
  BY DEF SameRun, fsVars, linkVars
<1>2. Link(n)' /\ (Closed(n, 0) => Closed(n, 0)')
  BY <1>1, RunSame
<1>3. Visible' = Visible /\ Held(slotOf)' = Held(slotOf) /\ dir' = dir
  BY DEF Visible, Held, fsVars
<1> QED BY <1>2, <1>3 DEF Waiting

\* pack() moves samples within what each run was given.
LEMMA PackFlows ==
    ASSUME Basics, Basics', Flows, Pack
    PROVE  Flows'
<1>1. /\ pc = "pack" /\ UNCHANGED <<fsVars, linkVars, slotOf, received, rankVars, spoilt, reused>>
  BY DEF Pack
<1>2. PICK cnt : /\ Packs(cnt)
                 /\ IF SingleStep(selected') THEN pc' = "train" /\ Advances(cnt)
                    ELSE pc' = "crashed" /\ UNCHANGED <<progress, ready>>
  BY PackParts DEF Basics
<1>3. CASE pc' = "crashed"
  BY <1>3 DEF Flows
<1>4. CASE pc' # "crashed"
  <2>1. pc' = "train" /\ Advances(cnt) /\ Sound' = Sound /\ Used' = Used /\ adapter' = adapter
    BY <1>1, <1>2, <1>4 DEF Sound, Used, rankVars
  <2>2. ASSUME NEW n \in Sound' PROVE Link(n)' /\ Known(n)' /\ Waiting(n)'
    <3>1. n \in Sound /\ Link(n) /\ Known(n) /\ Waiting(n)
      BY <1>1, <2>1, <2>2 DEF Flows
    <3>2. Known(n)'
      BY <1>1, <2>1, <3>1 DEF Known, fsVars
    <3> QED BY <1>1, <2>1, <3>1, <3>2, MasterOnly
  <2>3. ASSUME NEW s \in Used', slotOf'[s] \in Sound'
        PROVE  \E n : n = slotOf'[s] /\ \E k \in 0..MaxSteps, g \in 1..MaxCreated : Flow(s, n, k, g)'
    <3>1. PICK n : n = slotOf[s] /\ n = slotOf'[s] /\ n \in Sound /\ s \in Used
      BY <1>1, <2>1, <2>3
    <3>2. PICK k \in 0..MaxSteps, g \in 1..MaxCreated : Flow(s, n, k, g)
      BY <1>1, <3>1, FlowOf
    <3>3. Flow(s, n, k, g)'
      BY <1>1, <1>2, <2>1, <3>1, <3>2, PackFlow
    <3> QED BY <3>1, <3>3
  <2> QED BY <2>2, <2>3, FlowsFrom
<1> QED BY <1>3, <1>4

\* What a training step leaves in the adapter of a slot in use: what its run
\* was given, whether the slot was its own before or not.
LEMMA TrainedSlot ==
    ASSUME Basics, pc = "train", adapter' = [s \in Slots |->
               {x[2] : x \in ToSet(Taken(selected, s))} \cup
               IF s \in Resets(lastSynced, slotOf) THEN {} ELSE adapter[s]],
           NEW s \in Used
    PROVE  adapter'[s] = Fed(s)
<1>1. s \in Slots /\ slotOf[s] # Free
  BY DEF Used
<1>2. s \in Resets(lastSynced, slotOf) <=> slotOf[s] \notin Held(lastSynced)
  BY <1>1 DEF Resets, TakenBy, Held
<1>3. Training(s) = {x[2] : x \in ToSet(Taken(selected, s))}
  BY DEF Training
<1> DEFINE left(t) == IF t \in Resets(lastSynced, slotOf) THEN {} ELSE adapter[t]
           new(t) == {x[2] : x \in ToSet(Taken(selected, t))}
<1>4. adapter' = [t \in Slots |-> new(t) \cup left(t)]
  OBVIOUS
<1>5. left(s) = Synced(s)
  BY <1>2 DEF Synced
<1> HIDE DEF left, new
<1>6. adapter'[s] = new(s) \cup left(s)
  BY <1>1, <1>4
<1> QED BY <1>3, <1>5, <1>6 DEF Fed, new

\* The training step moves them into the adapters, after the resets.
LEMMA TrainFlows ==
    ASSUME Basics, Basics', Flows, TrainStep
    PROVE  Flows'
<1>1. /\ pc = "train" /\ UNCHANGED <<fsVars, linkVars, slept, mapVars, packVars, spoilt, reused>>
  BY DEF TrainStep
<1>2. CASE pc' = "crashed"
  BY <1>2 DEF Flows
<1>3. CASE pc' # "crashed"
  <2>1. /\ adapter' = [s \in Slots |->
                         {x[2] : x \in ToSet(Taken(selected, s))} \cup
                         IF s \in Resets(lastSynced, slotOf) THEN {} ELSE adapter[s]]
        /\ lastSynced' = slotOf /\ pc' = "broadcast"
    BY <1>3, Zenon DEF TrainStep
  <2>2. Sound' = Sound /\ Used' = Used /\ created' = created /\ slotOf' = slotOf /\ Visible' = Visible
    BY <1>1 DEF Sound, Used, mapVars, fsVars, Visible
  <2>3. ASSUME NEW t \in Slots, NEW y \in adapter'[t]
        PROVE  \/ y \in adapter[t]
               \/ t \in Used /\ y \in Training(t) /\ y.run = slotOf[t]
    <3>1. adapter'[t] \subseteq {x[2] : x \in ToSet(Taken(selected, t))} \cup adapter[t]
      BY <2>1
    <3>2. Training(t) = {x[2] : x \in ToSet(Taken(selected, t))}
      BY <1>1 DEF Training
    <3> QED BY <1>1, <2>3, <3>1, <3>2, TrainingParts
  <2>4. ASSUME NEW n \in Sound' PROVE Link(n)' /\ Known(n)' /\ Waiting(n)'
    <3>1. n \in Sound /\ Link(n) /\ Known(n) /\ Waiting(n) /\ n # Free
      BY <1>1, <2>2, <2>4, ConstTypes DEF Flows, Sound
    <3>2. Known(n)'
      <4>1. ASSUME NEW t \in Slots, NEW y \in adapter'[t], y.run = n PROVE y.made <= created
        <5>1. CASE y \in adapter[t]
          BY <3>1, <4>1, <5>1 DEF Known
        <5>2. CASE t \in Used /\ y \in Training(t) /\ y.run = slotOf[t]
          <6>1. PICK k \in 0..MaxSteps, g \in 1..MaxCreated : Flow(t, n, k, g)
            BY <1>1, <3>1, <4>1, <5>2, FlowOf
          <6> QED BY <5>2, <6>1 DEF Flow, Mine, Given, Fed
        <5> QED BY <2>3, <4>1, <5>1, <5>2
      <4> QED BY <2>2, <4>1 DEF Known
    <3>3. n \notin Held(slotOf) => \A t \in Slots : \A y \in adapter'[t] : y.run = n => y \in adapter[t]
      BY <2>3, <3>1 DEF Held
    <3> QED BY <1>1, <2>2, <3>1, <3>2, <3>3, MasterOnly
  <2>5. ASSUME NEW s \in Used', slotOf'[s] \in Sound'
        PROVE  \E n : n = slotOf'[s] /\ \E k \in 0..MaxSteps, g \in 1..MaxCreated : Flow(s, n, k, g)'
    <3>1. PICK n : n = slotOf[s] /\ n = slotOf'[s] /\ n \in Sound /\ s \in Used /\ s \in Slots /\ n # Free
      BY <2>2, <2>5 DEF Used
    <3>2. PICK k \in 0..MaxSteps, g \in 1..MaxCreated : Flow(s, n, k, g)
      BY <1>1, <3>1, FlowOf
    <3>3. adapter'[s] = Fed(s)
      BY <1>1, <2>1, <3>1, TrainedSlot
    <3>4. Synced(s)' = Fed(s) /\ Training(s)' = {} /\ Fed(s)' = Fed(s) /\ Given(s)' = Given(s)
      <4>1. slotOf'[s] \in Held(lastSynced')
        BY <2>1, <2>2, <3>1 DEF Held
      <4>2. Synced(s)' = Fed(s)
        BY <3>3, <4>1 DEF Synced
      <4>3. Training(s)' = {}
        BY <2>1 DEF Training
      <4>4. Fed(s)' = Fed(s)
        BY <4>2, <4>3 DEF Fed
      <4> QED BY <1>1, <4>2, <4>3, <4>4 DEF Given, packVars
    <3>5. Unknown(n, g, s)'
      <4>1. ASSUME NEW t \in Slots, NEW y \in adapter'[t], y.run = n, ~ (y.made < g) PROVE t = s
        <5>1. CASE y \in adapter[t]
          BY <3>2, <4>1, <5>1 DEF Flow, Mine, Unknown
        <5>2. CASE t \in Used /\ y.run = slotOf[t]
          BY <3>1, <4>1, <5>2 DEF Basics, SlotsDiffer
        <5> QED BY <2>3, <4>1, <5>1, <5>2
      <4>2. lastSynced'[s] = n
        BY <2>1, <3>1
      <4> QED BY <4>1, <4>2 DEF Unknown
    <3>6. Mine(s, n, k, g)'
      BY <1>1, <3>2, <3>4, <3>5 DEF Flow, Mine, fsVars
    <3>7. Asks(s, k)' /\ Coming(n, k, g)' /\ Queue(s)'
      BY <1>1, <3>2 DEF Flow, Asks, NextStep, Coming, Drained, Queue, linkVars, mapVars, packVars
    <3>8. Once(s)'
      BY <1>1, <3>2, <3>4 DEF Flow, Once, mapVars, packVars
    <3>9. Whole(s, n, k)'
      <4>1. SameRun(n)
        BY <1>1 DEF SameRun, fsVars, linkVars
      <4>2. UpTo(n, k)' = UpTo(n, k) /\ (Closed(n, k) => Closed(n, k)')
        BY <4>1, RunSame
      <4> QED BY <1>1, <2>2, <3>2, <3>4, <4>2 DEF Flow, Whole, fsVars
    <3>10. Flow(s, n, k, g)'
      BY <3>6, <3>7, <3>8, <3>9 DEF Flow
    <3> QED BY <3>1, <3>10
  <2> QED BY <2>4, <2>5, FlowsFrom
<1> QED BY <1>2, <1>3

\* No run is there yet.
LEMMA InitFlows == Init => Flows
<1> SUFFICES ASSUME Init PROVE Flows
  OBVIOUS
<1>1. Used = {} /\ Visible = {} /\ \A s \in Slots : adapter[s] = {}
  BY DEF Init, Used, Visible
<1>2. \A n \in Names : wire[n] = <<>> /\ pending[n] = {} /\ Drained(n) = {} /\ dir[n] = 0
  BY DEF Init, Drained, ToSet
<1>3. \A n \in Sound : Link(n) /\ Known(n) /\ Waiting(n)
  BY <1>1, <1>2 DEF Sound, Link, StepsDiffer, Known, Waiting
<1> QED BY <1>1, <1>3 DEF Flows

\* Every step preserves the flows.
LEMMA NextFlows ==
    ASSUME Basics, Basics', Flows, Late(lastSynced), [Next]_vars
    PROVE  Flows'
<1>1. CASE UNCHANGED vars
  <2>1. UNCHANGED <<fsVars, linkVars, pc, slept, mapVars, packVars, rankVars, spoilt, reused>>
    BY <1>1 DEF vars
  <2>2. CASE pc = "crashed"
    BY <2>1, <2>2 DEF Flows
  <2>3. CASE pc # "crashed"
    <3>1. \A n : SameRun(n)
      BY <2>1 DEF SameRun, fsVars, linkVars
    <3>2. \A s : SameSlot(s)
      <4>1. UNCHANGED <<transport, slotOf, progress, received, buffers, rankVars, pc, selected>> /\ ready' = ready
        BY <2>1 DEF linkVars, mapVars, packVars
      <4> QED BY <4>1, SlotsSame
    <3>3. Sound' = Sound /\ Used' = Used /\ Held(slotOf)' = Held(slotOf) /\ created' = created
          /\ Visible' = Visible /\ adapter' = adapter /\ slotOf' = slotOf
      BY <2>1 DEF Sound, Used, mapVars, Visible, Held, rankVars, fsVars
    <3>4. ASSUME NEW n \in Sound' PROVE Link(n)' /\ Known(n)' /\ Waiting(n)'
      <4>1. n \in Sound /\ Link(n) /\ Known(n) /\ Waiting(n) /\ SameRun(n)
        BY <2>3, <3>1, <3>3, <3>4 DEF Flows
      <4>2. Link(n)'
        BY <4>1, RunSame
      <4>3. Known(n)'
        BY <3>3, <4>1 DEF Known
      <4> QED BY <3>3, <4>1, <4>2, <4>3, WaitingSame
    <3>5. ASSUME NEW s \in Used', slotOf'[s] \in Sound'
          PROVE  \E n : n = slotOf'[s] /\ \E k \in 0..MaxSteps, g \in 1..MaxCreated : Flow(s, n, k, g)'
      <4>1. PICK n : n = slotOf[s] /\ n = slotOf'[s] /\ n \in Sound /\ s \in Used
        BY <3>3, <3>5
      <4>2. PICK k \in 0..MaxSteps, g \in 1..MaxCreated : Flow(s, n, k, g)
        BY <2>3, <4>1, FlowOf
      <4>3. g <= created'
        BY <3>3, <4>2 DEF Flow, Mine
      <4>4. Flow(s, n, k, g)'
        BY <3>1, <3>2, <3>3, <4>2, <4>3, FlowSame, Zenon
      <4> QED BY <4>1, <4>4
    <3> QED BY <3>4, <3>5, FlowsFrom
  <2> QED BY <2>2, <2>3
<1>2. CASE \E n \in Names : CreateRun(n) \/ DeleteRun(n) \/ Write(n) \/ Close(n)
  BY <1>2, CreateFlows, DeleteFlows, WriteFlows, CloseFlows
<1>3. CASE Discover \/ Forget
  <2>1. /\ DiscoverRuns /\ pc \in {"discover", "forget"} /\ pc' \in {"receive", "pack"}
        /\ UNCHANGED <<fsVars, linkVars, slept, ready, position, selected, rankVars, spoilt, reused>>
    BY <1>3 DEF Discover, Forget
  <2> QED BY <2>1, DiscoverFlows
<1>4. CASE Sleep \/ Broadcast
  <2>1. /\ pc \notin {"crashed", "train"} /\ pc' # "train" /\ ready' \subseteq ready
        /\ UNCHANGED <<dir, created, evicted, files, linkVars, mapVars, buffers, rankVars, reused>>
    BY <1>4 DEF Sleep, Broadcast, fsVars, packVars
  <2> QED BY <2>1, QuietFlows
<1>5. CASE Receive \/ Pack \/ TrainStep
  BY <1>5, ReceiveFlows, PackFlows, TrainFlows
<1> QED BY <1>1, <1>2, <1>3, <1>4, <1>5 DEF Next, Master

-----------------------------------------------------------------------------
(* No crash, and what is published                                         *)

\* With no name reused every name is sound.
LEMMA AllSound == reused = {} => Sound = Names
BY DEF Sound

\* pack() never takes samples of two steps from one slot: those before the
\* current step are gone, and those after it are left.
LEMMA OneStep ==
    ASSUME Basics, Flows, Pack, reused = {}
    PROVE  SingleStep(selected')
<1>1. pc = "pack" /\ Sound = Names
  BY AllSound DEF Pack
<1>2. PICK cnt : Packs(cnt)
  BY PackParts DEF Basics
<1>3. selected' \in Seq(Slots \X Samples)
  BY PackParts DEF Basics
<1>4. \A x \in ToSet(selected') : x[1] \in Slots /\ x[2].step = progress[x[1]]
  <2>1. ASSUME NEW x \in ToSet(selected') PROVE x[1] \in Slots /\ x[2].step = progress[x[1]]
    <3>1. PICK s : s = x[1] /\ s \in Slots
      BY <1>2, <2>1 DEF Packs
    <3>2. PICK i \in 1..cnt[s] : x[2] = buffers[s][i]
      BY <1>2, <2>1, <3>1 DEF Packs
    <3>3. /\ i \in 1..Len(buffers[s]) /\ buffers[s][i].step <= progress[s]
          /\ buffers[s] \in Seq(Samples) /\ progress[s] \in Nat
      BY <1>2, <3>1, <3>2 DEF Packs, Basics, MasterTypes
    <3>4. buffers[s] # <<>>
      BY <3>3
    <3>5. s \in Used /\ slotOf[s] \in Sound
      BY <1>1, <3>1, <3>4 DEF Basics, Progress, MasterTypes, Used
    <3>6. PICK k \in 0..MaxSteps, g \in 1..MaxCreated : Flow(s, slotOf[s], k, g)
      BY <1>1, <3>5 DEF Flows
    <3>7. progress[s] <= buffers[s][i].step
      BY <3>3, <3>6 DEF Flow, Queue
    <3>8. buffers[s][i].step \in Nat
      <4>1. \A y \in Samples : y.step \in Nat
        BY ConstTypes DEF Samples
      <4>2. buffers[s][i] \in Samples
        BY <3>3
      <4> QED BY <4>1, <4>2
    <3> QED BY <3>1, <3>2, <3>3, <3>7, <3>8
  <2> QED BY <2>1
<1>5. \A i \in 1..Len(selected') : selected'[i] \in ToSet(selected')
  BY <1>3, ToSetSeq
<1> QED BY <1>4, <1>5 DEF SingleStep

\* The next state agrees again.
LEMMA NextAgreement ==
    ASSUME Basics, Flows, Late(rankSlot), Agreement, [Next]_vars
    PROVE  Agreement'
<1> SUFFICES ASSUME reused' = {} PROVE pc' # "crashed" /\ (pc' = "broadcast" => rankSlot' = slotOf')
  BY DEF Agreement
<1>1. reused \subseteq reused' /\ reused = {}
  <2>1. CASE UNCHANGED vars
    BY <2>1 DEF vars
  <2>2. CASE \E n \in Names : CreateRun(n)
    BY <2>2 DEF CreateRun
  <2>3. CASE \E n \in Names : DeleteRun(n) \/ Write(n) \/ Close(n)
    BY <2>3 DEF DeleteRun, Write, Close
  <2>4. CASE Master
    BY <2>4 DEF Master, Discover, Receive, Forget, Sleep, Pack, TrainStep, Broadcast
  <2> QED BY <2>1, <2>2, <2>3, <2>4 DEF Next
<1>2. pc # "crashed" /\ (pc = "broadcast" => rankSlot = slotOf) /\ Sound = Names
  BY <1>1, AllSound DEF Agreement
<1>3. CASE UNCHANGED <<pc, slotOf, rankSlot>>
  BY <1>2, <1>3
<1>4. CASE UNCHANGED vars \/ \E n \in Names : CreateRun(n) \/ DeleteRun(n) \/ Write(n) \/ Close(n)
  <2>1. UNCHANGED <<pc, slotOf, rankSlot>>
    BY <1>4 DEF vars, CreateRun, DeleteRun, Write, Close, mapVars, rankVars
  <2> QED BY <1>3, <2>1
<1>5. CASE Discover \/ Forget \/ Sleep \/ Broadcast
  BY <1>5 DEF Discover, Forget, Sleep, Broadcast
<1>6. CASE Receive
  <2>1. \A n \in Names : StepsDiffer(Drained(n))
    BY <1>2 DEF Flows, Link
  <2> QED BY <1>6, <2>1, ReceiveParts
<1>7. CASE Pack
  <2>1. SingleStep(selected')
    BY <1>1, <1>7, OneStep
  <2>2. pc' = "train"
    BY <1>7, <2>1, PackParts DEF Basics
  <2> QED BY <2>2
<1>8. CASE TrainStep
  <2>1. Follows(rankSlot, slotOf) /\ Moved(rankSlot, slotOf) = slotOf
    BY <1>1, LateFollows
  <2>2. rankSlot' = Moved(rankSlot, slotOf) /\ pc' = "broadcast" /\ slotOf' = slotOf
    BY <1>8, <2>1 DEF TrainStep, mapVars
  <2> QED BY <2>1, <2>2
<1> QED BY <1>4, <1>5, <1>6, <1>7, <1>8 DEF Next, Master

\* The adapter of a run whose step is done holds just that step and those
\* before it.
LEMMA OwnWeights ==
    ASSUME Basics, Flows, pc = "broadcast", NEW s \in ready, NEW n, n = slotOf[s], n \in Sound,
           dir[n] # 0
    PROVE  PublishedStep(s) \in 1..Len(files[n]) /\ adapter[s] = UpTo(n, PublishedStep(s))
<1>1. s \in Used /\ s \in Slots /\ n \in Names /\ n # Free
  BY ConstTypes DEF Basics, MasterTypes, Used
<1>2. PICK k \in 0..MaxSteps, g \in 1..MaxCreated : Flow(s, n, k, g)
  BY <1>1, FlowOf
<1>3. n \in Visible
  BY <1>1 DEF Basics, Flags, Visible
<1>4. Fed(s) = adapter[s]
  <2>1. n \in Held(lastSynced)
    BY <1>1 DEF Basics, Flags, Held
  <2> QED BY <2>1 DEF Fed, Synced, Training
<1>5. PICK p : p = progress[s]
  OBVIOUS
<1>6. p \in Nat /\ 1 < p /\ p <= k + 1 /\ k \in Nat /\ k <= Len(files[n])
  BY <1>1, <1>2, <1>3, <1>5, ConstTypes DEF Flow, Once, Asks, Whole
<1>7. files[n] \in Seq(Seq(Nat)) /\ Len(files[n]) \in Nat
  BY <1>1 DEF Basics, FsTypes
<1>8. PublishedStep(s) = p - 1 /\ p - 1 \in 1..Len(files[n]) /\ p - 1 \in Nat
  BY <1>5, <1>6, <1>7 DEF PublishedStep
<1>9. adapter[s] \cup ToSet(buffers[s]) = UpTo(n, k) /\ \A x \in adapter[s] : x.step < p
  BY <1>2, <1>3, <1>4, <1>5 DEF Flow, Whole, Given, Once
<1>10. \A x \in ToSet(buffers[s]) : p <= x.step
  <2>1. buffers[s] \in Seq(Samples) /\ \A i \in 1..Len(buffers[s]) : p <= buffers[s][i].step
    BY <1>1, <1>2, <1>5 DEF Flow, Queue, Basics, MasterTypes
  <2> QED BY <2>1, ToSetSeq
<1>11. \A j \in 1..Len(files[n]) : \A x \in ToSet(SamplesOf(n, j)) : x.step = j
  BY <1>1, WrittenParts DEF Basics
<1> DEFINE these == UNION {ToSet(SamplesOf(n, j)) : j \in {i \in 1..Len(files[n]) : i <= k}}
           those == UNION {ToSet(SamplesOf(n, j)) : j \in {i \in 1..Len(files[n]) : i <= p - 1}}
<1>12. UpTo(n, k) = these /\ UpTo(n, p - 1) = those
  BY <1>1, <1>6, <1>7, <1>8, UpToIs
<1>13. ASSUME NEW x \in adapter[s] PROVE x \in those
  <2>1. PICK j \in 1..Len(files[n]) : j <= k /\ x \in ToSet(SamplesOf(n, j))
    BY <1>9, <1>12, <1>13
  <2>2. j < p
    BY <1>9, <1>11, <1>13, <2>1
  <2>3. j <= p - 1
    BY <1>6, <2>2
  <2> QED BY <2>1, <2>3
<1>14. ASSUME NEW x \in those PROVE x \in adapter[s]
  <2>1. PICK j \in 1..Len(files[n]) : j <= p - 1 /\ x \in ToSet(SamplesOf(n, j))
    BY <1>14
  <2>2. j <= k /\ ~ (p <= j) /\ x.step = j
    BY <1>6, <1>11, <2>1
  <2>3. x \in these
    BY <2>1, <2>2
  <2> QED BY <1>9, <1>10, <1>12, <2>2, <2>3
<1> HIDE DEF these, those
<1> QED BY <1>8, <1>12, <1>13, <1>14

\* The next state's publications are sound again.
LEMMA NextPublications ==
    ASSUME Basics, Flows, Publications, [Next]_vars
    PROVE  Publications'
<1>1. /\ spoilt \subseteq reused /\ \A n \in Sound : published[n] \subseteq 1..Len(files[n])
      /\ files \in [Names -> Seq(Seq(Nat))] /\ published \in [Names -> SUBSET Nat]
  BY DEF Publications, Basics, FsTypes
<1>2. CASE UNCHANGED <<files, published, spoilt>> /\ reused \subseteq reused'
  BY <1>1, <1>2 DEF Publications, Sound
<1>3. CASE UNCHANGED vars
  BY <1>2, <1>3 DEF vars, fsVars
<1>4. CASE \E n \in Names : CreateRun(n)
  BY <1>2, <1>4 DEF CreateRun
<1>5. CASE \E n \in Names : DeleteRun(n)
  <2>1. PICK n \in Names : DeleteRun(n)
    BY <1>5
  <2>2. /\ files' = [files EXCEPT ![n] = <<>>] /\ published' = [published EXCEPT ![n] = {}]
        /\ spoilt' = spoilt /\ reused' = reused
    BY <2>1 DEF DeleteRun
  <2>3. \A m \in Names : published'[m] = {} \/ (published'[m] = published[m] /\ files'[m] = files[m])
    BY <1>1, <2>2
  <2> QED BY <1>1, <2>2, <2>3 DEF Publications, Sound
<1>6. CASE \E n \in Names : Write(n)
  <2>1. PICK n \in Names : Write(n)
    BY <1>6
  <2>2. /\ Len(files'[n]) = Len(files[n]) + 1 /\ \A m \in Names : m # n => files'[m] = files[m]
    BY <2>1, WriteParts
  <2>3. published' = published /\ spoilt' = spoilt /\ reused' = reused
    BY <2>1 DEF Write
  <2>4. \A m \in Names : Len(files[m]) \in Nat /\ Len(files'[m]) >= Len(files[m]) /\ Len(files'[m]) \in Nat
    <3>1. \A m \in Names : Len(files[m]) \in Nat
      BY <1>1
    <3>2. Len(files'[n]) \in Nat /\ Len(files'[n]) >= Len(files[n])
      BY <2>2, <3>1
    <3> QED BY <2>2, <3>1, <3>2
  <2>5. \A m \in Names : 1..Len(files[m]) \subseteq 1..Len(files'[m])
    BY <2>4
  <2> QED BY <1>1, <2>3, <2>5 DEF Publications, Sound
<1>7. CASE \E n \in Names : Close(n)
  BY <1>2, <1>7 DEF Close, fsVars
<1>8. CASE Discover \/ Forget \/ Sleep \/ Pack \/ TrainStep \/ Receive
  <2>1. UNCHANGED <<files, published, spoilt, reused>>
    BY <1>8 DEF Discover, Forget, Sleep, Pack, TrainStep, Receive, fsVars
  <2> QED BY <1>2, <2>1
<1>9. CASE Broadcast
  <2>1. pc = "broadcast" /\ files' = files /\ reused' = reused
    BY <1>9 DEF Broadcast
  <2> DEFINE steps(n) == {PublishedStep(s) : s \in {t \in ready : slotOf[t] = n /\ dir[slotOf[t]] # 0}}
             bad == {slotOf[s] : s \in {t \in ready :
                       dir[slotOf[t]] # 0 /\ adapter[t] # UpTo(slotOf[t], PublishedStep(t))}}
  <2>2. published' = [n \in Names |-> published[n] \cup steps(n)] /\ spoilt' = spoilt \cup bad
    BY <1>9, Zenon DEF Broadcast
  <2>3. ASSUME NEW n \in Sound, NEW s \in ready, slotOf[s] = n, dir[n] # 0
        PROVE  PublishedStep(s) \in 1..Len(files[n]) /\ adapter[s] = UpTo(n, PublishedStep(s))
    BY <2>1, <2>3, OwnWeights
  <2>4. \A n \in Sound : steps(n) \subseteq 1..Len(files[n])
    BY <2>3
  <2>5. bad \subseteq reused
    <3>1. ASSUME NEW s \in ready, dir[slotOf[s]] # 0, adapter[s] # UpTo(slotOf[s], PublishedStep(s))
          PROVE  slotOf[s] \in reused
      <4>1. slotOf[s] \in Names
        BY DEF Basics, MasterTypes, Used
      <4> QED BY <2>3, <3>1, <4>1 DEF Sound
    <3> QED BY <3>1
  <2> HIDE DEF steps, bad
  <2>6. \A n \in Sound : published'[n] \subseteq 1..Len(files[n])
    BY <1>1, <2>2, <2>4 DEF Sound
  <2> QED BY <1>1, <2>1, <2>2, <2>5, <2>6 DEF Publications, Sound
<1> QED BY <1>3, <1>4, <1>5, <1>6, <1>7, <1>8, <1>9 DEF Next, Master

-----------------------------------------------------------------------------
(* The theorems                                                            *)

Inv ==
    /\ Basics /\ Late(rankSlot) /\ Late(lastSynced) /\ Flows
    /\ Agreement /\ Publications

\* The invariant holds at the start ...
LEMMA InvInit == Init => Inv
<1> SUFFICES ASSUME Init PROVE Inv
  OBVIOUS
<1>1. Basics /\ Late(rankSlot) /\ Late(lastSynced) /\ Flows
  BY InitBasics, InitLate, InitFlows
<1>2. Agreement
  BY DEF Init, Agreement
<1>3. Publications
  BY DEF Init, Publications, Sound
<1> QED BY <1>1, <1>2, <1>3 DEF Inv

\* ... and every step preserves it.
LEMMA InvNext == Inv /\ [Next]_vars => Inv'
<1> SUFFICES ASSUME Inv, [Next]_vars PROVE Inv'
  OBVIOUS
<1>1. Basics'
  BY NextBasics DEF Inv
<1>2. Late(rankSlot)' /\ Late(lastSynced)'
  BY NextLate DEF Inv
<1>3. Flows'
  BY <1>1, NextFlows DEF Inv
<1>4. Agreement' /\ Publications'
  BY NextAgreement, NextPublications DEF Inv
<1> QED BY <1>1, <1>2, <1>3, <1>4 DEF Inv

\* The invariant holds always.
LEMMA InvAlways == Spec => []Inv
BY InvInit, InvNext, PTL DEF Spec

\* While no name was reused the packer is at most one step past the last one
\* that a run may write.
LEMMA ProgressBound ==
    ASSUME Basics, Flows, Agreement, reused = {}
    PROVE  progress \in [Slots -> 0..(MaxSteps + 1)]
<1>1. pc # "crashed" /\ Sound = Names /\ progress \in [Slots -> Nat]
  BY AllSound DEF Agreement, Basics, MasterTypes
<1>2. ASSUME NEW s \in Slots PROVE progress[s] \in 0..(MaxSteps + 1)
  <2>1. CASE s \in Used
    <3>1. slotOf[s] \in Sound
      BY <1>1, <2>1 DEF Basics, MasterTypes, Used
    <3>2. PICK k \in 0..MaxSteps, g \in 1..MaxCreated : Flow(s, slotOf[s], k, g)
      BY <1>1, <2>1, <3>1 DEF Flows
    <3>3. progress[s] \in 1..(k + 1)
      BY <3>2 DEF Flow, Asks
    <3> QED BY <3>3, ConstTypes
  <2>2. CASE s \notin Used
    BY <1>2, <2>2, ConstTypes DEF Basics, Progress
  <2> QED BY <2>1, <2>2
<1> QED BY <1>1, <1>2

\* Every variable of the trainer that serves several runs keeps its type,
\* whatever runs come, go and come back.
THEOREM TypesCorrect == Spec => []TypeOK
<1>1. Inv => TypeOK
  <2> SUFFICES ASSUME Inv PROVE TypeOK
    OBVIOUS
  <2>1. Basics
    BY DEF Inv
  <2>2. reused = {} => progress \in [Slots -> 0..(MaxSteps + 1)]
    BY ProgressBound DEF Inv
  <2>3. {slotOf, lastSynced, rankSlot} \subseteq [Slots -> Names \cup {Free}]
    BY <2>1 DEF Basics, MasterTypes, RankTypes
  <2>4. /\ wire \in [Names -> Seq([step : 1..MaxSteps, samples : Seq(Samples)])]
        /\ pending \in [Names -> SUBSET [step : 1..MaxSteps, samples : Seq(Samples)]]
        /\ transport \in Transports
    BY <2>1, Zenon DEF Basics, LinkTypes, Messages
  <2>5. /\ dir \in [Names -> 0..MaxCreated] /\ created \in 0..MaxCreated
        /\ evicted \subseteq Names /\ reused \subseteq Names /\ spoilt \subseteq Names
        /\ files \in [Names -> Seq(Seq(Nat))]
        /\ lost \subseteq Names \X (1..MaxSteps)
        /\ published \in [Names -> SUBSET Nat]
    BY <2>1, Zenon DEF Basics, FsTypes
  <2>6. /\ pc \in {"discover", "receive", "forget", "pack", "train", "broadcast", "crashed"}
        /\ slept \in BOOLEAN /\ progress \in [Slots -> Nat]
        /\ received \in [Slots -> 0..(MaxSteps + 1)] /\ ready \subseteq Used
        /\ buffers \in [Slots -> Seq(Samples)] /\ position \in Slots
        /\ selected \in Seq(Slots \X Samples) /\ adapter \in [Slots -> SUBSET Samples]
    BY <2>1, Zenon DEF Basics, MasterTypes, RankTypes
  <2> QED BY <2>2, <2>3, <2>4, <2>5, <2>6, Zenon DEF TypeOK
<1> QED BY <1>1, InvAlways, PTL

\* Unless a name is created again too early, every rank maps the same slots
\* to the same runs after synchronize_state, and neither the assertions of
\* pack() nor unused_idxs.remove ever fail: for any number of runs, slots,
\* ranks' delays and either transport.
THEOREM RanksAgreeAlways == Spec => []RanksAgree
<1>1. Inv => RanksAgree
  BY DEF Inv, Agreement, Basics, Flags, RanksAgree
<1> QED BY <1>1, InvAlways, PTL

\* Weights published for step k of a run carry exactly the samples of its
\* steps 1..k, each trained once, unless its name was created again before
\* the old run was forgotten: however runs share the batches, come, go and
\* move between slots.
THEOREM RunsIsolatedAlways == Spec => []RunsIsolated
<1>1. Inv => RunsIsolated
  <2> SUFFICES ASSUME Inv PROVE RunsIsolated
    OBVIOUS
  <2>1. spoilt \subseteq reused /\ \A n \in Names \ reused : published[n] \subseteq 1..Len(files[n])
    BY DEF Inv, Publications, Sound
  <2>2. ASSUME pc = "train", NEW x \in ToSet(selected), x[2].run \notin reused
        PROVE  x[2] \notin adapter[x[1]]
    <3>1. PICK s : s = x[1] /\ s \in Used /\ x[2].run = slotOf[s]
      BY <2>2 DEF Inv, Basics, Owned
    <3>2. PICK n : n = slotOf[s] /\ n \in Sound /\ s \in Slots
      BY <2>2, <3>1 DEF Inv, Basics, MasterTypes, Used, Sound
    <3>3. PICK k \in 0..MaxSteps, g \in 1..MaxCreated : Flow(s, n, k, g)
      BY <2>2, <3>1, <3>2, FlowOf DEF Inv
    <3>4. x[2] \in Training(s)
      BY <2>2, <3>1, <3>2, TrainingParts DEF Inv, Training
    <3>5. CASE n \in Held(lastSynced)
      BY <3>1, <3>2, <3>3, <3>4, <3>5 DEF Flow, Once, Synced
    <3>6. CASE n \notin Held(lastSynced)
      <4>1. lastSynced[s] # n
        BY <3>2, <3>6, ConstTypes DEF Held, Sound
      <4>2. x[2].made = g
        BY <3>3, <3>4 DEF Flow, Mine, Given, Fed
      <4>3. ~ (g < g)
        BY ConstTypes
      <4> QED BY <3>1, <3>2, <3>3, <4>1, <4>2, <4>3 DEF Flow, Mine, Unknown
    <3> QED BY <3>5, <3>6
  <2> QED BY <2>1, <2>2 DEF RunsIsolated
<1> QED BY <1>1, InvAlways, PTL
=============================================================================
