--------------------------- MODULE GpuBuildProofs ---------------------------
(***************************************************************************)
(* Where a build clusters a list cannot be told from the list.  In order:  *)
(* the max-pool's scratch is clean between lists (ScratchInv), no thread   *)
(* replaces the corpus a kernel of another reads (CorpusInv), the          *)
(* documents of a list are dealt out once whatever fails (DealInv), and    *)
(* what the device assigns and pools is what the CPU does (ExactInv, which *)
(* needs the other three).  The argmax kernel names the first of the       *)
(* greatest scores as the CPU does, and the postings a max-pool has read   *)
(* in any order are the pool it takes them for.                            *)
(***************************************************************************)
EXTENDS GpuBuild, DataTheorems, TLAPS

DeviceFields == {"cap", "dangling", "acc", "seen"}
JobFields    == {"pc", "term", "docs", "heads", "clusters", "read", "out"}

Zeroed(d) == \A s \in Slots : d.acc[s] = 0 /\ d.seen[s] = 0

(* A thread's buffers: acc and seen always grow together. *)
Intact(d) ==
  /\ DOMAIN d = DeviceFields
  /\ d.cap["acc"] = d.cap["seen"]
  /\ DOMAIN d.acc = Slots /\ DOMAIN d.seen = Slots

(* What an attempt to grow buffers leaves. *)
CleanOutcome(o) ==
  DOMAIN o = {"ok", "device"} /\ Intact(o.device) /\ Zeroed(o.device)

SameScratch(o, d) ==
  /\ DOMAIN o = {"ok", "device"} /\ Intact(o.device)
  /\ o.device.acc = d.acc /\ o.device.seen = d.seen

(* Which of the buffers are scratch.                                        *)
LEMMA BufferNames ==
  /\ Range(ScratchBuffers) = {"acc", "seen"}
  /\ {"acc", "seen"} \subseteq Buffers
  /\ "acc" \notin Range(ListBuffers) /\ "seen" \notin Range(ListBuffers)
  /\ \A es : "acc" \notin Range(AssignBuffers(es)) /\ "seen" \notin Range(AssignBuffers(es))
  <1>1. Range(ScratchBuffers) = {"acc", "seen"}
    BY DEF Range, ScratchBuffers
  <1>2. "acc" \notin Range(ListBuffers) /\ "seen" \notin Range(ListBuffers)
    BY DEF Range, ListBuffers
  <1>3. ASSUME NEW es
        PROVE  "acc" \notin Range(AssignBuffers(es)) /\ "seen" \notin Range(AssignBuffers(es))
    <2>1. CASE es = U32
      BY <2>1 DEF Range, AssignBuffers
    <2>2. CASE es # U32
      BY <2>2 DEF Range, AssignBuffers
    <2> QED
      BY <2>1, <2>2
  <1> QED
    BY <1>1, <1>2, <1>3 DEF Buffers, SumBuffers

(* Growing other buffers leaves the scratch as it was. *)
LEMMA OtherGrowthsKeepScratch ==
  ASSUME NEW d, NEW need, NEW order, Intact(d),
         NEW n \in Nat, DOMAIN order = 1 .. n,
         "acc" \notin Range(order), "seen" \notin Range(order),
         NEW o \in Growths(d, need, order)
  PROVE  SameScratch(o, d)
  <1>1. ASSUME NEW S, "acc" \notin S, "seen" \notin S
        PROVE  LET e == EnsureCapacity(d, need, S)
               IN  Intact(e) /\ e.acc = d.acc /\ e.seen = d.seen
    BY <1>1, BufferNames DEF EnsureCapacity, Intact, DeviceFields
  <1>2. ASSUME NEW e, NEW b, Intact(e)
        PROVE  LET f == CapacityFailed(e, b)
               IN  Intact(f) /\ f.acc = e.acc /\ f.seen = e.seen
    BY <1>2 DEF CapacityFailed, Intact, DeviceFields
  <1>3. CASE o = [ok |-> TRUE, device |-> EnsureCapacity(d, need, Range(order))]
    BY <1>1, <1>3 DEF SameScratch
  <1>4. CASE o = [ok |-> FALSE, device |-> d]
    BY <1>4 DEF SameScratch
  <1>5. ASSUME NEW i \in DOMAIN order,
               o = [ok |-> FALSE,
                    device |-> CapacityFailed(
                                 EnsureCapacity(d, need, {order[m] : m \in 1 .. i - 1}), order[i])]
        PROVE  SameScratch(o, d)
    <2> DEFINE S == {order[m] : m \in 1 .. i - 1}
    <2>1. S \subseteq Range(order)
      BY DEF Range
    <2>2. "acc" \notin S /\ "seen" \notin S
      BY <2>1
    <2> QED
      BY <1>1, <1>2, <1>5, <2>2 DEF SameScratch
  <1> QED
    BY <1>3, <1>4, <1>5 DEF Growths

(* When nothing freed fails to be allocated again, acc and seen grow        *)
(* together, and are cleared when they did.                                 *)
LEMMA ScratchGrowsClean ==
  ASSUME "regrow" \notin Mishaps,
         NEW d, NEW need, Intact(d), Zeroed(d), need["acc"] = need["seen"],
         NEW o \in ScratchGrowths(d, need)
  PROVE  CleanOutcome(o)
  <1>1. ~May("regrow")
    BY DEF May
  <1>2. PICK p \in Growths(d, need, ScratchBuffers) : o \in Cleared(d, need, p)
    BY DEF ScratchGrowths
  <1>3. CASE p = [ok |-> TRUE, device |-> EnsureCapacity(d, need, Range(ScratchBuffers))]
    <2> DEFINE e == EnsureCapacity(d, need, {"acc", "seen"})
    <2>1. Intact(e) /\ e.acc = d.acc /\ e.seen = d.seen
      BY BufferNames DEF EnsureCapacity, Intact, DeviceFields, Short
    <2>2. CASE Short(d, need, "acc")
      <3>1. o = [p EXCEPT !.device.acc = Filled(0), !.device.seen = Filled(0)]
        BY <1>1, <1>2, <1>3, <2>2 DEF Cleared, Holding
      <3> QED
        BY <1>3, <2>1, <3>1, BufferNames DEF CleanOutcome, Intact, DeviceFields, Zeroed, Filled
    <2>3. CASE ~Short(d, need, "acc")
      <3>1. e.cap["acc"] = d.cap["acc"] /\ e.cap["seen"] = d.cap["seen"]
        BY <2>3, BufferNames DEF EnsureCapacity, Intact, DeviceFields, Short
      <3>2. p.device.cap["acc"] = d.cap["acc"] /\ p.device.cap["seen"] = d.cap["seen"]
        BY <1>3, <3>1, BufferNames
      <3>3. o = [p EXCEPT !.device.acc = d.acc, !.device.seen = d.seen]
        BY <1>2, <2>3, <3>2 DEF Cleared, Unset, Holding
      <3> QED
        BY <1>3, <2>1, <3>3, BufferNames DEF CleanOutcome, Intact, DeviceFields, Zeroed
    <2> QED
      BY <2>2, <2>3
  <1>4. ASSUME DOMAIN p = {"ok", "device"}, ~p.ok, Intact(p.device),
               p.device.cap["acc"] = d.cap["acc"], p.device.cap["seen"] = d.cap["seen"]
        PROVE  CleanOutcome(o)
    <2>1. o = [p EXCEPT !.device.acc = d.acc, !.device.seen = d.seen]
      BY <1>2, <1>4 DEF Cleared, Unset, Holding
    <2> QED
      BY <1>4, <2>1 DEF CleanOutcome, Intact, DeviceFields, Zeroed
  <1>5. CASE p = [ok |-> FALSE, device |-> d]
    BY <1>4, <1>5
  <1>6. ASSUME NEW i \in DOMAIN ScratchBuffers,
               p = [ok |-> FALSE,
                    device |-> CapacityFailed(
                      EnsureCapacity(d, need, {ScratchBuffers[m] : m \in 1 .. i - 1}),
                      ScratchBuffers[i])],
               May(IF d.cap[ScratchBuffers[i]] = 0 /\ ScratchBuffers[i] # "seen" THEN "alloc"
                                                                               ELSE "regrow")
        PROVE  CleanOutcome(o)
    <2> DEFINE e == EnsureCapacity(d, need, {ScratchBuffers[m] : m \in 1 .. i - 1})
    <2>1. i = 1
      BY <1>1, <1>6 DEF ScratchBuffers
    <2>2. {ScratchBuffers[m] : m \in 1 .. i - 1} = {}
      BY <2>1
    <2>3. Intact(e) /\ e.cap["acc"] = d.cap["acc"] /\ e.cap["seen"] = d.cap["seen"]
      BY <2>2, BufferNames DEF EnsureCapacity, Intact, DeviceFields
    <2>4. Intact(p.device) /\ p.device.cap = e.cap
      BY <1>6, <2>3 DEF CapacityFailed, Intact, DeviceFields
    <2> QED
      BY <1>4, <1>6, <2>3, <2>4
  <1> QED
    BY <1>2, <1>3, <1>5, <1>6 DEF Growths

(* Nor does growing all the buffers of the summarizer dirty the scratch.    *)
LEMMA SumGrowsClean ==
  ASSUME "regrow" \notin Mishaps,
         NEW d, NEW need, Intact(d), Zeroed(d), need["acc"] = need["seen"],
         NEW o \in SumGrowths(d, need)
  PROVE  CleanOutcome(o)
  <1>1. PICK p \in ScratchGrowths(d, need) :
          o \in IF p.ok THEN Growths(p.device, need, ListBuffers) ELSE {p}
    BY DEF SumGrowths
  <1>2. CleanOutcome(p)
    BY ScratchGrowsClean
  <1>3. CASE p.ok
    <2>1. /\ DOMAIN ListBuffers = 1 .. 7 /\ 7 \in Nat
          /\ "acc" \notin Range(ListBuffers) /\ "seen" \notin Range(ListBuffers)
      BY BufferNames DEF ListBuffers
    <2>2. o \in Growths(p.device, need, ListBuffers)
      BY <1>1, <1>3
    <2>3. Intact(p.device) /\ Zeroed(p.device)
      BY <1>2 DEF CleanOutcome
    <2>4. SameScratch(o, p.device)
      BY <2>1, <2>2, <2>3, OtherGrowthsKeepScratch
    <2> QED
      BY <2>3, <2>4 DEF CleanOutcome, Zeroed, SameScratch
  <1>4. CASE ~p.ok
    BY <1>1, <1>2, <1>4
  <1> QED
    BY <1>3, <1>4

(* What a sequence appends is added to its range. *)
LEMMA AppendedRange ==
  ASSUME NEW S, NEW s \in Seq(S), NEW e
  PROVE  /\ \E T : Append(s, e) \in Seq(T)
         /\ Range(s) \subseteq Range(Append(s, e))
         /\ e \in Range(Append(s, e))
  <1> DEFINE T == S \union {e}
  <1>1. s \in Seq(T)
    OBVIOUS
  <1>2. Append(s, e) \in Seq(T)
    BY <1>1
  <1>3. DOMAIN s \subseteq DOMAIN Append(s, e) /\ \A i \in DOMAIN s : Append(s, e)[i] = s[i]
    BY <1>1
  <1>4. Len(s) + 1 \in DOMAIN Append(s, e) /\ Append(s, e)[Len(s) + 1] = e
    BY <1>1
  <1> QED
    BY <1>2, <1>3, <1>4 DEF Range
-----------------------------------------------------------------------------
(* A max-pool appends only what it has read.                                *)
Reads(j) ==
  /\ DOMAIN j.read = DOMAIN j.clusters
  /\ \A c \in DOMAIN j.clusters :
       /\ j.read[c] \in [DOMAIN j.clusters[c] -> Nat]
       /\ j.out[c] # <<>> => \E i \in DOMAIN j.read[c] : j.read[c][i] # 0

(* What a running max-pool has written is under a term it has appended, and *)
(* otherwise the scratch is clean.                                          *)
Covers(j, d) ==
  /\ DOMAIN j.out = DOMAIN j.clusters
  /\ \A c \in DOMAIN j.out : \E S : j.out[c] \in Seq(S)
  /\ \A s \in Slots : d.acc[s] # 0 \/ d.seen[s] # 0 =>
       s[1] \in DOMAIN j.out /\ s[2] \in Range(j.out[s[1]])

JobShape(j) == DOMAIN j = JobFields \/ (DOMAIN j = {"pc"} /\ j.pc = "idle")

ThreadInv(j, d) ==
  /\ JobShape(j) /\ Intact(d)
  /\ IF j.pc = "pool_run" THEN Reads(j) /\ Covers(j, d) ELSE Zeroed(d)

ScratchInv ==
  /\ DOMAIN job = Threads /\ DOMAIN device = Threads
  /\ \A th \in Threads : ThreadInv(job[th], device[th])

(* The scratch is clean at first.                                           *)
LEMMA ScratchInit == Init => ScratchInv
  BY BufferNames DEF Init, ScratchInv, ThreadInv, JobShape, Intact, Zeroed, Untouched, Idle,
                     DeviceFields

(* A thread's step changes its own job and buffers. *)
LEMMA OneThread ==
  ASSUME ScratchInv, NEW th \in Threads, NEW j, ThreadInv(j, device'[th]),
         job' = [job EXCEPT ![th] = j],
         DOMAIN device' = Threads, \A u \in Threads \ {th} : device'[u] = device[u]
  PROVE  ScratchInv'
  BY DEF ScratchInv

(* Where a job goes when it leaves the device. *)
LEMMA PoolingShape ==
  ASSUME NEW j, NEW clusters, DOMAIN j = JobFields
  PROVE  /\ JobShape(Pooling(j, clusters))
         /\ Pooling(j, clusters).pc \in {"pool_resident", "pool_cpu"}
  BY DEF Pooling, JobShape, JobFields

(* Steps that take a list, assign it, or make the corpus resident. *)
LEMMA AssigningKeepsScratch ==
  ASSUME ScratchInv, NEW th \in Threads,
         \/ \E t \in Terms : TakeList(th, t)
         \/ AssignResident(th) \/ AssignRun(th) \/ PoolResident(th)
  PROVE  ScratchInv'
  <1>1. device' = device
    BY DEF TakeList, AssignResident, AssignRun, PoolResident
  <1>2. ThreadInv(job[th], device[th])
    BY DEF ScratchInv
  <1>3. ASSUME NEW j, JobShape(j), j.pc # "pool_run", job[th].pc # "pool_run",
               job' = [job EXCEPT ![th] = j]
        PROVE  ScratchInv'
    <2>1. ThreadInv(j, device'[th])
      BY <1>1, <1>2, <1>3 DEF ThreadInv
    <2> QED
      BY <1>1, <1>3, <2>1, OneThread DEF ScratchInv
  <1>4. ASSUME NEW j, NEW clusters, DOMAIN j = JobFields, job[th].pc # "pool_run",
               job' = [job EXCEPT ![th] = Pooling(j, clusters)]
        PROVE  ScratchInv'
    <2>1. JobShape(Pooling(j, clusters)) /\ Pooling(j, clusters).pc # "pool_run"
      BY <1>4, PoolingShape
    <2> QED
      BY <1>3, <1>4, <2>1
  <1> DEFINE At(to) == [job[th] EXCEPT !.pc = to]
  <1>5. ASSUME NEW to, to # "pool_run", DOMAIN job[th] = JobFields,
               job[th].pc # "pool_run", job' = [job EXCEPT ![th] = At(to)]
        PROVE  ScratchInv'
    <2>1. JobShape(At(to)) /\ At(to).pc # "pool_run"
      BY <1>5 DEF JobShape, JobFields
    <2> QED
      BY <1>3, <1>5, <2>1
  <1>6. ASSUME NEW t \in Terms, TakeList(th, t)
        PROVE  ScratchInv'
    <2>1. job[th].pc # "pool_run"
      BY <1>6 DEF TakeList, Idle
    <2>2. PICK kept, heads :
            \/ job' = [job EXCEPT ![th] = NewJob(t, kept, heads)]
            \/ job' = [job EXCEPT ![th] = AssignOnCpu(NewJob(t, kept, heads))]
      BY <1>6 DEF TakeList
    <2>3. DOMAIN NewJob(t, kept, heads) = JobFields /\ NewJob(t, kept, heads).pc # "pool_run"
      BY DEF NewJob, JobFields
    <2> QED
      BY <1>3, <1>4, <2>1, <2>2, <2>3 DEF JobShape, AssignOnCpu
  <1>7. ASSUME job[th].pc \in {"assign_resident", "assign_run", "pool_resident"}
        PROVE  DOMAIN job[th] = JobFields /\ job[th].pc # "pool_run"
    BY <1>2, <1>7 DEF ThreadInv, JobShape
  <1>8. CASE AssignResident(th)
    <2>1. DOMAIN job[th] = JobFields /\ job[th].pc # "pool_run"
      BY <1>7, <1>8 DEF AssignResident
    <2>2. ASSUME NEW to \in {"assign_grow"}, job' = [job EXCEPT ![th] = At(to)]
          PROVE  ScratchInv'
      BY <1>5, <2>1, <2>2
    <2>3. CASE job' = [job EXCEPT ![th] = AssignOnCpu(@)]
      BY <1>4, <2>1, <2>3 DEF AssignOnCpu
    <2> QED
      BY <1>8, <2>2, <2>3 DEF AssignResident
  <1>9. CASE AssignRun(th)
    <2>1. \E clusters : job' = [job EXCEPT ![th] = Pooling(job[th], clusters)]
      BY <1>9 DEF AssignRun, AssignOnCpu
    <2> QED
      BY <1>4, <1>7, <1>9, <2>1 DEF AssignRun
  <1>10. CASE PoolResident(th)
    <2>1. DOMAIN job[th] = JobFields /\ job[th].pc # "pool_run"
      BY <1>7, <1>10 DEF PoolResident
    <2>2. PICK to \in {"pool_grow", "pool_cpu"} : job' = [job EXCEPT ![th] = At(to)]
      BY <1>10 DEF PoolResident
    <2> QED
      BY <1>5, <2>1, <2>2
  <1> QED
    BY <1>6, <1>8, <1>9, <1>10

(* Growing the assigner's buffers does not touch the scratch. *)
LEMMA AssignGrowKeepsScratch ==
  ASSUME ScratchInv, NEW th \in Threads, AssignGrow(th)
  PROVE  ScratchInv'
  <1> DEFINE order == AssignBuffers(resident.element_size)
             need == AssignNeed(vectors.rows, resident.element_size, job[th].docs,
                                Len(job[th].heads))
  <1>1. ThreadInv(job[th], device[th]) /\ DOMAIN device = Threads
    BY DEF ScratchInv
  <1>2. job[th].pc # "pool_run" /\ DOMAIN job[th] = JobFields
    BY <1>1 DEF AssignGrow, ThreadInv, JobShape
  <1>3. PICK o \in Growths(device[th], need, order) :
          /\ device' = [device EXCEPT ![th] = o.device]
          /\ job' = [job EXCEPT ![th] = IF o.ok THEN [job[th] EXCEPT !.pc = "assign_run"]
                                                ELSE AssignOnCpu(job[th])]
    BY DEF AssignGrow
  <1>4. \E n \in Nat : DOMAIN order = 1 .. n
    <2>1. DOMAIN order = 1 .. 9 \/ DOMAIN order = 1 .. 7
      BY DEF AssignBuffers
    <2> QED
      BY <2>1
  <1>5. "acc" \notin Range(order) /\ "seen" \notin Range(order)
    BY BufferNames
  <1>6. Intact(device[th]) /\ Zeroed(device[th])
    BY <1>1, <1>2 DEF ThreadInv
  <1>7. SameScratch(o, device[th])
    <2> HIDE DEF order, need
    <2> QED
      BY <1>3, <1>4, <1>5, <1>6, OtherGrowthsKeepScratch
  <1>8. Intact(o.device) /\ Zeroed(o.device)
    BY <1>6, <1>7 DEF SameScratch, Zeroed
  <1>9. ASSUME NEW j, job' = [job EXCEPT ![th] = j], JobShape(j), j.pc # "pool_run"
        PROVE  ScratchInv'
    <2>1. ThreadInv(j, device'[th])
      BY <1>1, <1>3, <1>8, <1>9 DEF ThreadInv
    <2>2. DOMAIN device' = Threads /\ \A u \in Threads \ {th} : device'[u] = device[u]
      BY <1>1, <1>3
    <2> QED
      BY <1>9, <2>1, <2>2, OneThread
  <1>10. CASE o.ok
    <2> DEFINE j == [job[th] EXCEPT !.pc = "assign_run"]
    <2>1. JobShape(j) /\ j.pc # "pool_run"
      BY <1>2 DEF JobShape, JobFields
    <2> QED
      BY <1>3, <1>9, <1>10, <2>1
  <1>11. CASE ~o.ok
    <2>1. JobShape(AssignOnCpu(job[th])) /\ AssignOnCpu(job[th]).pc # "pool_run"
      BY <1>2, PoolingShape DEF AssignOnCpu
    <2> QED
      BY <1>3, <1>9, <1>11, <2>1
  <1> QED
    BY <1>10, <1>11

(* The max-pool starts on a clean scratch. *)
LEMMA PoolGrowKeepsScratch ==
  ASSUME "regrow" \notin Mishaps, ScratchInv, NEW th \in Threads, PoolGrow(th)
  PROVE  ScratchInv'
  <1> DEFINE need == SumNeed(vectors.rows, job[th].docs, Len(job[th].clusters))
             run == [job[th] EXCEPT
                       !.pc = "pool_run",
                       !.read = [c \in DOMAIN job[th].clusters |->
                                   [i \in DOMAIN job[th].clusters[c] |-> 0]],
                       !.out = [c \in DOMAIN job[th].clusters |-> <<>>]]
             declined == [job[th] EXCEPT !.pc = "pool_cpu"]
  <1>1. ThreadInv(job[th], device[th]) /\ DOMAIN device = Threads
    BY DEF ScratchInv
  <1>2. DOMAIN job[th] = JobFields /\ Intact(device[th]) /\ Zeroed(device[th])
    BY <1>1 DEF PoolGrow, ThreadInv, JobShape
  <1>3. JobShape(declined) /\ declined.pc # "pool_run"
    BY <1>2 DEF JobShape, JobFields
  <1>4. CASE device' = device /\ job' = [job EXCEPT ![th] = declined]
    <2>1. ThreadInv(declined, device'[th])
      BY <1>2, <1>3, <1>4 DEF ThreadInv
    <2> QED
      BY <1>1, <1>4, <2>1, OneThread
  <1>5. ASSUME NEW o \in SumGrowths(device[th], need),
               device' = [device EXCEPT ![th] = o.device],
               job' = [job EXCEPT ![th] = IF o.ok /\ ~Torn(o.device) THEN run ELSE declined]
        PROVE  ScratchInv'
    <2>1. Intact(o.device) /\ Zeroed(o.device)
      <3>1. need["acc"] = need["seen"]
        BY DEF SumNeed
      <3> HIDE DEF need
      <3>2. CleanOutcome(o)
        BY <1>2, <1>5, <3>1, SumGrowsClean
      <3> QED
        BY <3>2 DEF CleanOutcome
    <2>2. DOMAIN device' = Threads /\ \A u \in Threads \ {th} : device'[u] = device[u]
      BY <1>1, <1>5
    <2>3. device'[th] = o.device
      BY <1>1, <1>5
    <2>4. ThreadInv(run, o.device)
      <3>1. JobShape(run) /\ run.pc = "pool_run" /\ run.clusters = job[th].clusters
        BY <1>2 DEF JobShape, JobFields
      <3>2. run.out = [c \in DOMAIN run.clusters |-> <<>>]
        BY <1>2, <3>1 DEF JobFields
      <3>3. Reads(run)
        <4>1. run.read = [c \in DOMAIN run.clusters |-> [i \in DOMAIN run.clusters[c] |-> 0]]
          BY <1>2, <3>1 DEF JobFields
        <4> HIDE DEF run
        <4> QED
          BY <3>2, <4>1 DEF Reads
      <3>4. Covers(run, o.device)
        <4> HIDE DEF run
        <4>1. \A c \in DOMAIN run.out : run.out[c] \in Seq({})
          BY <3>2
        <4> QED
          BY <2>1, <3>2, <4>1 DEF Covers, Zeroed
      <3> QED
        BY <2>1, <3>1, <3>3, <3>4 DEF ThreadInv
    <2>5. ThreadInv(declined, o.device)
      BY <1>3, <2>1 DEF ThreadInv
    <2> HIDE DEF run, declined
    <2> QED
      BY <1>5, <2>2, <2>3, <2>4, <2>5, OneThread
  <1> QED
    BY <1>4, <1>5 DEF PoolGrow

(* A posting is written under its term, which is appended unless it was.    *)
LEMMA PoolPostingKeepsScratch ==
  ASSUME ScratchInv, NEW th \in Threads, NEW c, NEW i, PoolPosting(th, c, i)
  PROVE  ScratchInv'
  <1> DEFINE j == job[th]
             d == device[th]
             t == TermsOf(resident.rows, j.clusters[c][i])[j.read[c][i] + 1]
             w == Row(resident.rows, j.clusters[c][i])[t]
             slot == <<c, t>>
             out == IF NewTerm(d, slot, w) THEN Append(j.out[c], t) ELSE j.out[c]
             jj == [j EXCEPT !.read[c][i] = @ + 1, !.out[c] = out]
             dd == [d EXCEPT !.acc[slot] = Max({@, w}), !.seen[slot] = 1]
  <1>1. /\ ThreadInv(j, d) /\ DOMAIN device = Threads /\ j.pc = "pool_run"
        /\ c \in DOMAIN j.clusters /\ i \in DOMAIN j.clusters[c]
    BY DEF ScratchInv, PoolPosting
  <1>2. DOMAIN j = JobFields /\ Intact(d) /\ Reads(j) /\ Covers(j, d)
    BY <1>1 DEF ThreadInv, JobShape
  <1>3. device' = [device EXCEPT ![th] = dd]
    BY <1>1 DEF PoolPosting
  <1>4. job' = [job EXCEPT ![th] = jj]
    BY <1>1 DEF PoolPosting
  <1> HIDE DEF out, t, w
  <1>5. /\ DOMAIN jj = JobFields /\ jj.pc = "pool_run" /\ jj.clusters = j.clusters
        /\ jj.out = [j.out EXCEPT ![c] = out]
        /\ jj.read = [j.read EXCEPT ![c] = [j.read[c] EXCEPT ![i] = @ + 1]]
    BY <1>1, <1>2 DEF JobFields
  <1>6. /\ Intact(dd)
        /\ \A s \in Slots \ {slot} : dd.acc[s] = d.acc[s] /\ dd.seen[s] = d.seen[s]
    BY <1>2 DEF Intact, DeviceFields
  <1>7. /\ \E S : out \in Seq(S)
        /\ Range(j.out[c]) \subseteq Range(out)
    <2>1. PICK S : j.out[c] \in Seq(S)
      BY <1>1, <1>2 DEF Covers
    <2> QED
      BY <2>1, AppendedRange DEF out
  <1>8. slot \in Slots => t \in Range(out)
    <2>1. CASE d.seen[slot] = 0
      <3>1. PICK S : j.out[c] \in Seq(S)
        BY <1>1, <1>2 DEF Covers
      <3> QED
        BY <2>1, <3>1, AppendedRange DEF out, NewTerm
    <2>2. CASE d.seen[slot] # 0
      BY <1>2, <2>2 DEF Covers, out, NewTerm
    <2> QED
      BY <2>1, <2>2
  <1>9. Covers(jj, dd)
    <2>1. DOMAIN jj.out = DOMAIN jj.clusters
      BY <1>2, <1>5 DEF Covers
    <2>2. \A b \in DOMAIN jj.out : \E S : jj.out[b] \in Seq(S)
      BY <1>2, <1>5, <1>7 DEF Covers
    <2>3. ASSUME NEW s \in Slots, dd.acc[s] # 0 \/ dd.seen[s] # 0
          PROVE  s[1] \in DOMAIN jj.out /\ s[2] \in Range(jj.out[s[1]])
      <3>1. CASE s = slot
        BY <1>1, <1>2, <1>5, <1>8, <3>1 DEF Covers
      <3>2. CASE s # slot
        <4>1. s[1] \in DOMAIN j.out /\ s[2] \in Range(j.out[s[1]])
          BY <1>2, <1>6, <2>3, <3>2 DEF Covers
        <4> QED
          BY <1>5, <1>7, <4>1
      <3> QED
        BY <3>1, <3>2
    <2> HIDE DEF jj, dd
    <2> QED
      BY <2>1, <2>2, <2>3 DEF Covers
  <1>10. Reads(jj)
    <2>1. jj.read[c] \in [DOMAIN jj.clusters[c] -> Nat] /\ jj.read[c][i] # 0
      BY <1>1, <1>2, <1>5 DEF Reads
    <2>2. \A b \in DOMAIN jj.clusters \ {c} : jj.read[b] = j.read[b] /\ jj.out[b] = j.out[b]
      BY <1>2, <1>5 DEF Reads, Covers
    <2>3. DOMAIN jj.read = DOMAIN jj.clusters /\ i \in DOMAIN jj.read[c]
      BY <1>1, <1>2, <1>5 DEF Reads
    <2> HIDE DEF jj
    <2> QED
      BY <1>2, <1>5, <2>1, <2>2, <2>3 DEF Reads
  <1>11. ThreadInv(jj, device'[th])
    BY <1>1, <1>3, <1>5, <1>6, <1>9, <1>10 DEF ThreadInv, JobShape
  <1>12. DOMAIN device' = Threads /\ \A u \in Threads \ {th} : device'[u] = device[u]
    BY <1>1, <1>3
  <1> HIDE DEF jj, dd
  <1> QED
    BY <1>4, <1>11, <1>12, OneThread

(* The kernel's second half resets what it has appended, whether or not the *)
(* copy back succeeds.                                                      *)
LEMMA PoolCollectKeepsScratch ==
  ASSUME ScratchInv, NEW th \in Threads, PoolCollect(th)
  PROVE  ScratchInv'
  <1> DEFINE j == job[th]
             d == device[th]
             touched == {s \in Slots : s[1] \in DOMAIN j.out /\ s[2] \in Range(j.out[s[1]])}
             declined == [j EXCEPT !.pc = "pool_cpu"]
  <1>1. ThreadInv(j, d) /\ DOMAIN device = Threads /\ j.pc = "pool_run"
    BY DEF ScratchInv, PoolCollect
  <1>2. DOMAIN j = JobFields /\ Intact(d) /\ Covers(j, d)
    BY <1>1 DEF ThreadInv, JobShape
  <1>3. device' = [device EXCEPT ![th] = Reset(d, touched)]
    BY DEF PoolCollect
  <1>4. Intact(Reset(d, touched)) /\ Zeroed(Reset(d, touched))
    BY <1>2 DEF Reset, Intact, DeviceFields, Covers, Zeroed
  <1>5. ASSUME NEW to, JobShape(to), to.pc # "pool_run", job' = [job EXCEPT ![th] = to]
        PROVE  ScratchInv'
    <2> HIDE DEF touched
    <2>1. ThreadInv(to, device'[th])
      BY <1>1, <1>3, <1>4, <1>5 DEF ThreadInv
    <2>2. DOMAIN device' = Threads /\ \A u \in Threads \ {th} : device'[u] = device[u]
      BY <1>1, <1>3
    <2> QED
      BY <1>5, <2>1, <2>2, OneThread
  <1>6. JobShape(Idle) /\ Idle.pc # "pool_run"
    BY DEF JobShape, Idle
  <1>7. JobShape(declined) /\ declined.pc # "pool_run"
    BY <1>2 DEF JobShape, JobFields
  <1>8. job' = [job EXCEPT ![th] = Idle] \/ job' = [job EXCEPT ![th] = declined]
    BY DEF PoolCollect, Done
  <1> HIDE DEF declined
  <1> QED
    BY <1>5, <1>6, <1>7, <1>8

(* A max-pool that fails before it has written, and one on the CPU.         *)
LEMMA LeavingKeepsScratch ==
  ASSUME ScratchInv, NEW th \in Threads, PoolFails(th) \/ PoolCpu(th)
  PROVE  ScratchInv'
  <1>1. ThreadInv(job[th], device[th]) /\ device' = device
    BY DEF ScratchInv, PoolFails, PoolCpu
  <1>2. Zeroed(device[th])
    <2>1. CASE PoolCpu(th)
      BY <1>1, <2>1 DEF PoolCpu, ThreadInv
    <2>2. CASE PoolFails(th)
      <3>1. Reads(job[th]) /\ Covers(job[th], device[th])
        BY <1>1, <2>2 DEF PoolFails, ThreadInv
      <3>2. \A c \in DOMAIN job[th].out : job[th].out[c] = <<>>
        BY <2>2, <3>1 DEF PoolFails, Reads, Covers
      <3>3. Range(<<>>) = {}
        BY DEF Range
      <3> QED
        BY <3>1, <3>2, <3>3 DEF Covers, Zeroed
    <2> QED
      BY <2>1, <2>2
  <1>3. ASSUME NEW to, JobShape(to), to.pc # "pool_run", job' = [job EXCEPT ![th] = to]
        PROVE  ScratchInv'
    <2>1. ThreadInv(to, device'[th])
      BY <1>1, <1>2, <1>3 DEF ThreadInv
    <2> QED
      BY <1>1, <1>3, <2>1, OneThread DEF ScratchInv
  <1>4. CASE PoolFails(th)
    <2> DEFINE declined == [job[th] EXCEPT !.pc = "pool_cpu"]
    <2>1. job' = [job EXCEPT ![th] = declined]
      BY <1>4 DEF PoolFails
    <2>2. JobShape(declined) /\ declined.pc # "pool_run"
      BY <1>1, <1>4 DEF PoolFails, ThreadInv, JobShape, JobFields
    <2> QED
      BY <1>3, <2>1, <2>2
  <1>5. CASE PoolCpu(th)
    <2>1. JobShape(Idle) /\ Idle.pc # "pool_run" /\ job' = [job EXCEPT ![th] = Idle]
      BY <1>5 DEF PoolCpu, Done, JobShape, Idle
    <2> QED
      BY <1>3, <2>1
  <1> QED
    BY <1>4, <1>5

(* One step of anything keeps the scratch clean.                            *)
LEMMA ScratchStep ==
  ASSUME "regrow" \notin Mishaps, ScratchInv, [Next]_vars
  PROVE  ScratchInv'
  <1>1. CASE NextBuild
    BY <1>1 DEF NextBuild, ScratchInv
  <1>2. CASE UNCHANGED vars
    BY <1>2 DEF vars, ScratchInv
  <1>3. ASSUME NEW th \in Threads, Work(th)
        PROVE  ScratchInv'
    BY <1>3, AssigningKeepsScratch, AssignGrowKeepsScratch, PoolGrowKeepsScratch,
       PoolPostingKeepsScratch, PoolCollectKeepsScratch, LeavingKeepsScratch DEF Work
  <1> QED
    BY <1>1, <1>2, <1>3 DEF Next

(* However many threads, lists and builds there are, and whatever the       *)
(* device declines or fails, as long as it is not to allocate a buffer that *)
(* was freed to grow or to clear a new one, acc and seen are zero whenever  *)
(* no kernel uses them (gpu_summarizer.cu:38-108, :206-224).                 *)
THEOREM ScratchStaysClean ==
  ASSUME "regrow" \notin Mishaps
  PROVE  Spec => []ScratchClean
  <1>1. ScratchInv => ScratchClean
    BY DEF ScratchInv, ThreadInv, Zeroed, ScratchClean
  <1> QED
    BY <1>1, ScratchInit, ScratchStep, PTL DEF Spec
-----------------------------------------------------------------------------
OnDevice == {"assign_grow", "assign_run", "pool_grow", "pool_run"}

(* Between ensure_resident and the end of its kernels a thread relies on    *)
(* the corpus on the device, which any other thread may replace.            *)
KernelsReadTheCorpus ==
  \A th \in Threads : job[th].pc \in OnDevice => resident = Upload(vectors)

(* What passes for the corpus being built from is that corpus. *)
Genuine(r, v) ==
  /\ r = [owner |-> r.owner, rows |-> r.rows, element_size |-> r.element_size]
  /\ Matches(r, v) => r = Upload(v)

CorpusInv ==
  /\ vectors.at \in Addresses
  /\ Genuine(resident, vectors)
  /\ DOMAIN job = Threads /\ \A th \in Threads : JobShape(job[th])
  /\ KernelsReadTheCorpus

(* What a step of a thread may do to its job. *)
Moves(th) ==
  \E j : /\ job' = [job EXCEPT ![th] = j]
         /\ JobShape(j)
         /\ j.pc \in OnDevice => job[th].pc \in OnDevice \/ resident' = Upload(vectors)

(* Only a corpus that nothing relies on is replaced. *)
LEMMA EnsureResidentIsGenuine ==
  ASSUME vectors.at \in Addresses, Genuine(resident, vectors), NEW o \in EnsureResident
  PROVE  /\ Genuine(o.resident, vectors)
         /\ o.ok => o.resident = Upload(vectors)
         /\ resident = Upload(vectors) => o.resident = resident
  <1>1. Matches(Upload(vectors), vectors)
    BY DEF Matches, Upload, Shape
  <1>2. Genuine(Upload(vectors), vectors)
    BY DEF Genuine, Upload
  <1>3. Genuine(NoCorpus, vectors)
    BY AddressesAssumption DEF Genuine, NoCorpus, Matches
  <1>4. CASE o = [ok |-> FALSE, resident |-> resident, mishap |-> 0]
    BY <1>4
  <1>5. CASE Matches(resident, vectors) /\ o = [ok |-> TRUE, resident |-> resident, mishap |-> 0]
    BY <1>5 DEF Genuine
  <1>6. CASE ~Matches(resident, vectors) /\ o = [ok |-> TRUE, resident |-> Upload(vectors), mishap |-> 0]
    BY <1>1, <1>2, <1>6
  <1>7. CASE ~Matches(resident, vectors) /\ o = [ok |-> FALSE, resident |-> NoCorpus, mishap |-> 1]
    BY <1>1, <1>3, <1>7
  <1> QED
    BY <1>4, <1>5, <1>6, <1>7 DEF EnsureResident

(* Each step of a thread moves its job in this way.                         *)
LEMMA WorkMoves ==
  ASSUME DOMAIN job = Threads, NEW th \in Threads, JobShape(job[th]),
         vectors.at \in Addresses, Genuine(resident, vectors), Work(th)
  PROVE  Moves(th)
  <1> DEFINE At(to) == [job[th] EXCEPT !.pc = to]
  <1>1. ASSUME DOMAIN job[th] = JobFields, NEW to, job' = [job EXCEPT ![th] = At(to)],
               to \in OnDevice => job[th].pc \in OnDevice \/ resident' = Upload(vectors)
        PROVE  Moves(th)
    <2>1. JobShape(At(to)) /\ At(to).pc = to
      BY <1>1 DEF JobShape, JobFields
    <2> HIDE DEF At
    <2> QED
      BY <1>1, <2>1 DEF Moves
  <1>2. ASSUME NEW j, DOMAIN j = JobFields, NEW clusters,
               job' = [job EXCEPT ![th] = Pooling(j, clusters)]
        PROVE  Moves(th)
    <2>1. JobShape(Pooling(j, clusters)) /\ Pooling(j, clusters).pc \notin OnDevice
      BY <1>2, PoolingShape DEF OnDevice
    <2> QED
      BY <1>2, <2>1 DEF Moves
  <1>3. ASSUME job' = [job EXCEPT ![th] = Idle]
        PROVE  Moves(th)
    <2>1. JobShape(Idle) /\ Idle.pc \notin OnDevice
      BY DEF JobShape, Idle, OnDevice
    <2> QED
      BY <1>3, <2>1 DEF Moves
  <1>4. ASSUME job[th].pc # "idle"
        PROVE  DOMAIN job[th] = JobFields
    BY <1>4 DEF JobShape
  <1>5. ASSUME NEW t \in Terms, TakeList(th, t)
        PROVE  Moves(th)
    <2>1. PICK kept, heads :
            \/ job' = [job EXCEPT ![th] = NewJob(t, kept, heads)]
            \/ job' = [job EXCEPT ![th] = AssignOnCpu(NewJob(t, kept, heads))]
      BY <1>5 DEF TakeList
    <2>2. DOMAIN NewJob(t, kept, heads) = JobFields /\ NewJob(t, kept, heads).pc \notin OnDevice
      BY DEF NewJob, JobFields, OnDevice
    <2>3. CASE job' = [job EXCEPT ![th] = NewJob(t, kept, heads)]
      BY <2>2, <2>3 DEF Moves, JobShape
    <2>4. CASE job' = [job EXCEPT ![th] = AssignOnCpu(NewJob(t, kept, heads))]
      BY <1>2, <2>2, <2>4 DEF AssignOnCpu
    <2> QED
      BY <2>1, <2>3, <2>4
  <1>6. CASE AssignResident(th)
    <2>1. DOMAIN job[th] = JobFields
      BY <1>4, <1>6 DEF AssignResident
    <2>2. PICK o \in EnsureResident :
            /\ resident' = o.resident
            /\ job' = [job EXCEPT ![th] = IF o.ok THEN At("assign_grow") ELSE AssignOnCpu(job[th])]
      BY <1>6 DEF AssignResident
    <2>3. CASE o.ok
      BY <1>1, <2>1, <2>2, <2>3, EnsureResidentIsGenuine
    <2>4. CASE ~o.ok
      BY <1>2, <2>1, <2>2, <2>4 DEF AssignOnCpu
    <2> QED
      BY <2>3, <2>4
  <1>7. CASE AssignGrow(th)
    <2>1. DOMAIN job[th] = JobFields /\ job[th].pc \in OnDevice
      BY <1>4, <1>7 DEF AssignGrow, OnDevice
    <2>2. job' = [job EXCEPT ![th] = At("assign_run")] \/ job' = [job EXCEPT ![th] = AssignOnCpu(@)]
      BY <1>7 DEF AssignGrow
    <2>3. CASE job' = [job EXCEPT ![th] = At("assign_run")]
      BY <1>1, <2>1, <2>3
    <2>4. CASE job' = [job EXCEPT ![th] = AssignOnCpu(@)]
      BY <1>2, <2>1, <2>4 DEF AssignOnCpu
    <2> QED
      BY <2>2, <2>3, <2>4
  <1>8. CASE AssignRun(th)
    <2>1. DOMAIN job[th] = JobFields
      BY <1>4, <1>8 DEF AssignRun
    <2>2. \E clusters : job' = [job EXCEPT ![th] = Pooling(job[th], clusters)]
      BY <1>8 DEF AssignRun, AssignOnCpu
    <2> QED
      BY <1>2, <2>1, <2>2
  <1>9. CASE PoolResident(th)
    <2>1. DOMAIN job[th] = JobFields
      BY <1>4, <1>9 DEF PoolResident
    <2>2. PICK o \in EnsureResident :
            /\ resident' = o.resident
            /\ job' = [job EXCEPT ![th] = At(IF o.ok THEN "pool_grow" ELSE "pool_cpu")]
      BY <1>9 DEF PoolResident
    <2>3. CASE o.ok
      BY <1>1, <2>1, <2>2, <2>3, EnsureResidentIsGenuine
    <2>4. CASE ~o.ok
      BY <1>1, <2>1, <2>2, <2>4 DEF OnDevice
    <2> QED
      BY <2>3, <2>4
  <1>10. ASSUME job[th].pc \in OnDevice, NEW j, DOMAIN j = JobFields, job' = [job EXCEPT ![th] = j]
         PROVE  Moves(th)
    BY <1>10 DEF Moves, JobShape
  <1>11. CASE PoolGrow(th)
    <2>1. DOMAIN job[th] = JobFields /\ job[th].pc \in OnDevice
      BY <1>4, <1>11 DEF PoolGrow, OnDevice
    <2>2. \E j : DOMAIN j = DOMAIN job[th] /\ job' = [job EXCEPT ![th] = j]
      BY <1>11 DEF PoolGrow
    <2> QED
      BY <1>10, <2>1, <2>2
  <1>12. ASSUME NEW c, NEW i, PoolPosting(th, c, i)
         PROVE  Moves(th)
    <2>1. DOMAIN job[th] = JobFields /\ job[th].pc \in OnDevice
      BY <1>4, <1>12 DEF PoolPosting, OnDevice
    <2>2. PICK x : job' = [job EXCEPT ![th].read[c][i] = @ + 1, ![th].out[c] = x]
      BY <1>12 DEF PoolPosting
    <2>3. \E j : DOMAIN j = DOMAIN job[th] /\ job' = [job EXCEPT ![th] = j]
      BY <2>2
    <2> QED
      BY <1>10, <2>1, <2>3
  <1>13. CASE PoolCollect(th)
    <2>1. DOMAIN job[th] = JobFields
      BY <1>4, <1>13 DEF PoolCollect
    <2>2. job' = [job EXCEPT ![th] = Idle] \/ job' = [job EXCEPT ![th] = At("pool_cpu")]
      BY <1>13 DEF PoolCollect, Done
    <2> QED
      BY <1>1, <1>3, <2>1, <2>2 DEF OnDevice
  <1>14. CASE PoolFails(th)
    <2>1. DOMAIN job[th] = JobFields
      BY <1>4, <1>14 DEF PoolFails
    <2>2. job' = [job EXCEPT ![th] = At("pool_cpu")]
      BY <1>14 DEF PoolFails
    <2> QED
      BY <1>1, <2>1, <2>2 DEF OnDevice
  <1>15. CASE PoolCpu(th)
    BY <1>3, <1>15 DEF PoolCpu, Done
  <1> QED
    BY <1>5, <1>6, <1>7, <1>8, <1>9, <1>11, <1>12, <1>13, <1>14, <1>15 DEF Work

(* What a thread's steps do to what is shared. *)
Shares ==
  /\ vectors' = vectors
  /\ resident' = resident \/ \E o \in EnsureResident : resident' = o.resident

(* Each step of a thread leaves so much to the others.                      *)
LEMMA WorkShares ==
  ASSUME NEW th, Work(th)
  PROVE  Shares
  <1>1. ASSUME NEW t, TakeList(th, t)
        PROVE  Shares
    BY <1>1 DEF TakeList, Shares
  <1>2. CASE AssignResident(th)
    BY <1>2 DEF AssignResident, Shares
  <1>3. CASE AssignGrow(th)
    BY <1>3 DEF AssignGrow, Shares
  <1>4. CASE AssignRun(th)
    BY <1>4 DEF AssignRun, Shares
  <1>5. CASE PoolResident(th)
    BY <1>5 DEF PoolResident, Shares
  <1>6. CASE PoolGrow(th)
    BY <1>6 DEF PoolGrow, Shares
  <1>7. CASE PoolCollect(th)
    BY <1>7 DEF PoolCollect, Shares
  <1>8. CASE PoolFails(th)
    BY <1>8 DEF PoolFails, Shares
  <1>9. CASE PoolCpu(th)
    BY <1>9 DEF PoolCpu, Shares
  <1>10. ASSUME NEW c, NEW i, PoolPosting(th, c, i)
         PROVE  Shares
    BY <1>10 DEF PoolPosting, Shares
  <1> QED
    BY <1>1, <1>2, <1>3, <1>4, <1>5, <1>6, <1>7, <1>8, <1>9, <1>10 DEF Work

(* One step of a thread keeps the corpus where it is relied on.             *)
LEMMA WorkKeepsCorpus ==
  ASSUME CorpusInv, NEW th \in Threads, Work(th)
  PROVE  CorpusInv'
  <1>1. vectors' = vectors
    BY WorkShares DEF Shares
  <1>2. resident' = resident \/ \E o \in EnsureResident : resident' = o.resident
    BY WorkShares DEF Shares
  <1>3. /\ Genuine(resident', vectors)
        /\ resident = Upload(vectors) => resident' = Upload(vectors)
    BY <1>2, EnsureResidentIsGenuine DEF CorpusInv
  <1>4. PICK j : /\ job' = [job EXCEPT ![th] = j] /\ JobShape(j)
                 /\ j.pc \in OnDevice => job[th].pc \in OnDevice \/ resident' = Upload(vectors)
    BY WorkMoves DEF CorpusInv, Moves
  <1>5. \A u \in Threads : job'[u].pc \in OnDevice => resident' = Upload(vectors)
    BY <1>3, <1>4 DEF CorpusInv, KernelsReadTheCorpus
  <1>6. DOMAIN job' = Threads /\ \A u \in Threads : JobShape(job'[u])
    BY <1>4 DEF CorpusInv
  <1> QED
    BY <1>1, <1>3, <1>5, <1>6 DEF CorpusInv, KernelsReadTheCorpus, Genuine, Upload, Matches, Shape

(* A new build finds no thread on the device; what it takes for its corpus  *)
(* is, unless another of the same shape was put at the same address.        *)
LEMMA NextBuildKeepsCorpus ==
  ASSUME "reuse" \notin Mishaps, CorpusInv, NextBuild
  PROVE  CorpusInv'
  <1>1. /\ resident' = resident /\ job' = job
        /\ vectors'.at \in Addresses
        /\ vectors' = [at |-> vectors'.at, rows |-> vectors'.rows,
                        element_size |-> vectors'.element_size]
    BY DEF NextBuild
  <1>2. \A th \in Threads : job[th].pc \notin OnDevice
    BY DEF NextBuild, Idle, OnDevice
  <1>3. Matches(resident, vectors') => resident = Upload(vectors')
    <2>1. SUFFICES ASSUME resident.owner = vectors'.at, Shape(resident) = Shape(vectors')
                   PROVE  resident = Upload(vectors')
      BY DEF Matches
    <2>2. resident.rows = vectors'.rows
      BY <2>1 DEF NextBuild
    <2>3. resident.element_size = vectors'.element_size
      BY <2>1 DEF Shape
    <2> QED
      BY <2>1, <2>2, <2>3 DEF Upload, CorpusInv, Genuine
  <1> QED
    BY <1>1, <1>2, <1>3 DEF CorpusInv, KernelsReadTheCorpus, Genuine, Matches, Shape, Upload

(* At first nothing is resident, and no thread relies on it.                *)
LEMMA CorpusStarts == Init => CorpusInv
  BY AddressesAssumption DEF Init, CorpusInv, Genuine, NoCorpus, Matches, JobShape, Idle,
                             KernelsReadTheCorpus, OnDevice

(* One step of anything keeps it.                                           *)
LEMMA CorpusStep ==
  ASSUME "reuse" \notin Mishaps, CorpusInv, [Next]_vars
  PROVE  CorpusInv'
  <1>1. CASE UNCHANGED vars
    BY <1>1 DEF vars, CorpusInv, KernelsReadTheCorpus, Genuine, Upload, Matches, Shape
  <1> QED
    BY <1>1, WorkKeepsCorpus, NextBuildKeepsCorpus DEF Next

(* However many threads share it and whatever fails, a thread that has made *)
(* the corpus resident finds it there, whole, until its kernels are done:   *)
(* no other thread's upload, failed or not, and no earlier build's corpus   *)
(* is in its place (gpu_common.cuh:71-162).  An address that is used again  *)
(* for a corpus of the same shape is excluded.                              *)
THEOREM NoKernelReadsAnotherCorpus ==
  ASSUME "reuse" \notin Mishaps
  PROVE  Spec => []KernelsReadTheCorpus
  <1>1. CorpusInv => KernelsReadTheCorpus
    BY DEF CorpusInv
  <1> QED
    BY <1>1, CorpusStarts, CorpusStep, PTL DEF Spec

-----------------------------------------------------------------------------
(* How a list is dealt out. *)

IsRow(row) == DOMAIN row \subseteq Terms /\ \A t \in DOMAIN row : row[t] \in Nat

IsCorpus(c) ==
  Len(c) \in Nat /\ DOMAIN c = 1 .. Len(c) /\ \A i \in DOMAIN c : IsRow(c[i])

Documents(c) == 0 .. Len(c) - 1

(* A posting list has a document once.                                      *)
LEMMA PostingsOnce ==
  ASSUME NEW c, IsCorpus(c), NEW t
  PROVE  PostingsOf(c, t) \in Seq(Documents(c)) /\ IsInjective(PostingsOf(c, t))
  <1> DEFINE H == {d \in 0 .. Len(c) - 1 : t \in DOMAIN Row(c, d)}
  <1>1. H \subseteq 0 .. Len(c) /\ Len(c) \in Nat /\ H \subseteq Documents(c)
    BY DEF IsCorpus, Documents
  <1>2. PostingsOf(c, t) = Ascending(H)
    BY DEF PostingsOf
  <1> HIDE DEF H
  <1>3. /\ Ascending(H) \in [1 .. Cardinality(H) -> H] /\ Cardinality(H) \in Nat
        /\ IsInjective(Ascending(H))
    BY <1>1, AscendingAscends, AscendingOnce
  <1>4. Ascending(H) \in Seq(Documents(c))
    <2>1. Ascending(H) \in [1 .. Cardinality(H) -> Documents(c)]
      BY <1>1, <1>3
    <2> QED
      BY <1>3, <2>1, FunctionIsSequence
  <1> QED
    BY <1>2, <1>3, <1>4

(* Nor is one kept twice.                                                   *)
LEMMA KeptOnce ==
  ASSUME NEW c, IsCorpus(c), NEW t, NEW lambda \in Nat, NEW kept \in Kept(c, t, lambda)
  PROVE  /\ kept \in Seq(Documents(c)) /\ IsInjective(kept)
  <1> DEFINE list == PostingsOf(c, t)
  <1>1. list \in Seq(Documents(c)) /\ IsInjective(list)
    BY PostingsOnce
  <1>2. CASE lambda = 0 \/ lambda >= Len(list)
    <2>1. kept = list
      BY <1>2 DEF Kept
    <2> QED
      BY <1>1, <2>1
  <1>3. CASE ~(lambda = 0 \/ lambda >= Len(list))
    <2>1. kept \in Arrangements(Range(list), lambda)
      BY <1>3 DEF Kept
    <2>2. Range(list) \subseteq Documents(c)
      BY <1>1, SequenceElement DEF Range
    <2> HIDE DEF list
    <2>3. kept \in [1 .. lambda -> Range(list)] /\ IsInjective(kept)
      BY <2>1 DEF Arrangements
    <2>4. kept \in Seq(Documents(c))
      <3>1. kept \in [1 .. lambda -> Documents(c)]
        BY <2>2, <2>3
      <3> QED
        BY <3>1, FunctionIsSequence
    <2> QED
      BY <2>3, <2>4
  <1> QED
    BY <1>2, <1>3

(* There is a cluster, and no more than asked for.                          *)
LEMMA ClustersAsked ==
  ASSUME NEW beta \in Nat \ {0}, NEW n \in Nat
  PROVE  NClusters(beta, n) \in 1 .. beta
  <1>1. NClusters(beta, n) = Max({1, Min({beta, n})})
    BY DEF NClusters
  <1>2. Min({beta, n}) = IF beta <= n THEN beta ELSE n
    BY LeastOfTwo
  <1> DEFINE m == Min({beta, n})
  <1>3. m \in 0 .. beta
    BY <1>2
  <1> HIDE DEF m
  <1>4. Max({1, m}) = IF 1 >= m THEN 1 ELSE m
    BY <1>3, GreatestOfTwo
  <1>5. Max({1, m}) \in 1 .. beta
    BY <1>3, <1>4
  <1> QED
    BY <1>1, <1>5 DEF m

(* Each of the documents is in one of k clusters, once.                     *)
IsDealt(clusters, docs, k) ==
  /\ DOMAIN clusters = 1 .. k
  /\ \A c \in 1 .. k : clusters[c] \in Seq(Range(docs)) /\ IsInjective(clusters[c])
  /\ \A b, c \in 1 .. k : b # c => Range(clusters[b]) \intersect Range(clusters[c]) = {}
  /\ \A d \in Range(docs) : \E c \in 1 .. k : d \in Range(clusters[c])

(* One before a sequence it is not in.                                      *)
LEMMA LedBy ==
  ASSUME NEW S, NEW x \in S, NEW u \in Seq(S), IsInjective(u), x \notin Range(u)
  PROVE  /\ <<x>> \o u \in Seq(S) /\ IsInjective(<<x>> \o u)
         /\ Range(<<x>> \o u) = {x} \union Range(u)
  <1> DEFINE v == <<x>> \o u
  <1>1. Len(u) \in Nat /\ DOMAIN u = 1 .. Len(u)
    OBVIOUS
  <1>2. /\ v \in Seq(S) /\ DOMAIN v = 1 .. Len(u) + 1 /\ v[1] = x
        /\ \A i \in 2 .. Len(u) + 1 : i - 1 \in DOMAIN u /\ v[i] = u[i - 1]
    BY <1>1
  <1> HIDE DEF v
  <1>3. Range(v) = {x} \union Range(u)
    <2>1. x \in Range(v)
      <3>1. 1 \in DOMAIN v
        BY <1>1, <1>2
      <3> QED
        BY <1>2, <3>1 DEF Range
    <2>2. ASSUME NEW i \in DOMAIN u
          PROVE  u[i] \in Range(v)
      <3>1. i + 1 \in DOMAIN v /\ v[i + 1] = u[i]
        BY <1>1, <1>2
      <3> QED
        BY <3>1 DEF Range
    <2>3. ASSUME NEW i \in DOMAIN v
          PROVE  v[i] = x \/ v[i] \in Range(u)
      <3>1. i = 1 \/ i \in 2 .. Len(u) + 1
        BY <1>1, <1>2
      <3> QED
        BY <1>2, <3>1 DEF Range
    <2> QED
      BY <2>1, <2>2, <2>3 DEF Range
  <1>4. IsInjective(v)
    <2>1. SUFFICES ASSUME NEW i \in DOMAIN v, NEW j \in DOMAIN v, v[i] = v[j]
                   PROVE  i = j
      BY DEF IsInjective
    <2>2. (i = 1 \/ i \in 2 .. Len(u) + 1) /\ (j = 1 \/ j \in 2 .. Len(u) + 1)
      BY <1>1, <1>2
    <2>3. \A l \in 2 .. Len(u) + 1 : v[l] \in Range(u)
      BY <1>2 DEF Range
    <2>4. CASE i \in 2 .. Len(u) + 1 /\ j \in 2 .. Len(u) + 1
      <3>1. i - 1 \in DOMAIN u /\ j - 1 \in DOMAIN u /\ u[i - 1] = u[j - 1]
        BY <1>2, <2>1, <2>4
      <3>2. i - 1 = j - 1
        BY <3>1 DEF IsInjective
      <3> QED
        BY <1>1, <2>4, <3>2
    <2> QED
      BY <1>2, <2>1, <2>2, <2>3, <2>4
  <1> QED
    BY <1>2, <1>3, <1>4 DEF v

(* Whatever clusters are copied back, each document goes to one, and a      *)
(* centroid to its own.                                                     *)
LEMMA AppendedIsDealt ==
  ASSUME NEW j, NEW S, j.docs \in Seq(S), IsInjective(j.docs), NEW k \in Nat,
         j.heads \in Arrangements(Range(j.docs), k),
         NEW best \in [DOMAIN j.docs -> 1 .. k]
  PROVE  IsDealt(Appended(j, best), j.docs, k)
  <1> DEFINE docs  == j.docs
             heads == j.heads
             D     == Range(docs)
             P(c)  == {i \in DOMAIN docs : best[i] = c /\ docs[i] \notin Range(heads)}
             u(c)  == Picked(docs, P(c))
             clusters == Appended(j, best)
  <1>1. heads \in [1 .. k -> D] /\ IsInjective(heads)
    BY DEF Arrangements
  <1>2. docs \in Seq(D) /\ IsInjective(docs)
    BY DEF Range
  <1>3. clusters = [c \in 1 .. k |-> <<heads[c]>> \o u(c)]
    BY <1>1 DEF Appended
  <1>4. ASSUME NEW c \in 1 .. k
        PROVE  /\ u(c) \in Seq(D) /\ IsInjective(u(c))
               /\ Range(u(c)) = {docs[i] : i \in P(c)}
    <2> DEFINE p == P(c)
               w == Picked(docs, p)
    <2>1. p \subseteq DOMAIN docs
      OBVIOUS
    <2>2. w = [i \in DOMAIN Ascending(p) |-> docs[Ascending(p)[i]]]
      BY DEF Picked
    <2> HIDE DEF p, w, D, docs
    <2>3. w \in Seq(D) /\ Range(w) = {docs[i] : i \in p} /\ IsInjective(w)
      BY <1>2, <2>1, <2>2, TakenInOrder
    <2> QED
      BY <2>3 DEF p, w
  <1>5. ASSUME NEW c \in 1 .. k
        PROVE  /\ clusters[c] \in Seq(D) /\ IsInjective(clusters[c])
               /\ Range(clusters[c]) = {heads[c]} \union {docs[i] : i \in P(c)}
    <2>1. heads[c] \notin Range(u(c))
      <3>1. heads[c] \in Range(heads)
        BY <1>1 DEF Range
      <3>2. \A i \in P(c) : docs[i] # heads[c]
        BY <3>1
      <3> HIDE DEF u, P
      <3> QED
        BY <1>4, <3>2
    <2>2. clusters[c] = <<heads[c]>> \o u(c) /\ heads[c] \in D
      BY <1>1, <1>3
    <2> HIDE DEF clusters, u, P, D, heads, docs
    <2> QED
      BY <1>4, <2>1, <2>2, LedBy
  <1>6. ASSUME NEW b \in 1 .. k, NEW c \in 1 .. k, b # c
        PROVE  Range(clusters[b]) \intersect Range(clusters[c]) = {}
    <2>1. heads[b] # heads[c] /\ heads[b] \in Range(heads) /\ heads[c] \in Range(heads)
      BY <1>1, <1>6 DEF Range, IsInjective
    <2>2. \A i \in P(b) : docs[i] \notin Range(heads) /\ best[i] = b
      OBVIOUS
    <2>3. \A i \in P(c) : docs[i] \notin Range(heads) /\ best[i] = c
      OBVIOUS
    <2>4. \A i \in P(b) : \A l \in P(c) : docs[i] # docs[l]
      BY <1>2, <1>6 DEF IsInjective
    <2>5. /\ Range(clusters[b]) = {heads[b]} \union {docs[i] : i \in P(b)}
          /\ Range(clusters[c]) = {heads[c]} \union {docs[i] : i \in P(c)}
      BY <1>5
    <2> HIDE DEF clusters, P, heads, docs
    <2>6. \A x \in {heads[b]} \union {docs[i] : i \in P(b)} :
            x \notin {heads[c]} \union {docs[i] : i \in P(c)}
      BY <2>1, <2>2, <2>3, <2>4
    <2> QED
      BY <2>5, <2>6
  <1>7. ASSUME NEW d \in D
        PROVE  \E c \in 1 .. k : d \in Range(clusters[c])
    <2>1. CASE d \in Range(heads)
      <3>1. PICK c \in 1 .. k : heads[c] = d
        BY <1>1, <2>1 DEF Range
      <3> HIDE DEF clusters, P
      <3> QED
        BY <1>5, <3>1
    <2>2. CASE d \notin Range(heads)
      <3>1. PICK i \in DOMAIN docs : docs[i] = d
        BY DEF Range
      <3>2. best[i] \in 1 .. k /\ i \in P(best[i])
        BY <2>2, <3>1
      <3> HIDE DEF clusters, P
      <3> QED
        BY <1>5, <3>1, <3>2
    <2> QED
      BY <2>1, <2>2
  <1>8. DOMAIN clusters = 1 .. k
    BY <1>3
  <1> HIDE DEF clusters
  <1> QED
    BY <1>5, <1>6, <1>7, <1>8 DEF IsDealt, clusters

(* Rows of naturals have a similarity.                                      *)
LEMMA InnerIsNatural ==
  ASSUME NEW r, IsRow(r), NEW s, IsRow(s)
  PROVE  Inner(r, s) \in Nat
  <1> DEFINE D == DOMAIN r \intersect DOMAIN s
             f == [t \in D |-> r[t] * s[t]]
  <1>1. D \subseteq 0 .. Dim /\ Dim \in Nat
    BY DimAssumption DEF IsRow, Terms
  <1>2. IsFiniteSet(D)
    <2> HIDE DEF D
    <2> QED
      BY <1>1, AscendingAscends
  <1>3. f \in [D -> Nat]
    BY DEF IsRow
  <1> HIDE DEF D, f
  <1>4. SumOf(f) \in Nat
    BY <1>2, <1>3, SumType
  <1> QED
    BY <1>4 DEF Inner, D, f

(* The place of the greatest of some scores, the first of equals.           *)
IsFirst(i, sim, n) ==
  i \in 1 .. n /\ \A j \in (1 .. n) \ {i} : IF j < i THEN sim[j] < sim[i] ELSE sim[j] <= sim[i]

(* There is one first of the greatest.                                      *)
LEMMA FirstIsOne ==
  ASSUME NEW n \in Nat, NEW sim \in [1 .. n -> Nat], NEW i, IsFirst(i, sim, n),
         NEW j, IsFirst(j, sim, n)
  PROVE  i = j
  <1>1. SUFFICES ASSUME i # j PROVE FALSE
    OBVIOUS
  <1>2. i \in 1 .. n /\ j \in 1 .. n /\ sim[i] \in Nat /\ sim[j] \in Nat
    BY DEF IsFirst
  <1>3. IF j < i THEN sim[j] < sim[i] ELSE sim[j] <= sim[i]
    BY <1>1, <1>2 DEF IsFirst
  <1>4. IF i < j THEN sim[i] < sim[j] ELSE sim[i] <= sim[j]
    BY <1>1, <1>2 DEF IsFirst
  <1> QED
    BY <1>1, <1>2, <1>3, <1>4

(* A document's closest centroid is the first of the most similar ones.     *)
LEMMA ClosestIsFirst ==
  ASSUME NEW c, IsCorpus(c), NEW d \in Documents(c), NEW n \in Nat \ {0},
         NEW centroids \in [1 .. n -> Documents(c)],
         NEW sim, sim = [i \in 1 .. n |-> Inner(Row(c, d), Row(c, centroids[i]))]
  PROVE  sim \in [1 .. n -> Nat] /\ IsFirst(Closest(c, d, centroids), sim, n)
  <1>1. ASSUME NEW e \in Documents(c)
        PROVE  IsRow(Row(c, e))
    BY DEF IsCorpus, Row, Documents
  <1>2. sim \in [1 .. n -> Nat]
    BY <1>1, InnerIsNatural
  <1>3. \E i \in 1 .. n : IsFirst(i, sim, n)
    BY <1>2, FirstGreatest DEF IsFirst
  <1>4. Closest(c, d, centroids) = CHOOSE i \in 1 .. n : IsFirst(i, sim, n)
    <2>1. DOMAIN centroids = 1 .. n
      OBVIOUS
    <2>2. \A i \in 1 .. n : Inner(Row(c, d), Row(c, centroids[i])) = sim[i]
      OBVIOUS
    <2>3. ASSUME NEW i \in 1 .. n
          PROVE  IsFirst(i, sim, n) <=>
                   \A j \in DOMAIN centroids \ {i} :
                     IF j < i
                       THEN Inner(Row(c, d), Row(c, centroids[j])) < Inner(Row(c, d), Row(c, centroids[i]))
                       ELSE Inner(Row(c, d), Row(c, centroids[j])) <= Inner(Row(c, d), Row(c, centroids[i]))
      <3> HIDE DEF Inner, Row
      <3> QED
        BY <2>1, <2>2 DEF IsFirst
    <2> QED
      BY <2>1, <2>3 DEF Closest
  <1> QED
    BY <1>2, <1>3, <1>4

(* The kernel takes the first of the greatest scores too.                   *)
LEMMA ArgmaxIsFirst ==
  ASSUME NEW n \in Nat \ {0}, NEW sim \in [1 .. n -> Nat]
  PROVE  row_argmax(sim) \in 1 .. n /\ IsFirst(row_argmax(sim), sim, n)
  <1> DEFINE G == Greatest(sim)
  <1>1. G = {i \in 1 .. n : \A j \in 1 .. n : sim[j] <= sim[i]}
    BY DEF Greatest
  <1>2. PICK i \in 1 .. n : \A j \in (1 .. n) \ {i} :
          IF j < i THEN sim[j] < sim[i] ELSE sim[j] <= sim[i]
    BY FirstGreatest
  <1>3. i \in G
    <2>1. ASSUME NEW j \in 1 .. n
          PROVE  sim[j] <= sim[i]
      BY <1>2
    <2> QED
      BY <1>1, <2>1
  <1>4. \A j \in G : i <= j
    <2>1. ASSUME NEW j \in G, j < i
          PROVE  FALSE
      <3>1. j \in 1 .. n /\ sim[i] <= sim[j] /\ sim[i] \in Nat /\ sim[j] \in Nat
        BY <1>1
      <3>2. sim[j] < sim[i]
        BY <1>2, <2>1, <3>1
      <3> QED
        BY <3>1, <3>2
    <2>2. \A j \in G : j \in 1 .. n
      BY <1>1
    <2> QED
      BY <2>1, <2>2
  <1> HIDE DEF G
  <1>5. Min(G) = i
    <2>1. \A x \in G : x \in 1 .. n
      BY <1>1
    <2>2. \A x \in G : (\A y \in G : x <= y) => x = i
      BY <1>3, <1>4, <2>1
    <2> QED
      BY <1>3, <1>4, <2>2 DEF Min
  <1>6. row_argmax(sim) = i
    BY <1>5 DEF row_argmax, G
  <1> QED
    BY <1>2, <1>6 DEF IsFirst

(* A document's row of scores, by way of the dense matrix of centroids:     *)
(* its similarity to each.                                                  *)
LEMMA ScoresAreSimilar ==
  ASSUME NEW c, IsCorpus(c), NEW d \in Documents(c), NEW n \in Nat,
         NEW heads \in [1 .. n -> Documents(c)]
  PROVE  spmm(c, d, scatter_dense(c, heads), n)
           = [i \in 1 .. n |-> Inner(Row(c, d), Row(c, heads[i]))]
  <1> DEFINE b == scatter_dense(c, heads)
             r == Row(c, d)
  <1>1. \A e \in Documents(c) : IsRow(Row(c, e))
    BY DEF IsCorpus, Row, Documents
  <1>2. ASSUME NEW i \in 1 .. n
        PROVE  SumOf([t \in DOMAIN r |-> r[t] * b[<<t, i>>]]) = Inner(r, Row(c, heads[i]))
    <2> DEFINE s == Row(c, heads[i])
               A == DOMAIN r \intersect DOMAIN s
               f == [t \in DOMAIN r |-> r[t] * b[<<t, i>>]]
               g == [t \in A |-> r[t] * s[t]]
    <2>1. IsRow(r) /\ IsRow(s)
      BY <1>1
    <2>2. \A t \in DOMAIN r : b[<<t, i>>] = IF t \in DOMAIN s THEN s[t] ELSE 0
      <3>1. \A t \in Terms : b[<<t, i>>] = IF t \in DOMAIN s THEN s[t] ELSE 0
        BY DEF scatter_dense
      <3> QED
        BY <2>1, <3>1 DEF IsRow
    <2>3. IsFiniteSet(DOMAIN r)
      <3>1. DOMAIN r \subseteq 0 .. Dim /\ Dim \in Nat
        BY <2>1, DimAssumption DEF IsRow, Terms
      <3> QED
        BY <3>1, AscendingAscends
    <2> HIDE DEF b, r, s
    <2>4. f \in [DOMAIN r -> Nat] /\ g \in [A -> Nat] /\ A \in SUBSET DOMAIN r
      BY <2>1, <2>2 DEF IsRow
    <2>5. (\A t \in DOMAIN r \ A : f[t] = 0) /\ \A t \in A : g[t] = f[t]
      BY <2>1, <2>2 DEF IsRow
    <2>6. SumOf(f) = SumOf(g)
      <3> DEFINE D == DOMAIN r
      <3>1. /\ IsFiniteSet(D) /\ f \in [D -> Nat] /\ g \in [A -> Nat] /\ A \in SUBSET D
            /\ (\A t \in D \ A : f[t] = 0) /\ \A t \in A : g[t] = f[t]
        BY <2>3, <2>4, <2>5
      <3> HIDE DEF f, g, A, D
      <3> QED
        BY <3>1, SumOverSupport
    <2> QED
      BY <2>6 DEF Inner, s
  <1> HIDE DEF b
  <1> QED
    BY <1>2 DEF spmm, b

(* The cluster the device names for a document is the one the CPU does.     *)
LEMMA DeviceIsClosest ==
  ASSUME NEW c, IsCorpus(c), NEW d \in Documents(c), NEW n \in Nat \ {0},
         NEW heads \in [1 .. n -> Documents(c)]
  PROVE  /\ row_argmax(spmm(c, d, scatter_dense(c, heads), n)) = Closest(c, d, heads)
         /\ Closest(c, d, heads) \in 1 .. n
  <1> DEFINE sim == [i \in 1 .. n |-> Inner(Row(c, d), Row(c, heads[i]))]
  <1>1. spmm(c, d, scatter_dense(c, heads), n) = sim
    BY ScoresAreSimilar
  <1> HIDE DEF sim
  <1>2. sim \in [1 .. n -> Nat] /\ IsFirst(Closest(c, d, heads), sim, n)
    BY ClosestIsFirst DEF sim
  <1>3. IsFirst(row_argmax(sim), sim, n)
    BY <1>2, ArgmaxIsFirst
  <1>4. row_argmax(sim) = Closest(c, d, heads)
    BY <1>2, <1>3, FirstIsOne
  <1> QED
    BY <1>1, <1>2, <1>4 DEF IsFirst

-----------------------------------------------------------------------------
(* What a list is made of, whatever fails.                                  *)

Widths == {U8, U16, U32}

HasCorpus(v) == IsCorpus(v.rows) /\ v.element_size \in Widths

(* A thread's buffers, wherever an allocation failed.                       *)
BufferSound(d) ==
  /\ DOMAIN d = DeviceFields
  /\ d.cap \in [Buffers -> Nat]
  /\ d.dangling \subseteq Buffers /\ \A b \in d.dangling : d.cap[b] > 0
  /\ DOMAIN d.acc = Slots /\ DOMAIN d.seen = Slots

(* The list a thread has taken. *)
HasList(j) ==
  /\ DOMAIN j = JobFields
  /\ j.term \in Terms
  /\ j.docs \in Kept(vectors.rows, j.term, Param.lambda)
  /\ j.heads \in Arrangements(Range(j.docs), NClusters(Param.beta, Len(j.docs)))

Pools == {"pool_resident", "pool_grow", "pool_run", "pool_cpu"}

JobSound(j) ==
  \/ j = Idle
  \/ /\ HasList(j)
     /\ j.pc # "idle"
     /\ j.pc \in Pools => IsDealt(j.clusters, j.docs, Len(j.heads))

(* A list that is built has each document kept in one of its clusters.      *)
IsBuilt(list, t) ==
  \E docs \in Kept(vectors.rows, t, Param.lambda) : \E k \in Nat :
    DOMAIN list = 1 .. k /\ IsDealt([c \in 1 .. k |-> list[c].docs], docs, k)

DealInv ==
  /\ vectors.at \in Addresses /\ HasCorpus(vectors)
  /\ resident = NoCorpus \/ (resident.owner \in Addresses /\ HasCorpus(resident))
  /\ DOMAIN job = Threads /\ DOMAIN device = Threads /\ DOMAIN lists = Terms
  /\ \A th \in Threads :
       /\ JobSound(job[th]) /\ BufferSound(device[th])
       /\ job[th].pc \in OnDevice => Matches(resident, vectors)
  /\ \A t \in Terms : Built(t) => IsBuilt(lists[t], t)

(* The corpora a build may be given.                                        *)
LEMMA CorporaAreCorpora ==
  ASSUME NEW c \in Corpora
  PROVE  HasCorpus(c)
  BY CorporaAssumption DEF HasCorpus, IsCorpus, IsRow, Widths, Terms

(* The list of a thread, for what the operators ask of it.                  *)
LEMMA ListOfJob ==
  ASSUME HasCorpus(vectors), NEW j, HasList(j)
  PROVE  /\ j.docs \in Seq(Documents(vectors.rows)) /\ IsInjective(j.docs)
         /\ j.docs # <<>>
         /\ Len(j.heads) \in 1 .. Param.beta
         /\ Len(j.heads) = NClusters(Param.beta, Len(j.docs))
         /\ j.heads \in Arrangements(Range(j.docs), Len(j.heads))
         /\ j.heads \in [1 .. Len(j.heads) -> Documents(vectors.rows)]
         /\ DOMAIN j.heads = 1 .. Len(j.heads)
  <1> DEFINE k == NClusters(Param.beta, Len(j.docs))
             D == Documents(vectors.rows)
  <1>1. j.docs \in Seq(D) /\ IsInjective(j.docs)
    BY KeptOnce, ParamAssumption DEF HasList, HasCorpus
  <1>2. k \in 1 .. Param.beta
    <2>1. Len(j.docs) \in Nat /\ Param.beta \in Nat \ {0}
      BY <1>1, ParamAssumption
    <2> QED
      BY <2>1, ClustersAsked
  <1>3. j.heads \in [1 .. k -> Range(j.docs)]
    BY DEF HasList, Arrangements
  <1>4. Range(j.docs) \subseteq D
    BY <1>1, SequenceElement DEF Range
  <1> HIDE DEF k, D
  <1>5. k \in Nat /\ Len(j.heads) = k
    <2>1. k \in Nat
      BY <1>2, ParamAssumption
    <2> QED
      BY <1>3, <2>1, FunctionIsSequence
  <1>6. j.docs # <<>>
    <2>1. SUFFICES ASSUME j.docs = <<>> PROVE FALSE
      OBVIOUS
    <2>2. Range(j.docs) = {}
      BY <2>1 DEF Range
    <2>3. 1 \in 1 .. k
      BY <1>2
    <2> QED
      BY <1>3, <2>2, <2>3
  <1>7. j.heads \in Arrangements(Range(j.docs), k)
    BY DEF HasList, k
  <1>8. j.heads \in [1 .. k -> D] /\ DOMAIN j.heads = 1 .. k
    BY <1>3, <1>4
  <1> QED
    BY <1>1, <1>2, <1>5, <1>6, <1>7, <1>8 DEF k, D

(* What the CPU assigns is what the device would append, had it named the   *)
(* closest centroids.                                                       *)
LEMMA AssignedIsAppended ==
  ASSUME HasCorpus(vectors), NEW j, HasList(j)
  PROVE  \E best \in [DOMAIN j.docs -> 1 .. Len(j.heads)] :
           /\ \A i \in DOMAIN j.docs : best[i] = Closest(vectors.rows, j.docs[i], j.heads)
           /\ Assigned(vectors.rows, j.docs, j.heads) = Appended(j, best)
  <1> DEFINE k == Len(j.heads)
             D == Documents(vectors.rows)
             best == [i \in DOMAIN j.docs |-> Closest(vectors.rows, j.docs[i], j.heads)]
  <1>1. j.docs \in Seq(D) /\ k \in Nat \ {0} /\ j.heads \in [1 .. k -> D] /\ DOMAIN j.heads = 1 .. k
    BY ListOfJob
  <1>2. IsCorpus(vectors.rows)
    BY DEF HasCorpus
  <1>3. best \in [DOMAIN j.docs -> 1 .. k]
    <2> HIDE DEF k, D
    <2>1. \A d \in D : Closest(vectors.rows, d, j.heads) \in 1 .. k
      BY <1>1, <1>2, DeviceIsClosest DEF D
    <2>2. \A i \in DOMAIN j.docs : j.docs[i] \in D
      BY <1>1, SequenceElement
    <2> QED
      BY <2>1, <2>2
  <1>4. ASSUME NEW c \in DOMAIN j.heads
        PROVE  {i \in DOMAIN j.docs : /\ j.docs[i] \notin Range(j.heads)
                                      /\ Closest(vectors.rows, j.docs[i], j.heads) = c}
                 = {i \in DOMAIN j.docs : best[i] = c /\ j.docs[i] \notin Range(j.heads)}
    OBVIOUS
  <1>5. Assigned(vectors.rows, j.docs, j.heads) = Appended(j, best)
    BY <1>4 DEF Assigned, Appended
  <1> HIDE DEF k
  <1> QED
    BY <1>3, <1>5 DEF k

(* The CPU deals each document out once.                                    *)
LEMMA AssignedIsDealt ==
  ASSUME HasCorpus(vectors), NEW j, HasList(j)
  PROVE  IsDealt(Assigned(vectors.rows, j.docs, j.heads), j.docs, Len(j.heads))
  <1>1. PICK best \in [DOMAIN j.docs -> 1 .. Len(j.heads)] :
          Assigned(vectors.rows, j.docs, j.heads) = Appended(j, best)
    BY AssignedIsAppended
  <1>2. IsDealt(Appended(j, best), j.docs, Len(j.heads))
    <2> DEFINE k == Len(j.heads)
               S == Documents(vectors.rows)
    <2>1. /\ j.docs \in Seq(S) /\ IsInjective(j.docs) /\ k \in Nat
          /\ j.heads \in Arrangements(Range(j.docs), k)
      BY ListOfJob
    <2>2. best \in [DOMAIN j.docs -> 1 .. k]
      OBVIOUS
    <2> HIDE DEF k, S
    <2>3. IsDealt(Appended(j, best), j.docs, k)
      BY <2>1, <2>2, AppendedIsDealt
    <2> QED
      BY <2>3 DEF k
  <1> QED
    BY <1>1, <1>2

(* What the device copies back names a cluster for each document, even when *)
(* it is another corpus of the same shape that was read.                    *)
LEMMA BestNamesClusters ==
  ASSUME HasCorpus(vectors), HasCorpus(resident), Len(resident.rows) = Len(vectors.rows),
         NEW j, HasList(j), NEW d, NEW best \in BestClusters(j, d)
  PROVE  best \in [DOMAIN j.docs -> 1 .. Len(j.heads)]
  <1> DEFINE k == Len(j.heads)
             D == Documents(resident.rows)
             b == scatter_dense(resident.rows, j.heads)
             named == [i \in DOMAIN j.docs |-> row_argmax(spmm(resident.rows, j.docs[i], b, k))]
  <1>1. j.docs \in Seq(D) /\ k \in Nat \ {0} /\ j.heads \in [1 .. k -> D]
    BY ListOfJob DEF Documents
  <1>2. IsCorpus(resident.rows)
    BY DEF HasCorpus
  <1>3. best \in [DOMAIN j.docs -> 1 .. k] \/ best = named
    BY DEF BestClusters
  <1>4. \A i \in DOMAIN j.docs : j.docs[i] \in D
    BY <1>1, SequenceElement
  <1> HIDE DEF k, D
  <1>5. \A i \in DOMAIN j.docs : row_argmax(spmm(resident.rows, j.docs[i], b, k)) \in 1 .. k
    BY <1>1, <1>2, <1>4, DeviceIsClosest DEF D
  <1>6. named \in [DOMAIN j.docs -> 1 .. k]
    BY <1>5
  <1> HIDE DEF named
  <1> QED
    BY <1>3, <1>6 DEF k

(* Sizes are natural numbers. *)
Sized(need, S) == S \subseteq Buffers /\ \A b \in S : need[b] \in Nat

(* The postings of some documents can be counted.                           *)
LEMMA NnzIsNatural ==
  ASSUME NEW c, IsCorpus(c), NEW s \in Seq(Documents(c))
  PROVE  NnzOf(c, s) \in Nat
  <1> DEFINE f == [i \in DOMAIN s |-> Cardinality(DOMAIN Row(c, s[i]))]
             S == DOMAIN s
  <1>1. \A d \in Documents(c) : Cardinality(DOMAIN Row(c, d)) \in Nat
    <2>1. ASSUME NEW d \in Documents(c)
          PROVE  Cardinality(DOMAIN Row(c, d)) \in Nat
      <3> DEFINE D == DOMAIN Row(c, d)
      <3>1. D \subseteq 0 .. Dim /\ Dim \in Nat
        BY DimAssumption DEF IsCorpus, Documents, Row, IsRow, Terms
      <3> HIDE DEF D
      <3> QED
        BY <3>1, AscendingAscends DEF D
    <2> QED
      BY <2>1
  <1>2. f \in [S -> Nat]
    BY <1>1, SequenceElement
  <1>3. IsFiniteSet(S)
    <2>1. Len(s) \in Nat /\ S \subseteq 0 .. Len(s)
      OBVIOUS
    <2> HIDE DEF S
    <2> QED
      BY <2>1, AscendingAscends
  <1> HIDE DEF f, S
  <1> QED
    BY <1>2, <1>3, SumType DEF NnzOf, f, S

(* What the assigner asks of its buffers.                                   *)
LEMMA AssignIsSized ==
  ASSUME HasCorpus(vectors), NEW j, HasList(j), NEW es \in Widths
  PROVE  Sized(AssignNeed(vectors.rows, es, j.docs, Len(j.heads)), Range(AssignBuffers(es)))
  <1> DEFINE n == Len(j.docs)
             k == Len(j.heads)
             z == NnzOf(vectors.rows, j.docs)
             need == AssignNeed(vectors.rows, es, j.docs, k)
             names == {"docs", "centroids", "best", "a_row_ptr", "a_col", "b", "a_val", "c", "spmm"}
  <1>1. n \in Nat /\ k \in Nat /\ z \in Nat /\ Dim \in Nat /\ es \in Nat
    <2>1. z \in Nat
      BY NnzIsNatural, ListOfJob DEF HasCorpus
    <2>2. n \in Nat /\ k \in Nat
      <3>1. j.docs \in Seq(Documents(vectors.rows)) /\ Len(j.heads) \in 1 .. Param.beta
        BY ListOfJob
      <3> QED
        BY <3>1, ParamAssumption
    <2>3. Dim \in Nat /\ es \in Nat
      BY DimAssumption DEF Widths, U8, U16, U32
    <2> QED
      BY <2>1, <2>2, <2>3
  <1>2. names = Range(AssignBuffers(U32)) /\ names \subseteq Buffers
    <2>1. names = Range(AssignBuffers(U32))
      BY DEF AssignBuffers, Range
    <2> QED
      BY <2>1 DEF Buffers
  <1>3. Range(AssignBuffers(es)) \subseteq names
    <2>1. CASE es = U32
      BY <1>2, <2>1
    <2>2. CASE es # U32
      BY <2>2 DEF AssignBuffers, Range
    <2> QED
      BY <2>1, <2>2
  <1>4. \A b \in names : need[b] \in Nat
    <2> DEFINE w == IF es = U32 THEN 4 ELSE 8
    <2>1. w \in Nat /\ n * k \in Nat /\ Dim * k \in Nat
      <3> HIDE DEF n, k, z
      <3> QED
        BY <1>1
    <2>2. (n * k) * w \in Nat /\ (Dim * k) * es \in Nat
      <3> DEFINE p == n * k
                 q == Dim * k
      <3>1. p \in Nat /\ q \in Nat
        BY <2>1
      <3> HIDE DEF p, q, w
      <3>2. p * w \in Nat /\ q * es \in Nat
        BY <1>1, <2>1, <3>1
      <3> QED
        BY <3>2 DEF p, q
    <2>3. need = [docs |-> 4 * n, centroids |-> 4 * k, best |-> 4 * n, a_row_ptr |-> 4 * (n + 1),
                  a_col |-> 4 * z, b |-> (Dim * k) * es, a_val |-> 4 * z,
                  c |-> (n * k) * w, spmm |-> 1]
      BY DEF AssignNeed
    <2> HIDE DEF need, n, k, z, w
    <2> QED
      BY <1>1, <2>1, <2>2, <2>3
  <1> QED
    BY <1>2, <1>3, <1>4 DEF Sized

(* What the summarizer asks of its buffers.                                 *)
LEMMA SumIsSized ==
  ASSUME HasCorpus(vectors), NEW j, HasList(j), NEW k \in Nat
  PROVE  /\ Sized(SumNeed(vectors.rows, j.docs, k), Range(ScratchBuffers))
         /\ Sized(SumNeed(vectors.rows, j.docs, k), Range(ListBuffers))
  <1> DEFINE n == Len(j.docs)
             z == NnzOf(vectors.rows, j.docs)
             need == SumNeed(vectors.rows, j.docs, k)
  <1>1. n \in Nat /\ z \in Nat /\ Dim \in Nat
    <2>1. j.docs \in Seq(Documents(vectors.rows))
      BY ListOfJob
    <2> QED
      BY <2>1, NnzIsNatural, DimAssumption DEF HasCorpus
  <1>2. k * Dim \in Nat /\ 4 * (k * Dim) \in Nat
    <2> DEFINE p == k * Dim
    <2>1. p \in Nat
      BY <1>1
    <2> HIDE DEF p
    <2>2. 4 * p \in Nat
      BY <2>1
    <2> QED
      BY <2>1, <2>2 DEF p
  <1>3. need = [acc |-> 4 * k * Dim, seen |-> 4 * k * Dim, s_docs |-> 4 * n, offsets |-> 4 * (k + 1),
                out_base |-> 4 * (k + 1), out_term |-> 4 * z,
                out_val |-> 4 * z, out_count |-> 4 * k, out_sum |-> 4 * k]
    BY DEF SumNeed
  <1>4. 4 * k * Dim \in Nat
    <2> DEFINE q == 4 * k
    <2>1. q \in Nat
      OBVIOUS
    <2> HIDE DEF q
    <2>2. q * Dim \in Nat
      BY <1>1, <2>1
    <2> QED
      BY <2>2 DEF q
  <1> HIDE DEF need, n, z
  <1>5. \A b \in {"acc", "seen", "s_docs", "offsets", "out_base", "out_term", "out_val",
                  "out_count", "out_sum"} : need[b] \in Nat
    BY <1>1, <1>3, <1>4
  <1>6. /\ Range(ScratchBuffers) = {"acc", "seen"}
        /\ Range(ListBuffers) = {"s_docs", "offsets", "out_base", "out_term", "out_val",
                                 "out_count", "out_sum"}
    BY DEF Range, ScratchBuffers, ListBuffers
  <1>7. Range(ScratchBuffers) \subseteq Buffers /\ Range(ListBuffers) \subseteq Buffers
    BY DEF Buffers, SumBuffers
  <1> QED
    BY <1>5, <1>6, <1>7 DEF Sized, need

(* Buffers that were grown, or that failed to grow, are what they were.     *)
SoundOutcome(o) == DOMAIN o = {"ok", "device"} /\ BufferSound(o.device)

(* Growing buffers leaves sound ones, and keeps what is in the scratch.     *)
LEMMA GrowingIsSound ==
  ASSUME NEW d, BufferSound(d), NEW need, NEW order, Sized(need, Range(order)),
         NEW n \in Nat, DOMAIN order = 1 .. n,
         NEW o \in Growths(d, need, order)
  PROVE  /\ SoundOutcome(o)
         /\ o.device.acc = d.acc /\ o.device.seen = d.seen
  <1> DEFINE Good(e) == BufferSound(e) /\ e.acc = d.acc /\ e.seen = d.seen
  <1>1. ASSUME NEW S, S \subseteq Range(order)
        PROVE  Good(EnsureCapacity(d, need, S))
    <2> DEFINE e == EnsureCapacity(d, need, S)
    <2>1. /\ DOMAIN e = DeviceFields /\ e.acc = d.acc /\ e.seen = d.seen
          /\ e.cap = [b \in Buffers |-> IF b \in S /\ Short(d, need, b) THEN need[b] ELSE d.cap[b]]
          /\ e.dangling = {b \in d.dangling : ~(b \in S /\ Short(d, need, b))}
      BY DEF EnsureCapacity, BufferSound, DeviceFields
    <2>2. \A b \in S : need[b] \in Nat
      BY <1>1 DEF Sized
    <2>3. e.cap \in [Buffers -> Nat]
      BY <2>1, <2>2 DEF BufferSound
    <2>4. e.dangling \subseteq Buffers /\ \A b \in e.dangling : e.cap[b] > 0
      BY <2>1 DEF BufferSound
    <2> HIDE DEF e
    <2> QED
      BY <2>1, <2>3, <2>4 DEF BufferSound, e
  <1>2. ASSUME NEW e, Good(e), NEW b \in Buffers
        PROVE  Good(CapacityFailed(e, b))
    <2>1. CASE e.cap[b] = 0
      BY <1>2, <2>1 DEF CapacityFailed
    <2>2. CASE e.cap[b] # 0
      <3>1. e.cap[b] > 0
        BY <1>2, <2>2 DEF BufferSound
      <3> QED
        BY <1>2, <2>2, <3>1 DEF CapacityFailed, BufferSound, DeviceFields
    <2> QED
      BY <2>1, <2>2
  <1>3. CASE o = [ok |-> TRUE, device |-> EnsureCapacity(d, need, Range(order))]
    BY <1>1, <1>3 DEF SoundOutcome
  <1>4. CASE o = [ok |-> FALSE, device |-> d]
    BY <1>4 DEF SoundOutcome
  <1>5. ASSUME NEW i \in DOMAIN order,
               o = [ok |-> FALSE,
                    device |-> CapacityFailed(
                                 EnsureCapacity(d, need, {order[m] : m \in 1 .. i - 1}), order[i])]
        PROVE  SoundOutcome(o) /\ o.device.acc = d.acc /\ o.device.seen = d.seen
    <2> DEFINE S == {order[m] : m \in 1 .. i - 1}
    <2>1. S \subseteq Range(order) /\ order[i] \in Range(order)
      BY DEF Range
    <2>2. order[i] \in Buffers
      BY <2>1 DEF Sized
    <2>3. Good(EnsureCapacity(d, need, S))
      BY <1>1, <2>1
    <2> HIDE DEF S
    <2>4. Good(CapacityFailed(EnsureCapacity(d, need, S), order[i]))
      BY <1>2, <2>2, <2>3
    <2> QED
      BY <1>5, <2>4 DEF SoundOutcome, S
  <1> QED
    BY <1>3, <1>4, <1>5 DEF Growths

(* Also where the scratch is not cleared.                                   *)
LEMMA ScratchGrowingIsSound ==
  ASSUME NEW d, BufferSound(d), NEW need, Sized(need, Range(ScratchBuffers)),
         NEW p \in ScratchGrowths(d, need)
  PROVE  SoundOutcome(p)
  <1>1. PICK q \in Growths(d, need, ScratchBuffers) : p \in Cleared(d, need, q)
    BY DEF ScratchGrowths
  <1>2. SoundOutcome(q) /\ q.device.acc = d.acc /\ q.device.seen = d.seen
    <2>1. \E n \in Nat : DOMAIN ScratchBuffers = 1 .. n
      <3>1. DOMAIN ScratchBuffers = 1 .. 2
        BY DEF ScratchBuffers
      <3> QED
        BY <3>1
    <2> QED
      BY <1>1, <2>1, GrowingIsSound
  <1>3. DOMAIN d.acc = Slots /\ DOMAIN d.seen = Slots /\ \A x : DOMAIN Filled(x) = Slots
    BY DEF BufferSound, Filled
  <1>4. ASSUME NEW a, NEW s, DOMAIN a = Slots, DOMAIN s = Slots
        PROVE  /\ SoundOutcome(Holding(q, a, s))
               /\ SoundOutcome([Holding(q, a, s) EXCEPT !.ok = FALSE])
    BY <1>2, <1>4 DEF SoundOutcome, BufferSound, DeviceFields, Holding
  <1>5. ASSUME NEW u \in Unset(d, q)
        PROVE  SoundOutcome(u) /\ SoundOutcome([u EXCEPT !.ok = FALSE])
    <2> DEFINE K(b, old) == IF q.device.cap[b] # d.cap[b] THEN {Filled(0), Filled(1)} ELSE {old}
    <2>1. Unset(d, q) = {Holding(q, a, s) : a \in K("acc", d.acc), s \in K("seen", d.seen)}
      BY DEF Unset
    <2>2. \A x : \A old : x \in K("acc", old) \/ x \in K("seen", old) => x \in {Filled(0), Filled(1), old}
      OBVIOUS
    <2> HIDE DEF K
    <2>3. PICK a \in K("acc", d.acc), s \in K("seen", d.seen) : u = Holding(q, a, s)
      BY <2>1
    <2>4. DOMAIN a = Slots /\ DOMAIN s = Slots
      BY <1>3, <2>2
    <2> QED
      BY <1>4, <2>3, <2>4
  <1>6. SoundOutcome(p)
    <2>1. CASE q.ok /\ Short(d, need, "acc")
      <3>1. \/ p = Holding(q, Filled(0), Filled(0))
            \/ \E u \in Unset(d, q) : p = [u EXCEPT !.ok = FALSE]
        BY <1>1, <2>1 DEF Cleared
      <3>2. DOMAIN Filled(0) = Slots
        BY <1>3
      <3>3. SoundOutcome(Holding(q, Filled(0), Filled(0)))
        BY <1>4, <3>2
      <3> QED
        BY <1>5, <3>1, <3>3
    <2>2. CASE ~(q.ok /\ Short(d, need, "acc"))
      <3>1. p \in Unset(d, q)
        BY <1>1, <2>2 DEF Cleared
      <3> QED
        BY <1>5, <3>1
    <2> QED
      BY <2>1, <2>2
  <1> QED
    BY <1>6

(* And so is what growing all the buffers of the summarizer leaves.         *)
LEMMA SumGrowingIsSound ==
  ASSUME NEW d, BufferSound(d), NEW need,
         Sized(need, Range(ScratchBuffers)), Sized(need, Range(ListBuffers)),
         NEW o \in SumGrowths(d, need)
  PROVE  SoundOutcome(o)
  <1>1. PICK p \in ScratchGrowths(d, need) :
          o \in IF p.ok THEN Growths(p.device, need, ListBuffers) ELSE {p}
    BY DEF SumGrowths
  <1>2. SoundOutcome(p)
    BY ScratchGrowingIsSound
  <1>3. CASE p.ok
    <2>1. DOMAIN ListBuffers = 1 .. 7 /\ 7 \in Nat
      BY DEF ListBuffers
    <2>2. o \in Growths(p.device, need, ListBuffers) /\ BufferSound(p.device)
      BY <1>1, <1>2, <1>3 DEF SoundOutcome
    <2> QED
      BY <2>1, <2>2, GrowingIsSound
  <1>4. CASE ~p.ok
    BY <1>1, <1>2, <1>4
  <1> QED
    BY <1>3, <1>4

ResidentSound(r) == r = NoCorpus \/ (r.owner \in Addresses /\ HasCorpus(r))

(* What is made resident has the shape of the corpus being built from.      *)
LEMMA EnsuredIsSound ==
  ASSUME vectors.at \in Addresses, HasCorpus(vectors), ResidentSound(resident),
         NEW o \in EnsureResident
  PROVE  /\ ResidentSound(o.resident)
         /\ o.ok => Matches(o.resident, vectors)
         /\ Matches(resident, vectors) => o.resident = resident
  <1>1. Matches(Upload(vectors), vectors) /\ ResidentSound(Upload(vectors))
    BY DEF Matches, Upload, Shape, ResidentSound, HasCorpus
  <1>2. ResidentSound(NoCorpus)
    BY DEF ResidentSound
  <1>3. CASE o = [ok |-> FALSE, resident |-> resident, mishap |-> 0]
    BY <1>3
  <1>4. CASE Matches(resident, vectors) /\ o = [ok |-> TRUE, resident |-> resident, mishap |-> 0]
    BY <1>4
  <1>5. CASE ~Matches(resident, vectors) /\ o = [ok |-> TRUE, resident |-> Upload(vectors), mishap |-> 0]
    BY <1>1, <1>5
  <1>6. CASE ~Matches(resident, vectors) /\ o = [ok |-> FALSE, resident |-> NoCorpus, mishap |-> 1]
    BY <1>2, <1>6
  <1> QED
    BY <1>3, <1>4, <1>5, <1>6 DEF EnsureResident

(* A corpus that matches the one being built from has its documents.        *)
LEMMA MatchesHasDocuments ==
  ASSUME DealInv, Matches(resident, vectors)
  PROVE  /\ HasCorpus(resident)
         /\ Len(resident.rows) = Len(vectors.rows)
         /\ resident.element_size = vectors.element_size
  <1>1. resident # NoCorpus
    BY AddressesAssumption DEF Matches, NoCorpus, DealInv
  <1> QED
    BY <1>1 DEF DealInv, Matches, Shape

(* Only the buffers of a thread change.                                     *)
OthersKeep(th) ==
  DOMAIN device' = Threads /\ \A u \in Threads \ {th} : device'[u] = device[u]

(* A step of one thread: its own job and buffers, and a list it has built.  *)
LEMMA OneThreadDeals ==
  ASSUME DealInv, NEW th \in Threads, NEW j,
         vectors' = vectors,
         job' = [job EXCEPT ![th] = j], OthersKeep(th),
         JobSound(j), BufferSound(device'[th]),
         resident' = resident \/ \E o \in EnsureResident : resident' = o.resident,
         j.pc \in OnDevice => Matches(resident', vectors),
         \/ lists' = lists
         \/ \E t \in Terms : \E s : lists' = [lists EXCEPT ![t] = s] /\ IsBuilt(s, t)
  PROVE  DealInv'
  <1>1. ResidentSound(resident') /\ (Matches(resident, vectors) => Matches(resident', vectors))
    <2>1. ResidentSound(resident) /\ vectors.at \in Addresses /\ HasCorpus(vectors)
      BY DEF DealInv, ResidentSound
    <2> QED
      BY <2>1, EnsuredIsSound
  <1>5. DOMAIN job' = Threads /\ DOMAIN device' = Threads /\ DOMAIN lists' = Terms
    BY DEF DealInv, OthersKeep
  <1>6. ASSUME NEW u \in Threads
        PROVE  /\ JobSound(job'[u]) /\ BufferSound(device'[u])
               /\ job'[u].pc \in OnDevice => Matches(resident', vectors)
    BY <1>1 DEF DealInv, OthersKeep
  <1>7. ASSUME NEW t \in Terms, lists'[t] # <<>>
        PROVE  IsBuilt(lists'[t], t)
    BY <1>7 DEF DealInv, Built
  <1>8. vectors'.at \in Addresses /\ HasCorpus(vectors')
    BY DEF DealInv
  <1>9. resident' = NoCorpus \/ (resident'.owner \in Addresses /\ HasCorpus(resident'))
    BY <1>1 DEF ResidentSound
  <1>10. ASSUME NEW u \in Threads
         PROVE  (/\ JobSound(job[u]) /\ BufferSound(device[u])
                 /\ job[u].pc \in OnDevice => Matches(resident, vectors))'
    BY <1>6 DEF JobSound, HasList, BufferSound
  <1>11. ASSUME NEW t \in Terms
         PROVE  (Built(t) => IsBuilt(lists[t], t))'
    BY <1>7 DEF Built, IsBuilt
  <1> QED
    BY <1>5, <1>8, <1>9, <1>10, <1>11 DEF DealInv

(* A list that leaves the assigner has its documents dealt out.             *)
LEMMA PoolingIsSound ==
  ASSUME NEW j, HasList(j), NEW clusters, IsDealt(clusters, j.docs, Len(j.heads))
  PROVE  LET p == Pooling(j, clusters)
         IN  /\ JobSound(p) /\ HasList(p) /\ p.pc \notin OnDevice
             /\ p.pc \in {"pool_resident", "pool_cpu"}
             /\ p.clusters = clusters /\ p.docs = j.docs /\ p.heads = j.heads /\ p.term = j.term
  <1> DEFINE p == Pooling(j, clusters)
  <1>1. /\ DOMAIN p = JobFields /\ p.pc \in {"pool_resident", "pool_cpu"}
        /\ p.clusters = clusters /\ p.docs = j.docs /\ p.heads = j.heads /\ p.term = j.term
    BY DEF Pooling, HasList, JobFields
  <1> HIDE DEF p
  <1>2. HasList(p)
    BY <1>1 DEF HasList
  <1>3. p.pc # "idle" /\ p.pc \notin OnDevice
    BY <1>1 DEF OnDevice
  <1> QED
    BY <1>1, <1>2, <1>3 DEF JobSound, p

(* A list assigned on the CPU.                                              *)
LEMMA OnCpuIsSound ==
  ASSUME HasCorpus(vectors), NEW j, HasList(j)
  PROVE  JobSound(AssignOnCpu(j)) /\ AssignOnCpu(j).pc \notin OnDevice
  BY AssignedIsDealt, PoolingIsSound DEF AssignOnCpu

(* A list that moves on keeps its documents.                                *)
LEMMA MovingIsSound ==
  ASSUME NEW j, JobSound(j), j.pc # "idle", NEW to, to # "idle",
         to \in Pools => j.pc \in Pools
  PROVE  /\ JobSound([j EXCEPT !.pc = to])
         /\ [j EXCEPT !.pc = to].pc = to
  <1> DEFINE p == [j EXCEPT !.pc = to]
  <1>1. HasList(j) /\ (j.pc \in Pools => IsDealt(j.clusters, j.docs, Len(j.heads)))
    BY DEF JobSound, Idle
  <1>2. /\ DOMAIN p = JobFields /\ p.pc = to
        /\ p.clusters = j.clusters /\ p.docs = j.docs /\ p.heads = j.heads /\ p.term = j.term
    BY <1>1 DEF HasList, JobFields
  <1> HIDE DEF p
  <1>3. HasList(p)
    BY <1>1, <1>2 DEF HasList
  <1> QED
    BY <1>1, <1>2, <1>3 DEF JobSound, p

(* A list whose clusters were given summaries is built.                     *)
LEMMA DoneIsBuilt ==
  ASSUME NEW j, HasList(j), IsDealt(j.clusters, j.docs, Len(j.heads)), HasCorpus(vectors),
         NEW choices, NEW s \in Summarized(j.clusters, choices)
  PROVE  IsBuilt(s, j.term)
  <1> DEFINE k == Len(j.heads)
  <1>1. k \in Nat
    BY ListOfJob
  <1>2. DOMAIN j.clusters = 1 .. k
    BY DEF IsDealt
  <1>3. PICK f : s = [i \in DOMAIN j.clusters |-> [docs |-> j.clusters[i], summary |-> f[i]]]
    BY DEF Summarized
  <1>4. DOMAIN s = 1 .. k /\ \A c \in 1 .. k : s[c].docs = j.clusters[c]
    BY <1>2, <1>3
  <1>5. [c \in 1 .. k |-> s[c].docs] = [c \in 1 .. k |-> j.clusters[c]]
    BY <1>4
  <1> HIDE DEF k
  <1>6. IsDealt([c \in 1 .. k |-> s[c].docs], j.docs, k)
    <2>1. \A c \in 1 .. k : [i \in 1 .. k |-> s[i].docs][c] = j.clusters[c]
      BY <1>4
    <2> DEFINE g == [c \in 1 .. k |-> s[c].docs]
    <2>2. DOMAIN g = 1 .. k /\ \A c \in 1 .. k : g[c] = j.clusters[c]
      BY <1>4
    <2> HIDE DEF g
    <2>3. IsDealt(g, j.docs, k)
      BY <2>2 DEF IsDealt, k
    <2> QED
      BY <2>3 DEF g
  <1>7. j.docs \in Kept(vectors.rows, j.term, Param.lambda)
    BY DEF HasList
  <1> QED
    BY <1>1, <1>4, <1>6, <1>7 DEF IsBuilt

(* A thread that has taken a list.                                          *)
LEMMA ThreadHasList ==
  ASSUME DealInv, NEW th \in Threads, job[th].pc # "idle"
  PROVE  /\ HasCorpus(vectors)
         /\ JobSound(job[th]) /\ HasList(job[th]) /\ BufferSound(device[th])
         /\ job[th].pc \in Pools => IsDealt(job[th].clusters, job[th].docs, Len(job[th].heads))
         /\ job[th].pc \in OnDevice => Matches(resident, vectors)
  BY DEF DealInv, JobSound, Idle

(* A step that leaves the buffers alone.                                    *)
LEMMA DeviceStays ==
  ASSUME DealInv, NEW th \in Threads, UNCHANGED device
  PROVE  OthersKeep(th) /\ BufferSound(device'[th])
  BY DEF DealInv, OthersKeep

(* A step that changes those of one thread.                                 *)
LEMMA DeviceIsReplaced ==
  ASSUME DealInv, NEW th \in Threads, NEW d, device' = [device EXCEPT ![th] = d], BufferSound(d)
  PROVE  OthersKeep(th) /\ BufferSound(device'[th])
  BY DEF DealInv, OthersKeep

(* A list is taken (kmeans_utils.cpp:162-199).                              *)
LEMMA TakingDeals ==
  ASSUME DealInv, NEW th \in Threads, NEW t \in Terms, TakeList(th, t)
  PROVE  DealInv'
  <1>1. UNCHANGED <<vectors, resident, device, lists>>
    BY DEF TakeList
  <1>2. PICK kept \in Kept(vectors.rows, t, Param.lambda) :
          \E heads \in Arrangements(Range(kept), NClusters(Param.beta, Len(kept))) :
            \/ job' = [job EXCEPT ![th] = NewJob(t, kept, heads)]
            \/ job' = [job EXCEPT ![th] = AssignOnCpu(NewJob(t, kept, heads))]
    BY DEF TakeList
  <1>3. PICK heads \in Arrangements(Range(kept), NClusters(Param.beta, Len(kept))) :
          \/ job' = [job EXCEPT ![th] = NewJob(t, kept, heads)]
          \/ job' = [job EXCEPT ![th] = AssignOnCpu(NewJob(t, kept, heads))]
    BY <1>2
  <1> DEFINE j == NewJob(t, kept, heads)
  <1>4. HasList(j) /\ j.pc = "assign_resident"
    BY DEF NewJob, HasList, JobFields
  <1> HIDE DEF j
  <1>5. JobSound(j) /\ j.pc \notin OnDevice
    BY <1>4 DEF JobSound, Pools, OnDevice
  <1>6. JobSound(AssignOnCpu(j)) /\ AssignOnCpu(j).pc \notin OnDevice
    BY <1>4, OnCpuIsSound DEF DealInv
  <1>7. PICK i : job' = [job EXCEPT ![th] = i] /\ JobSound(i) /\ i.pc \notin OnDevice
    BY <1>3, <1>5, <1>6 DEF j
  <1> QED
    BY <1>1, <1>7, DeviceStays, OneThreadDeals

(* The corpus is made resident, or the list goes to the CPU.                *)
LEMMA ResidingDeals ==
  ASSUME DealInv, NEW th \in Threads, AssignResident(th) \/ PoolResident(th)
  PROVE  DealInv'
  <1>1. /\ UNCHANGED <<vectors, device, lists>>
        /\ job[th].pc \in {"assign_resident", "pool_resident"}
    BY DEF AssignResident, PoolResident
  <1>2. /\ HasCorpus(vectors) /\ JobSound(job[th]) /\ HasList(job[th])
        /\ job[th].pc = "pool_resident" => job[th].pc \in Pools
    BY <1>1, ThreadHasList DEF Pools
  <1>3. JobSound(AssignOnCpu(job[th])) /\ AssignOnCpu(job[th]).pc \notin OnDevice
    BY <1>2, OnCpuIsSound
  <1> DEFINE At(to) == [job[th] EXCEPT !.pc = to]
  <1>4. \A to \in {"assign_grow", "pool_grow", "pool_cpu"} :
          (to \in Pools => job[th].pc \in Pools) => JobSound(At(to)) /\ At(to).pc = to
    BY <1>1, <1>2, MovingIsSound
  <1>5. /\ vectors.at \in Addresses /\ ResidentSound(resident)
    BY DEF DealInv, ResidentSound
  <1>6. PICK o \in EnsureResident : /\ resident' = o.resident
                                    /\ \/ AssignResident(th) /\ job' = [job EXCEPT ![th] = IF o.ok THEN At("assign_grow") ELSE AssignOnCpu(job[th])]
                                       \/ PoolResident(th) /\ job' = [job EXCEPT ![th] = At(IF o.ok THEN "pool_grow" ELSE "pool_cpu")]
    <2>1. CASE AssignResident(th)
      BY <2>1 DEF AssignResident
    <2>2. CASE PoolResident(th)
      BY <2>2 DEF PoolResident
    <2> QED
      BY <2>1, <2>2
  <1>7. o.ok => Matches(resident', vectors)
    BY <1>2, <1>5, <1>6, EnsuredIsSound
  <1> DEFINE Lands(j) == JobSound(j) /\ (j.pc \in OnDevice => Matches(resident', vectors))
  <1>8. \E j : job' = [job EXCEPT ![th] = j] /\ Lands(j)
    <2>1. CASE /\ AssignResident(th)
               /\ job' = [job EXCEPT ![th] = IF o.ok THEN At("assign_grow") ELSE AssignOnCpu(job[th])]
      <3>1. Lands(IF o.ok THEN At("assign_grow") ELSE AssignOnCpu(job[th]))
        <4>1. JobSound(At("assign_grow")) /\ At("assign_grow").pc = "assign_grow"
          BY <1>4 DEF Pools
        <4> HIDE DEF At
        <4> QED
          BY <1>3, <1>7, <4>1
      <3> QED
        BY <2>1, <3>1
    <2>2. CASE /\ PoolResident(th)
               /\ job' = [job EXCEPT ![th] = At(IF o.ok THEN "pool_grow" ELSE "pool_cpu")]
      <3>1. job[th].pc \in Pools
        BY <2>2 DEF PoolResident, Pools
      <3>2. Lands(At("pool_grow")) \/ ~o.ok
        <4>1. JobSound(At("pool_grow"))
          BY <1>4, <3>1
        <4> HIDE DEF At
        <4> QED
          BY <1>7, <4>1
      <3>3. Lands(At("pool_cpu"))
        <4>1. JobSound(At("pool_cpu")) /\ At("pool_cpu").pc = "pool_cpu"
          BY <1>4, <3>1
        <4> HIDE DEF At
        <4> QED
          BY <4>1 DEF OnDevice
      <3>4. Lands(At(IF o.ok THEN "pool_grow" ELSE "pool_cpu"))
        <4> HIDE DEF Lands, At
        <4> QED
          BY <3>2, <3>3
      <3> HIDE DEF Lands, At
      <3> QED
        BY <2>2, <3>4
    <2> HIDE DEF Lands, At
    <2> QED
      BY <1>6, <2>1, <2>2
  <1>9. PICK j : job' = [job EXCEPT ![th] = j] /\ Lands(j)
    BY <1>8
  <1> QED
    BY <1>1, <1>6, <1>9, DeviceStays, OneThreadDeals

(* The buffers of the assigner grow, or the list goes to the CPU.           *)
LEMMA AssignGrowDeals ==
  ASSUME DealInv, NEW th \in Threads, AssignGrow(th)
  PROVE  DealInv'
  <1> DEFINE j == job[th]
             es == resident.element_size
             order == AssignBuffers(es)
             need == AssignNeed(vectors.rows, es, j.docs, Len(j.heads))
             grown == [j EXCEPT !.pc = "assign_run"]
  <1>1. /\ UNCHANGED <<vectors, resident, lists>> /\ j.pc = "assign_grow"
    BY DEF AssignGrow
  <1>2. /\ HasCorpus(vectors) /\ JobSound(j) /\ HasList(j) /\ BufferSound(device[th])
        /\ Matches(resident, vectors)
    BY <1>1, ThreadHasList DEF OnDevice
  <1>3. PICK o \in Growths(device[th], need, order) :
          /\ device' = [device EXCEPT ![th] = o.device]
          /\ job' = [job EXCEPT ![th] = IF o.ok THEN grown ELSE AssignOnCpu(j)]
    BY DEF AssignGrow
  <1>4. BufferSound(o.device)
    <2>1. es \in Widths
      BY <1>2, MatchesHasDocuments DEF HasCorpus
    <2>2. Sized(need, Range(order))
      BY <1>2, <2>1, AssignIsSized
    <2>3. \E n \in Nat : DOMAIN order = 1 .. n
      <3>1. DOMAIN order = 1 .. 9 \/ DOMAIN order = 1 .. 7
        BY DEF AssignBuffers
      <3> QED
        BY <3>1
    <2> HIDE DEF need, order
    <2> QED
      BY <1>2, <1>3, <2>2, <2>3, GrowingIsSound DEF SoundOutcome
  <1>5. JobSound(AssignOnCpu(j)) /\ AssignOnCpu(j).pc \notin OnDevice
    BY <1>2, OnCpuIsSound
  <1>6. JobSound(grown) /\ grown.pc = "assign_run"
    BY <1>1, <1>2, MovingIsSound DEF Pools
  <1> HIDE DEF grown, need, order
  <1>7. \E i : job' = [job EXCEPT ![th] = i] /\ JobSound(i)
    BY <1>3, <1>5, <1>6
  <1> QED
    BY <1>1, <1>2, <1>3, <1>4, <1>7, DeviceIsReplaced, OneThreadDeals

(* The documents of a list are dealt out.                                   *)
LEMMA AssignRunDeals ==
  ASSUME DealInv, NEW th \in Threads, AssignRun(th)
  PROVE  DealInv'
  <1> DEFINE j == job[th]
  <1>1. /\ UNCHANGED <<vectors, resident, device, lists>> /\ j.pc = "assign_run"
    BY DEF AssignRun
  <1>2. /\ HasCorpus(vectors) /\ HasList(j) /\ Matches(resident, vectors)
    BY <1>1, ThreadHasList DEF OnDevice
  <1>3. ASSUME NEW best \in BestClusters(j, device[th])
        PROVE  IsDealt(Appended(j, best), j.docs, Len(j.heads))
    <2> DEFINE k == Len(j.heads)
               S == Documents(vectors.rows)
    <2>1. best \in [DOMAIN j.docs -> 1 .. k]
      BY <1>2, BestNamesClusters, MatchesHasDocuments
    <2>2. /\ j.docs \in Seq(S) /\ IsInjective(j.docs) /\ k \in Nat
          /\ j.heads \in Arrangements(Range(j.docs), k)
      BY <1>2, ListOfJob
    <2> HIDE DEF k, S, j
    <2>3. IsDealt(Appended(j, best), j.docs, k)
      BY <2>1, <2>2, AppendedIsDealt
    <2> QED
      BY <2>3 DEF k
  <1>4. \/ job' = [job EXCEPT ![th] = AssignOnCpu(j)]
        \/ \E best \in BestClusters(j, device[th]) :
             job' = [job EXCEPT ![th] = Pooling(j, Appended(j, best))]
    BY DEF AssignRun
  <1> HIDE DEF j
  <1>5. PICK i : job' = [job EXCEPT ![th] = i] /\ JobSound(i) /\ i.pc \notin OnDevice
    BY <1>2, <1>3, <1>4, OnCpuIsSound, PoolingIsSound
  <1> QED
    BY <1>1, <1>5, DeviceStays, OneThreadDeals

(* The buffers of the summarizer grow, or the list goes to the CPU.         *)
LEMMA PoolGrowDeals ==
  ASSUME DealInv, NEW th \in Threads, PoolGrow(th)
  PROVE  DealInv'
  <1> DEFINE j    == job[th]
             need == SumNeed(vectors.rows, j.docs, Len(j.clusters))
             run  == [j EXCEPT !.pc = "pool_run",
                               !.read = [c \in DOMAIN j.clusters |-> [i \in DOMAIN j.clusters[c] |-> 0]],
                               !.out = [c \in DOMAIN j.clusters |-> <<>>]]
             declined == [j EXCEPT !.pc = "pool_cpu"]
  <1>1. UNCHANGED <<vectors, resident, lists>> /\ j.pc = "pool_grow"
    BY DEF PoolGrow
  <1>2. /\ HasCorpus(vectors) /\ JobSound(j) /\ HasList(j) /\ BufferSound(device[th])
        /\ Matches(resident, vectors) /\ IsDealt(j.clusters, j.docs, Len(j.heads))
    BY <1>1, ThreadHasList DEF OnDevice, Pools
  <1>3. JobSound(declined)
    BY <1>1, <1>2, MovingIsSound DEF Pools
  <1>4. JobSound(run)
    <2>1. /\ DOMAIN run = JobFields /\ run.pc = "pool_run" /\ run.clusters = j.clusters
          /\ run.docs = j.docs /\ run.heads = j.heads /\ run.term = j.term
      BY <1>2 DEF HasList, JobFields
    <2> HIDE DEF run
    <2>2. HasList(run)
      BY <1>2, <2>1 DEF HasList
    <2> QED
      BY <1>2, <2>1, <2>2 DEF JobSound
  <1>5. \/ device' = device /\ job' = [job EXCEPT ![th] = declined]
        \/ \E o \in SumGrowths(device[th], need) :
             /\ device' = [device EXCEPT ![th] = o.device]
             /\ job' = [job EXCEPT ![th] = IF o.ok /\ ~Torn(o.device) THEN run ELSE declined]
    BY DEF PoolGrow
  <1>6. \A o \in SumGrowths(device[th], need) : BufferSound(o.device)
    <2>1. Len(j.clusters) \in Nat
      <3>1. Len(j.heads) \in Nat /\ DOMAIN j.clusters = 1 .. Len(j.heads)
        BY <1>2, ListOfJob DEF IsDealt
      <3> QED
        BY <3>1
    <2>2. Sized(need, Range(ScratchBuffers)) /\ Sized(need, Range(ListBuffers))
      BY <1>2, <2>1, SumIsSized
    <2> HIDE DEF need
    <2> QED
      BY <1>2, <2>2, SumGrowingIsSound DEF SoundOutcome
  <1> HIDE DEF run, declined, need
  <1>7. /\ \E i : job' = [job EXCEPT ![th] = i] /\ JobSound(i)
        /\ OthersKeep(th) /\ BufferSound(device'[th])
    BY <1>3, <1>4, <1>5, <1>6, DeviceStays, DeviceIsReplaced
  <1> QED
    BY <1>1, <1>2, <1>7, OneThreadDeals

(* A posting is read.                                                       *)
LEMMA PostingDeals ==
  ASSUME DealInv, NEW th \in Threads, NEW c, NEW i, PoolPosting(th, c, i)
  PROVE  DealInv'
  <1> DEFINE j == job[th]
             d == device[th]
  <1>1. UNCHANGED <<vectors, resident, lists>> /\ j.pc = "pool_run"
    BY DEF PoolPosting
  <1>2. /\ HasList(j) /\ BufferSound(d) /\ Matches(resident, vectors)
        /\ IsDealt(j.clusters, j.docs, Len(j.heads))
    BY <1>1, ThreadHasList DEF OnDevice, Pools
  <1>3. PICK x : job' = [job EXCEPT ![th].read[c][i] = @ + 1, ![th].out[c] = x]
    BY DEF PoolPosting
  <1>4. PICK slot, w : device' = [device EXCEPT ![th].acc[slot] = w, ![th].seen[slot] = 1]
    BY DEF PoolPosting
  <1> DEFINE jj == [j EXCEPT !.read[c][i] = @ + 1, !.out[c] = x]
             dd == [d EXCEPT !.acc[slot] = w, !.seen[slot] = 1]
  <1>5. JobSound(jj)
    <2>1. /\ DOMAIN jj = JobFields /\ jj.pc = "pool_run" /\ jj.clusters = j.clusters
          /\ jj.docs = j.docs /\ jj.heads = j.heads /\ jj.term = j.term
      BY <1>1, <1>2 DEF HasList, JobFields
    <2> HIDE DEF jj
    <2>2. HasList(jj)
      BY <1>2, <2>1 DEF HasList
    <2> QED
      BY <1>2, <2>1, <2>2 DEF JobSound
  <1>6. BufferSound(dd)
    BY <1>2 DEF BufferSound, DeviceFields
  <1>7. job' = [job EXCEPT ![th] = jj]
    BY <1>3
  <1>8. device' = [device EXCEPT ![th] = dd]
    BY <1>4
  <1> HIDE DEF jj, dd
  <1>9. OthersKeep(th) /\ BufferSound(device'[th])
    BY <1>6, <1>8, DeviceIsReplaced
  <1> QED
    BY <1>1, <1>2, <1>5, <1>7, <1>9, OneThreadDeals

(* A thread that is done has built its list.                                *)
LEMMA DoneDeals ==
  ASSUME DealInv, NEW th \in Threads, NEW choices, Done(th, choices), job[th].pc \in Pools
  PROVE  /\ job' = [job EXCEPT ![th] = Idle]
         /\ \E t \in Terms : \E s : lists' = [lists EXCEPT ![t] = s] /\ IsBuilt(s, t)
  <1>1. /\ HasCorpus(vectors) /\ HasList(job[th])
        /\ IsDealt(job[th].clusters, job[th].docs, Len(job[th].heads))
    <2>1. job[th].pc # "idle"
      BY DEF Pools
    <2> QED
      BY <2>1, ThreadHasList
  <1>2. PICK s \in Summarized(job[th].clusters, choices) : lists' = [lists EXCEPT ![job[th].term] = s]
    BY DEF Done
  <1>3. IsBuilt(s, job[th].term) /\ job[th].term \in Terms
    BY <1>1, <1>2, DoneIsBuilt DEF HasList
  <1> QED
    BY <1>2, <1>3 DEF Done

(* A thread without a list.                                                 *)
LEMMA IdleIsSound == JobSound(Idle) /\ Idle.pc \notin OnDevice
  BY DEF JobSound, Idle, OnDevice

(* The pools are copied back, or the list goes to the CPU.                  *)
LEMMA CollectDeals ==
  ASSUME DealInv, NEW th \in Threads, PoolCollect(th)
  PROVE  DealInv'
  <1> DEFINE j == job[th]
             d == device[th]
             declined == [j EXCEPT !.pc = "pool_cpu"]
  <1>1. UNCHANGED <<vectors, resident>> /\ j.pc = "pool_run"
    BY DEF PoolCollect
  <1>2. JobSound(j) /\ BufferSound(d)
    BY <1>1, ThreadHasList
  <1>3. PICK touched : device' = [device EXCEPT ![th] = Reset(d, touched)]
    BY DEF PoolCollect
  <1>4. BufferSound(Reset(d, touched))
    BY <1>2 DEF Reset, BufferSound, DeviceFields
  <1>5. OthersKeep(th) /\ BufferSound(device'[th])
    BY <1>3, <1>4, DeviceIsReplaced
  <1>6. CASE \E choices : Done(th, choices)
    <2>1. /\ job' = [job EXCEPT ![th] = Idle]
          /\ \E t \in Terms : \E s : lists' = [lists EXCEPT ![t] = s] /\ IsBuilt(s, t)
      BY <1>1, <1>6, DoneDeals DEF Pools
    <2> QED
      BY <1>1, <1>5, <2>1, IdleIsSound, OneThreadDeals
  <1>7. CASE job' = [job EXCEPT ![th] = declined] /\ UNCHANGED lists
    <2>1. JobSound(declined) /\ declined.pc = "pool_cpu"
      BY <1>1, <1>2, MovingIsSound DEF Pools
    <2> HIDE DEF declined
    <2>2. declined.pc \notin OnDevice
      BY <2>1 DEF OnDevice
    <2> QED
      BY <1>1, <1>5, <1>7, <2>1, <2>2, OneThreadDeals
  <1> QED
    BY <1>6, <1>7 DEF PoolCollect

(* The list is summarized on the CPU, now or next.                          *)
LEMMA LeavingDeals ==
  ASSUME DealInv, NEW th \in Threads, PoolFails(th) \/ PoolCpu(th)
  PROVE  DealInv'
  <1>1. UNCHANGED <<vectors, resident, device>>
    BY DEF PoolFails, PoolCpu
  <1>2. CASE PoolCpu(th)
    <2>1. job[th].pc \in Pools /\ \E choices : Done(th, choices)
      BY <1>2 DEF PoolCpu, Pools
    <2>2. /\ job' = [job EXCEPT ![th] = Idle]
          /\ \E t \in Terms : \E s : lists' = [lists EXCEPT ![t] = s] /\ IsBuilt(s, t)
      BY <2>1, DoneDeals
    <2> QED
      BY <1>1, <2>2, DeviceStays, IdleIsSound, OneThreadDeals
  <1>3. CASE PoolFails(th)
    <2> DEFINE declined == [job[th] EXCEPT !.pc = "pool_cpu"]
    <2>1. job' = [job EXCEPT ![th] = declined] /\ UNCHANGED lists /\ job[th].pc = "pool_run"
      BY <1>3 DEF PoolFails
    <2>2. JobSound(declined) /\ declined.pc = "pool_cpu"
      BY <2>1, ThreadHasList, MovingIsSound DEF Pools
    <2> HIDE DEF declined
    <2>3. declined.pc \notin OnDevice
      BY <2>2 DEF OnDevice
    <2> QED
      BY <1>1, <2>1, <2>2, <2>3, DeviceStays, OneThreadDeals
  <1> QED
    BY <1>2, <1>3

(* The corpus of a build is one of the corpora. *)
LEMMA CorpusOfBuild ==
  ASSUME NEW v, v \in {[at |-> a, rows |-> c.rows, element_size |-> c.element_size] :
                         a \in Addresses, c \in Corpora}
  PROVE  v.at \in Addresses /\ HasCorpus(v)
  <1>1. PICK a \in Addresses, c \in Corpora :
          v = [at |-> a, rows |-> c.rows, element_size |-> c.element_size]
    OBVIOUS
  <1> QED
    BY <1>1, CorporaAreCorpora DEF HasCorpus

(* Another build starts, with another corpus.                               *)
LEMMA NextBuildDeals ==
  ASSUME DealInv, NextBuild
  PROVE  DealInv'
  <1>1. vectors'.at \in Addresses /\ HasCorpus(vectors')
    BY CorpusOfBuild DEF NextBuild
  <1>2. /\ UNCHANGED <<resident, device, job>> /\ \A th \in Threads : job[th] = Idle
        /\ lists' = [t \in Terms |-> <<>>]
    BY DEF NextBuild
  <1>3. ASSUME NEW u \in Threads
        PROVE  (/\ JobSound(job[u]) /\ BufferSound(device[u])
                /\ job[u].pc \in OnDevice => Matches(resident, vectors))'
    BY <1>2, IdleIsSound DEF JobSound, DealInv, BufferSound
  <1>4. \A t \in Terms : (Built(t) => IsBuilt(lists[t], t))'
    BY <1>2 DEF Built
  <1> QED
    BY <1>1, <1>2, <1>3, <1>4 DEF DealInv

(* At first there is no list.                                               *)
LEMMA DealingStarts == Init => DealInv
  <1> SUFFICES ASSUME Init PROVE DealInv
    OBVIOUS
  <1>1. vectors.at \in Addresses /\ HasCorpus(vectors)
    BY CorpusOfBuild DEF Init
  <1>2. BufferSound(Untouched)
    BY DEF BufferSound, Untouched, DeviceFields
  <1> QED
    BY <1>1, <1>2, IdleIsSound DEF Init, DealInv, Built

(* Nothing happens.                                                         *)
LEMMA DealingStutters == ASSUME DealInv, UNCHANGED vars PROVE DealInv'
  <1>1. ASSUME NEW u \in Threads
        PROVE  (/\ JobSound(job[u]) /\ BufferSound(device[u])
                /\ job[u].pc \in OnDevice => Matches(resident, vectors))'
    BY DEF DealInv, vars, JobSound, HasList, BufferSound, Matches, Shape
  <1>2. \A t \in Terms : (Built(t) => IsBuilt(lists[t], t))'
    BY DEF DealInv, vars, Built, IsBuilt
  <1> QED
    BY <1>1, <1>2 DEF DealInv, vars

(* One step of anything keeps each document in one cluster of its list.     *)
LEMMA DealingGoesOn == ASSUME DealInv, [Next]_vars PROVE DealInv'
  <1>1. ASSUME NEW th \in Threads, Work(th)
        PROVE  DealInv'
    BY <1>1, TakingDeals, ResidingDeals, AssignGrowDeals, AssignRunDeals, PoolGrowDeals,
       PostingDeals, CollectDeals, LeavingDeals DEF Work
  <1> QED
    BY <1>1, NextBuildDeals, DealingStutters DEF Next

(* A list that is built has the documents it keeps, each once.              *)
LEMMA BuiltHasEachOnce ==
  ASSUME DealInv, NEW t \in Terms, IsBuilt(lists[t], t)
  PROVE  LET docs(c) == lists[t][c].docs
             all     == UNION {Range(docs(c)) : c \in DOMAIN lists[t]}
         IN  /\ \A c \in DOMAIN lists[t] : IsInjective(docs(c))
             /\ \A b, c \in DOMAIN lists[t] : b # c => Range(docs(b)) \intersect Range(docs(c)) = {}
             /\ \E kept \in Kept(vectors.rows, t, Param.lambda) : all = Range(kept)
  <1> DEFINE docs(c) == lists[t][c].docs
             all == UNION {Range(docs(c)) : c \in DOMAIN lists[t]}
  <1>1. PICK kept \in Kept(vectors.rows, t, Param.lambda) : \E k \in Nat :
          DOMAIN lists[t] = 1 .. k /\ IsDealt([c \in 1 .. k |-> docs(c)], kept, k)
    BY DEF IsBuilt
  <1>2. PICK k \in Nat : DOMAIN lists[t] = 1 .. k /\ IsDealt([c \in 1 .. k |-> docs(c)], kept, k)
    BY <1>1
  <1>3. /\ \A c \in 1 .. k : docs(c) \in Seq(Range(kept)) /\ IsInjective(docs(c))
        /\ \A b, c \in 1 .. k : b # c => Range(docs(b)) \intersect Range(docs(c)) = {}
        /\ \A d \in Range(kept) : \E c \in 1 .. k : d \in Range(docs(c))
    <2> DEFINE g == [c \in 1 .. k |-> docs(c)]
    <2>1. IsDealt(g, kept, k) /\ \A c \in 1 .. k : g[c] = docs(c)
      BY <1>2
    <2> HIDE DEF g, docs
    <2> QED
      BY <2>1 DEF IsDealt
  <1> HIDE DEF docs
  <1>4. \A c \in 1 .. k : Range(docs(c)) \subseteq Range(kept)
    <2>1. ASSUME NEW c \in 1 .. k
          PROVE  Range(docs(c)) \subseteq Range(kept)
      <3> DEFINE K == Range(kept)
                 u == docs(c)
      <3>1. u \in Seq(K)
        BY <1>3
      <3> HIDE DEF K, u
      <3>2. Range(u) \subseteq K
        BY <3>1, SequenceElement DEF Range
      <3> QED
        BY <3>2 DEF K, u
    <2> QED
      BY <2>1
  <1>5. all = Range(kept)
    BY <1>2, <1>3, <1>4
  <1> HIDE DEF all
  <1> QED
    BY <1>2, <1>3, <1>5 DEF docs, all

(* Whatever fails, an allocation that takes a buffer with it and an address *)
(* used again included, and whatever lambda is, each document that pruning  *)
(* keeps of a list is in one of its clusters, once, and no other document is*)
(* (gpu_cluster_assigner.cu:333-411, kmeans_utils.cpp:162-199).             *)
THEOREM DocumentsAreDealtOnce == Spec => []TypeOK
  <1>1. DealInv => DealtOnce
    <2> SUFFICES ASSUME DealInv PROVE DealtOnce
      OBVIOUS
    <2>1. \A t \in Terms : Built(t) => IsBuilt(lists[t], t)
      BY DEF DealInv
    <2> QED
      BY <2>1, BuiltHasEachOnce DEF DealtOnce
  <1>2. DealInv => TypeOK
    BY <1>1 DEF DealInv, BufferSound, TypeOK
  <1> QED
    BY <1>2, DealingStarts, DealingGoesOn, PTL DEF Spec

-----------------------------------------------------------------------------
(* What the max-pool has read.                                              *)

(* The documents of cluster c whose term t has been read.                   *)
ReadBy(j, c, t) ==
  {i \in DOMAIN j.clusters[c] :
     \E n \in 1 .. j.read[c][i] : TermsOf(vectors.rows, j.clusters[c][i])[n] = t}

(* The weight of term t in the document at place i of cluster c. *)
WeightAt(j, c, i, t) == Row(vectors.rows, j.clusters[c][i])[t]

(* A slot has the greatest weight that was read, and is marked and appended *)
(* if any was: a weight may be 0.                                           *)
SlotPooled(j, d, c, t) ==
  /\ t \in Range(j.out[c]) <=> ReadBy(j, c, t) # {}
  /\ d.seen[<<c, t>>] = 0 <=> ReadBy(j, c, t) = {}
  /\ d.acc[<<c, t>>] \in Nat
  /\ \A i \in ReadBy(j, c, t) : WeightAt(j, c, i, t) <= d.acc[<<c, t>>]
  /\ IF ReadBy(j, c, t) = {}
       THEN d.acc[<<c, t>>] = 0
       ELSE \E i \in ReadBy(j, c, t) : d.acc[<<c, t>>] = WeightAt(j, c, i, t)

Pooled(j, d) ==
  /\ DOMAIN j.read = DOMAIN j.clusters /\ DOMAIN j.out = DOMAIN j.clusters
  /\ \A c \in DOMAIN j.clusters :
       /\ j.read[c] \in [DOMAIN j.clusters[c] -> Nat]
       /\ \A i \in DOMAIN j.clusters[c] :
            j.read[c][i] <= Len(TermsOf(vectors.rows, j.clusters[c][i]))
       /\ j.out[c] \in Seq(Terms) /\ IsInjective(j.out[c])
       /\ \A t \in Terms : SlotPooled(j, d, c, t)

(* The terms of a document, in order. *)
LEMMA TermsAreThere ==
  ASSUME NEW c, IsCorpus(c), NEW d \in Documents(c)
  PROVE  LET ts == TermsOf(c, d)
         IN  /\ ts \in Seq(Terms) /\ Len(ts) \in Nat /\ DOMAIN ts = 1 .. Len(ts)
             /\ IsRow(Row(c, d))
             /\ \A n \in 1 .. Len(ts) : ts[n] \in DOMAIN Row(c, d)
             /\ \A t \in DOMAIN Row(c, d) : \E n \in 1 .. Len(ts) : ts[n] = t
  <1> DEFINE D == DOMAIN Row(c, d)
             ts == TermsOf(c, d)
  <1>1. IsRow(Row(c, d)) /\ D \subseteq Terms /\ D \subseteq 0 .. Dim /\ Dim \in Nat
    BY DimAssumption DEF IsCorpus, Documents, Row, IsRow, Terms
  <1>2. ts = Ascending(D)
    BY DEF TermsOf
  <1> HIDE DEF D
  <1>3. /\ Ascending(D) \in [1 .. Cardinality(D) -> D] /\ Cardinality(D) \in Nat
        /\ \A x \in D : \E i \in DOMAIN Ascending(D) : Ascending(D)[i] = x
    BY <1>1, AscendingAscends, AscendingHasAll
  <1> HIDE DEF ts
  <1>4. ts \in [1 .. Cardinality(D) -> Terms] /\ ts \in [1 .. Cardinality(D) -> D]
    BY <1>1, <1>2, <1>3
  <1>5. ts \in Seq(Terms) /\ Len(ts) = Cardinality(D)
    BY <1>3, <1>4, FunctionIsSequence
  <1> QED
    BY <1>1, <1>2, <1>3, <1>4, <1>5 DEF D, ts

(* The documents of a cluster of a list.                                    *)
LEMMA ClusterHasDocuments ==
  ASSUME HasCorpus(vectors), NEW j, HasList(j), IsDealt(j.clusters, j.docs, Len(j.heads)),
         NEW c \in DOMAIN j.clusters
  PROVE  /\ c \in 1 .. Param.beta
         /\ Len(j.clusters[c]) \in Nat /\ DOMAIN j.clusters[c] = 1 .. Len(j.clusters[c])
         /\ \A i \in DOMAIN j.clusters[c] : j.clusters[c][i] \in Documents(vectors.rows)
  <1> DEFINE K == Range(j.docs)
             u == j.clusters[c]
  <1>1. c \in 1 .. Len(j.heads) /\ u \in Seq(K)
    BY DEF IsDealt
  <1>2. K \subseteq Documents(vectors.rows)
    <2>1. j.docs \in Seq(Documents(vectors.rows))
      BY ListOfJob
    <2> QED
      BY <2>1, SequenceElement DEF Range
  <1>3. Len(j.heads) \in 1 .. Param.beta
    BY ListOfJob
  <1> HIDE DEF K, u
  <1>4. \A i \in DOMAIN u : u[i] \in Documents(vectors.rows)
    BY <1>1, <1>2, SequenceElement
  <1>5. Len(u) \in Nat /\ DOMAIN u = 1 .. Len(u)
    BY <1>1
  <1>6. c \in 1 .. Param.beta
    BY <1>1, <1>3, ParamAssumption
  <1> QED
    BY <1>4, <1>5, <1>6 DEF u

(* Nothing has been read at first.                                          *)
LEMMA PoolingStarts ==
  ASSUME HasCorpus(vectors), NEW j, HasList(j), IsDealt(j.clusters, j.docs, Len(j.heads)),
         j.read = [c \in DOMAIN j.clusters |-> [i \in DOMAIN j.clusters[c] |-> 0]],
         j.out = [c \in DOMAIN j.clusters |-> <<>>],
         NEW d, Zeroed(d)
  PROVE  Pooled(j, d)
  <1>1. ASSUME NEW c \in DOMAIN j.clusters
        PROVE  /\ j.read[c] \in [DOMAIN j.clusters[c] -> Nat]
               /\ \A i \in DOMAIN j.clusters[c] :
                    j.read[c][i] <= Len(TermsOf(vectors.rows, j.clusters[c][i]))
               /\ j.out[c] \in Seq(Terms) /\ IsInjective(j.out[c])
               /\ \A t \in Terms : SlotPooled(j, d, c, t)
    <2>1. /\ c \in 1 .. Param.beta
          /\ \A i \in DOMAIN j.clusters[c] : j.clusters[c][i] \in Documents(vectors.rows)
      BY ClusterHasDocuments
    <2>2. \A i \in DOMAIN j.clusters[c] : Len(TermsOf(vectors.rows, j.clusters[c][i])) \in Nat
      BY <2>1, TermsAreThere DEF HasCorpus
    <2>3. j.out[c] = <<>> /\ \A i \in DOMAIN j.clusters[c] : j.read[c][i] = 0
      OBVIOUS
    <2>4. ASSUME NEW t \in Terms
          PROVE  SlotPooled(j, d, c, t)
      <3>1. ReadBy(j, c, t) = {}
        BY <2>3 DEF ReadBy
      <3>2. Range(j.out[c]) = {}
        BY <2>3 DEF Range
      <3>3. d.acc[<<c, t>>] = 0 /\ d.seen[<<c, t>>] = 0
        BY <2>1 DEF Zeroed, Slots
      <3> QED
        BY <3>1, <3>2, <3>3 DEF SlotPooled
    <2> QED
      BY <2>2, <2>3, <2>4 DEF IsInjective
  <1> QED
    BY <1>1 DEF Pooled

(* When all is read, the slots of a cluster are its pool, and their sum is  *)
(* the pool's.                                                              *)
LEMMA ReadIsPool ==
  ASSUME HasCorpus(vectors), NEW j, HasList(j), IsDealt(j.clusters, j.docs, Len(j.heads)),
         NEW d, Pooled(j, d), NEW c \in DOMAIN j.clusters,
         \A i \in DOMAIN j.clusters[c] :
           j.read[c][i] = Len(TermsOf(vectors.rows, j.clusters[c][i]))
  PROVE  LET pool == [t \in Range(j.out[c]) |-> d.acc[<<c, t>>]]
         IN  /\ pool = Pool(vectors.rows, j.clusters[c])
             /\ SumOf([n \in DOMAIN j.out[c] |-> d.acc[<<c, j.out[c][n]>>]]) = SumOf(pool)
  <1> DEFINE rows == vectors.rows
             docs == j.clusters[c]
             out  == j.out[c]
             pool == [t \in Range(out) |-> d.acc[<<c, t>>]]
             H(t) == {e \in Range(docs) : t \in DOMAIN Row(rows, e)}
             W(t) == {Row(rows, e)[t] : e \in H(t)}
             R(t) == ReadBy(j, c, t)
  <1>1. /\ out \in Seq(Terms) /\ IsInjective(out)
        /\ \A t \in Terms : SlotPooled(j, d, c, t)
    BY DEF Pooled
  <1>2. \A i \in DOMAIN docs : docs[i] \in Documents(rows)
    BY ClusterHasDocuments
  <1>3. IsCorpus(rows)
    BY DEF HasCorpus
  <1>4. ASSUME NEW t \in Terms
        PROVE  R(t) = {i \in DOMAIN docs : t \in DOMAIN Row(rows, docs[i])}
    <2>1. ASSUME NEW i \in DOMAIN docs
          PROVE  (\E n \in 1 .. j.read[c][i] : TermsOf(rows, docs[i])[n] = t)
                   <=> t \in DOMAIN Row(rows, docs[i])
      <3>1. docs[i] \in Documents(rows) /\ j.read[c][i] = Len(TermsOf(rows, docs[i]))
        BY <1>2
      <3> HIDE DEF rows, docs
      <3> QED
        BY <1>3, <3>1, TermsAreThere
    <2> QED
      BY <2>1 DEF ReadBy
  <1>5. Range(out) = UNION {DOMAIN Row(rows, e) : e \in Range(docs)}
    <2>1. ASSUME NEW t \in Range(out)
          PROVE  \E e \in Range(docs) : t \in DOMAIN Row(rows, e)
      <3>1. t \in Terms
        BY <1>1, SequenceElement DEF Range
      <3>2. R(t) # {}
        BY <1>1, <3>1 DEF SlotPooled
      <3>3. PICK i \in DOMAIN docs : t \in DOMAIN Row(rows, docs[i])
        BY <1>4, <3>1, <3>2
      <3> QED
        BY <3>3 DEF Range
    <2>2. ASSUME NEW e \in Range(docs), NEW t \in DOMAIN Row(rows, e)
          PROVE  t \in Range(out)
      <3>1. PICK i \in DOMAIN docs : docs[i] = e
        BY DEF Range
      <3>2. t \in Terms
        BY <1>2, <1>3, <3>1, TermsAreThere DEF IsRow
      <3>3. i \in R(t)
        BY <1>4, <3>1, <3>2
      <3> QED
        BY <1>1, <3>2, <3>3 DEF SlotPooled
    <2> HIDE DEF out, docs, rows
    <2> QED
      BY <2>1, <2>2
  <1>6. ASSUME NEW t \in Range(out)
        PROVE  d.acc[<<c, t>>] \in Nat /\ d.acc[<<c, t>>] = Max(W(t))
    <2> DEFINE a == d.acc[<<c, t>>]
    <2>1. t \in Terms
      BY <1>1, SequenceElement DEF Range
    <2>2. R(t) # {} /\ a \in Nat /\ SlotPooled(j, d, c, t)
      BY <1>1, <2>1 DEF SlotPooled
    <2>3. R(t) = {i \in DOMAIN docs : t \in DOMAIN Row(rows, docs[i])}
      BY <1>4, <2>1
    <2>4. a \in W(t)
      <3>1. PICK i \in R(t) : a = WeightAt(j, c, i, t)
        BY <2>2 DEF SlotPooled
      <3>2. docs[i] \in H(t) /\ a = Row(rows, docs[i])[t]
        BY <2>3, <3>1 DEF WeightAt, Range
      <3> QED
        BY <3>2
    <2>5. ASSUME NEW x \in W(t)
          PROVE  x <= a /\ x \in Nat
      <3>1. PICK e \in H(t) : x = Row(rows, e)[t]
        OBVIOUS
      <3>2. PICK i \in DOMAIN docs : docs[i] = e
        BY <3>1 DEF Range
      <3>3. i \in R(t) /\ x = WeightAt(j, c, i, t)
        BY <2>3, <3>1, <3>2 DEF WeightAt
      <3>4. IsRow(Row(rows, e)) /\ t \in DOMAIN Row(rows, e)
        BY <1>2, <1>3, <3>1, <3>2, TermsAreThere
      <3> QED
        BY <2>2, <3>1, <3>3, <3>4 DEF SlotPooled, IsRow
    <2> HIDE DEF a, W
    <2>6. Max(W(t)) = a
      <3>1. \A y \in W(t) : a >= y
        BY <2>2, <2>5
      <3>2. \A x \in W(t) : (\A y \in W(t) : x >= y) => x = a
        BY <2>2, <2>4, <2>5
      <3> QED
        BY <2>4, <3>1, <3>2 DEF Max
    <2> QED
      BY <2>2, <2>6 DEF a
  <1>7. pool = Pool(rows, docs)
    <2>1. \A t \in Range(out) : d.acc[<<c, t>>] = Max({Row(rows, e)[t] : e \in {e \in Range(docs) : t \in DOMAIN Row(rows, e)}})
      BY <1>6
    <2> HIDE DEF out, docs, rows, W
    <2> QED
      BY <1>5, <2>1 DEF Pool
  <1>8. SumOf([n \in DOMAIN out |-> d.acc[<<c, out[n]>>]]) = SumOf(pool)
    <2> DEFINE S == DOMAIN out
               T == Range(out)
               f == [n \in S |-> d.acc[<<c, out[n]>>]]
    <2>1. IsFiniteSet(S)
      <3>1. Len(out) \in Nat /\ S \subseteq 0 .. Len(out)
        BY <1>1
      <3> HIDE DEF S
      <3> QED
        BY <3>1, AscendingAscends
    <2>2. \A n \in S : out[n] \in T
      BY DEF Range
    <2>3. f \in [S -> Nat] /\ pool \in [T -> Nat] /\ \A n \in S : f[n] = pool[out[n]]
      BY <1>6, <2>2
    <2>4. out \in Bijection(S, T)
      <3>1. out = [n \in S |-> out[n]]
        BY <1>1
      <3>2. out \in [S -> T]
        BY <2>2, <3>1
      <3> QED
        BY <1>1, <3>2 DEF Bijection, Injection, Surjection, IsInjective, Range
    <2> HIDE DEF S, T, f, pool, out
    <2>5. Renames(f, S, out, pool, T)
      BY <2>3, <2>4 DEF Renames
    <2>6. SumOf(f) = SumOf(pool)
      BY <2>1, <2>5, SumMapped
    <2> QED
      BY <2>6 DEF f, S
  <1> QED
    BY <1>7, <1>8

(* One more posting is read: that of term u, of weight w.                   *)
ReadsPosting(j, d, c, i, u, w, jj, dd) ==
  /\ j.read[c][i] < Len(TermsOf(vectors.rows, j.clusters[c][i]))
  /\ u = TermsOf(vectors.rows, j.clusters[c][i])[j.read[c][i] + 1]
  /\ w = Row(vectors.rows, j.clusters[c][i])[u]
  /\ jj.clusters = j.clusters
  /\ jj.read = [j.read EXCEPT ![c] = [j.read[c] EXCEPT ![i] = j.read[c][i] + 1]]
  /\ jj.out = [j.out EXCEPT ![c] = IF d.seen[<<c, u>>] = 0 THEN Append(j.out[c], u)
                                                           ELSE j.out[c]]
  /\ dd.acc = [d.acc EXCEPT ![<<c, u>>] = Max({d.acc[<<c, u>>], w})]
  /\ dd.seen = [d.seen EXCEPT ![<<c, u>>] = 1]

(* It keeps the pool what has been read.                                    *)
LEMMA PostingPools ==
  ASSUME HasCorpus(vectors), NEW j, HasList(j), IsDealt(j.clusters, j.docs, Len(j.heads)),
         NEW d, BufferSound(d), Pooled(j, d),
         NEW c \in DOMAIN j.clusters, NEW i \in DOMAIN j.clusters[c],
         NEW u, NEW w, NEW jj, NEW dd, ReadsPosting(j, d, c, i, u, w, jj, dd)
  PROVE  Pooled(jj, dd)
  <1> DEFINE ts == TermsOf(vectors.rows, j.clusters[c][i])
             r  == j.read[c][i]
  <1>0. /\ r < Len(ts) /\ u = ts[r + 1] /\ w = Row(vectors.rows, j.clusters[c][i])[u]
        /\ jj.clusters = j.clusters
    BY DEF ReadsPosting
  <1>1. /\ c \in 1 .. Param.beta /\ j.clusters[c][i] \in Documents(vectors.rows)
        /\ IsCorpus(vectors.rows)
    BY ClusterHasDocuments DEF HasCorpus
  <1>2. /\ Len(ts) \in Nat /\ r \in Nat /\ r + 1 \in 1 .. Len(ts) /\ u = ts[r + 1]
        /\ u \in Terms /\ w \in Nat
    <2>1. r \in Nat
      <3>1. j.read[c] \in [DOMAIN j.clusters[c] -> Nat]
        BY DEF Pooled
      <3> QED
        BY <3>1
    <2>2. /\ ts \in Seq(Terms) /\ Len(ts) \in Nat
          /\ \A n \in 1 .. Len(ts) : ts[n] \in DOMAIN Row(vectors.rows, j.clusters[c][i])
          /\ IsRow(Row(vectors.rows, j.clusters[c][i]))
      BY <1>1, TermsAreThere
    <2> HIDE DEF ts, r
    <2>3. r + 1 \in 1 .. Len(ts)
      BY <1>0, <2>1, <2>2
    <2> QED
      BY <1>0, <2>1, <2>2, <2>3 DEF IsRow
  <1>3. <<c, u>> \in Slots
    BY <1>1, <1>2 DEF Slots
  <1>4. /\ j.read[c] \in [DOMAIN j.clusters[c] -> Nat]
        /\ DOMAIN j.read = DOMAIN j.clusters /\ DOMAIN j.out = DOMAIN j.clusters
    BY DEF Pooled
  <1>5. /\ jj.read[c][i] = r + 1
        /\ \A l \in DOMAIN j.clusters[c] \ {i} : jj.read[c][l] = j.read[c][l]
        /\ \A b \in DOMAIN j.clusters \ {c} : jj.read[b] = j.read[b] /\ jj.out[b] = j.out[b]
        /\ jj.read[c] \in [DOMAIN j.clusters[c] -> Nat]
        /\ jj.out[c] = IF d.seen[<<c, u>>] = 0 THEN Append(j.out[c], u) ELSE j.out[c]
        /\ DOMAIN jj.read = DOMAIN j.clusters /\ DOMAIN jj.out = DOMAIN j.clusters
    <2> DEFINE f == [j.read[c] EXCEPT ![i] = r + 1]
               o == IF d.seen[<<c, u>>] = 0 THEN Append(j.out[c], u) ELSE j.out[c]
    <2>1. f \in [DOMAIN j.clusters[c] -> Nat] /\ f[i] = r + 1
          /\ \A l \in DOMAIN j.clusters[c] \ {i} : f[l] = j.read[c][l]
      BY <1>2, <1>4
    <2>2. jj.read = [j.read EXCEPT ![c] = f] /\ jj.out = [j.out EXCEPT ![c] = o]
      BY DEF ReadsPosting
    <2> HIDE DEF f, o
    <2>3. jj.read[c] = f /\ jj.out[c] = o
      BY <1>4, <2>2
    <2>4. /\ \A b \in DOMAIN j.clusters \ {c} : jj.read[b] = j.read[b] /\ jj.out[b] = j.out[b]
          /\ DOMAIN jj.read = DOMAIN j.clusters /\ DOMAIN jj.out = DOMAIN j.clusters
      BY <1>4, <2>2
    <2> QED
      BY <2>1, <2>3, <2>4 DEF o
  <1>6. /\ dd.acc[<<c, u>>] = Max({d.acc[<<c, u>>], w}) /\ dd.seen[<<c, u>>] = 1
        /\ \A s \in Slots \ {<<c, u>>} : dd.acc[s] = d.acc[s] /\ dd.seen[s] = d.seen[s]
    BY <1>3 DEF BufferSound, ReadsPosting
  <1> HIDE DEF ts, r
  <1>7. ASSUME NEW t
        PROVE  ReadBy(jj, c, t) = IF t = u THEN ReadBy(j, c, t) \union {i} ELSE ReadBy(j, c, t)
    <2> DEFINE Got(k, l) == \E n \in 1 .. k.read[c][l] : TermsOf(vectors.rows, j.clusters[c][l])[n] = t
    <2>1. \A l \in DOMAIN j.clusters[c] \ {i} : Got(jj, l) <=> Got(j, l)
      BY <1>5
    <2>2. Got(jj, i) <=> (Got(j, i) \/ t = u)
      <3>1. Got(jj, i) <=> \E n \in 1 .. r + 1 : ts[n] = t
        BY <1>0, <1>5 DEF ts
      <3>2. Got(j, i) <=> \E n \in 1 .. r : ts[n] = t
        BY DEF ts, r
      <3>3. (\E n \in 1 .. r + 1 : ts[n] = t) <=> (\E n \in 1 .. r : ts[n] = t) \/ ts[r + 1] = t
        BY <1>2
      <3> QED
        BY <1>2, <3>1, <3>2, <3>3
    <2>3. /\ ReadBy(jj, c, t) = {l \in DOMAIN j.clusters[c] : Got(jj, l)}
          /\ ReadBy(j, c, t) = {l \in DOMAIN j.clusters[c] : Got(j, l)}
      BY <1>0 DEF ReadBy
    <2> HIDE DEF Got
    <2>4. CASE t = u
      <3>1. Got(jj, i) /\ \A l \in DOMAIN j.clusters[c] : Got(jj, l) <=> Got(j, l) \/ l = i
        BY <2>1, <2>2, <2>4
      <3> QED
        BY <2>3, <2>4, <3>1
    <2>5. CASE t # u
      <3>1. \A l \in DOMAIN j.clusters[c] : Got(jj, l) <=> Got(j, l)
        BY <2>1, <2>2, <2>5
      <3> QED
        BY <2>3, <2>5, <3>1
    <2> QED
      BY <2>4, <2>5
  <1>8. ASSUME NEW b \in DOMAIN j.clusters \ {c}, NEW t
        PROVE  ReadBy(jj, b, t) = ReadBy(j, b, t)
    BY <1>0, <1>5 DEF ReadBy
  <1>9. \A b, l, t : WeightAt(jj, b, l, t) = WeightAt(j, b, l, t)
    BY <1>0 DEF WeightAt
  <1>10. SlotPooled(j, d, c, u)
    BY <1>2 DEF Pooled
  <1>11. j.out[c] \in Seq(Terms) /\ IsInjective(j.out[c])
    BY DEF Pooled
  <1>12. /\ jj.out[c] \in Seq(Terms) /\ IsInjective(jj.out[c])
         /\ Range(jj.out[c]) = Range(j.out[c]) \union {u}
    <2> DEFINE s == j.out[c]
               a == Append(s, u)
    <2>1. CASE d.seen[<<c, u>>] = 0
      <3>1. jj.out[c] = a
        BY <1>5, <2>1
      <3>2. u \notin Range(s)
        BY <1>10, <2>1 DEF SlotPooled
      <3>3. /\ a \in Seq(Terms) /\ Len(s) \in Nat /\ DOMAIN s = 1 .. Len(s)
            /\ DOMAIN a = 1 .. Len(s) + 1 /\ a[Len(s) + 1] = u /\ \A n \in 1 .. Len(s) : a[n] = s[n]
        BY <1>2, <1>11 DEF a, s
      <3> HIDE DEF a, s
      <3>4. \A n \in DOMAIN a : n \in 1 .. Len(s) \/ n = Len(s) + 1
        BY <3>3
      <3>5. Range(a) = Range(s) \union {u}
        <4>1. DOMAIN s \subseteq DOMAIN a /\ Len(s) + 1 \in DOMAIN a
          BY <3>3
        <4> QED
          BY <3>3, <3>4, <4>1 DEF Range
      <3>6. \A n \in 1 .. Len(s) : s[n] \in Range(s)
        BY <3>3 DEF Range
      <3>7. IsInjective(s)
        BY <1>11 DEF s
      <3>8. ASSUME NEW m \in DOMAIN a, NEW n \in DOMAIN a, a[m] = a[n]
            PROVE  m = n
        <4>1. CASE m \in 1 .. Len(s) /\ n \in 1 .. Len(s)
          BY <3>3, <3>7, <3>8, <4>1 DEF IsInjective
        <4>2. CASE m = Len(s) + 1 /\ n = Len(s) + 1
          BY <4>2
        <4>3. CASE m \in 1 .. Len(s) /\ n = Len(s) + 1
          BY <3>2, <3>3, <3>6, <3>8, <4>3
        <4>4. CASE m = Len(s) + 1 /\ n \in 1 .. Len(s)
          BY <3>2, <3>3, <3>6, <3>8, <4>4
        <4> QED
          BY <3>4, <4>1, <4>2, <4>3, <4>4
      <3> QED
        BY <3>1, <3>3, <3>5, <3>8 DEF IsInjective, s
    <2>2. CASE d.seen[<<c, u>>] # 0
      <3>1. jj.out[c] = s
        BY <1>5, <2>2
      <3>2. u \in Range(s)
        BY <1>10, <2>2 DEF SlotPooled
      <3> QED
        BY <1>11, <3>1, <3>2
    <2> QED
      BY <2>1, <2>2
  <1>13. ASSUME NEW b \in DOMAIN j.clusters, NEW t \in Terms, b # c \/ t # u
         PROVE  SlotPooled(jj, dd, b, t)
    <2>1. SlotPooled(j, d, b, t)
      BY DEF Pooled
    <2>2. <<b, t>> \in Slots \ {<<c, u>>}
      <3>1. b \in 1 .. Param.beta
        BY ClusterHasDocuments
      <3> QED
        BY <1>13, <3>1 DEF Slots
    <2>3. dd.acc[<<b, t>>] = d.acc[<<b, t>>] /\ dd.seen[<<b, t>>] = d.seen[<<b, t>>]
      BY <1>6, <2>2
    <2>4. ReadBy(jj, b, t) = ReadBy(j, b, t)
      BY <1>7, <1>8, <1>13
    <2>5. t \in Range(jj.out[b]) <=> t \in Range(j.out[b])
      BY <1>5, <1>12, <1>13
    <2> QED
      BY <1>9, <2>1, <2>3, <2>4, <2>5 DEF SlotPooled
  <1>14. SlotPooled(jj, dd, c, u)
    <2> DEFINE R == ReadBy(j, c, u)
               a == d.acc[<<c, u>>]
               m == dd.acc[<<c, u>>]
    <2>1. ReadBy(jj, c, u) = R \union {i} /\ WeightAt(j, c, i, u) = w
      BY <1>0, <1>7 DEF WeightAt
    <2>2. a \in Nat /\ \A l \in R : WeightAt(j, c, l, u) <= a
      BY <1>10 DEF SlotPooled
    <2>3. IF R = {} THEN a = 0 ELSE \E l \in R : a = WeightAt(j, c, l, u)
      BY <1>10 DEF SlotPooled
    <2> HIDE DEF R, a
    <2>4. m = IF a >= w THEN a ELSE w
      BY <1>2, <1>6, <2>2, GreatestOfTwo DEF a
    <2> HIDE DEF m
    <2>5. m \in Nat /\ a <= m /\ w <= m
      BY <1>2, <2>2, <2>4
    <2>6. \A l \in R : WeightAt(j, c, l, u) \in Nat
      <3>1. ASSUME NEW l \in R
            PROVE  WeightAt(j, c, l, u) \in Nat
        <4>1. PICK n \in 1 .. j.read[c][l] : TermsOf(vectors.rows, j.clusters[c][l])[n] = u
          BY DEF R, ReadBy
        <4>2. /\ l \in DOMAIN j.clusters[c] /\ j.clusters[c][l] \in Documents(vectors.rows)
              /\ j.read[c][l] \in Nat
              /\ j.read[c][l] <= Len(TermsOf(vectors.rows, j.clusters[c][l]))
          BY ClusterHasDocuments DEF R, ReadBy, Pooled
        <4> DEFINE us == TermsOf(vectors.rows, j.clusters[c][l])
        <4>3. /\ Len(us) \in Nat /\ IsRow(Row(vectors.rows, j.clusters[c][l]))
              /\ \A k \in 1 .. Len(us) : us[k] \in DOMAIN Row(vectors.rows, j.clusters[c][l])
          BY <1>1, <4>2, TermsAreThere
        <4> HIDE DEF us
        <4>4. n \in 1 .. Len(us) /\ us[n] = u
          BY <4>1, <4>2, <4>3 DEF us
        <4> QED
          BY <4>3, <4>4 DEF WeightAt, IsRow
      <3> QED
        BY <3>1
    <2>7. \A l \in R \union {i} : WeightAt(j, c, l, u) <= m
      BY <2>1, <2>2, <2>5, <2>6
    <2>8. \E l \in R \union {i} : m = WeightAt(j, c, l, u)
      <3>1. CASE m = w
        BY <2>1, <3>1
      <3>2. CASE m # w
        <4>1. m = a /\ a >= w /\ a # w
          BY <2>4, <3>2
        <4>2. R # {}
          BY <1>2, <2>2, <2>3, <4>1
        <4> QED
          BY <2>3, <4>1, <4>2
      <3> QED
        BY <3>1, <3>2
    <2>9. u \in Range(jj.out[c])
      BY <1>12
    <2>10. ReadBy(jj, c, u) # {} /\ dd.seen[<<c, u>>] # 0
      BY <1>6, <2>1
    <2> QED
      BY <1>9, <2>1, <2>5, <2>7, <2>8, <2>9, <2>10 DEF SlotPooled, m
  <1>15. ASSUME NEW b \in DOMAIN j.clusters
         PROVE  /\ jj.read[b] \in [DOMAIN j.clusters[b] -> Nat]
                /\ \A l \in DOMAIN j.clusters[b] :
                     jj.read[b][l] <= Len(TermsOf(vectors.rows, j.clusters[b][l]))
                /\ jj.out[b] \in Seq(Terms) /\ IsInjective(jj.out[b])
    <2>1. CASE b # c
      BY <1>5, <2>1 DEF Pooled
    <2>2. CASE b = c
      <3>1. jj.read[c] \in [DOMAIN j.clusters[c] -> Nat]
        BY <1>5
      <3>2. ASSUME NEW l \in DOMAIN j.clusters[c]
            PROVE  jj.read[c][l] <= Len(TermsOf(vectors.rows, j.clusters[c][l]))
        <4>1. CASE l = i
          <5>1. r + 1 <= Len(ts)
            BY <1>2
          <5> QED
            BY <1>5, <4>1, <5>1 DEF ts
        <4>2. CASE l # i
          BY <1>5, <4>2 DEF Pooled
        <4> QED
          BY <4>1, <4>2
      <3> QED
        BY <1>12, <2>2, <3>1, <3>2
    <2> QED
      BY <2>1, <2>2
  <1>16. DOMAIN jj.read = DOMAIN j.clusters /\ DOMAIN jj.out = DOMAIN j.clusters
    BY <1>5
  <1>17. \A b \in DOMAIN j.clusters : \A t \in Terms : SlotPooled(jj, dd, b, t)
    BY <1>13, <1>14
  <1> QED
    BY <1>0, <1>15, <1>16, <1>17 DEF Pooled

-----------------------------------------------------------------------------
(* The device and the CPU agree.                                            *)

(* A thread has lost no buffer; a list that was assigned is as the CPU      *)
(* would have assigned it; and a running max-pool is the pool of what it    *)
(* has read.                                                                *)
ExactJob(j, d) ==
  /\ d.dangling = {}
  /\ j.pc \in Pools => j.clusters = Assigned(vectors.rows, j.docs, j.heads)
  /\ j.pc = "pool_run" => Pooled(j, d)

ExactInv ==
  /\ \A th \in Threads : ExactJob(job[th], device[th])
  /\ MatchesTheCpu

(* As far as no allocation takes a buffer with it, growing loses none.      *)
LEMMA GrowingLosesNone ==
  ASSUME "regrow" \notin Mishaps,
         NEW d, BufferSound(d), d.dangling = {}, NEW need, NEW order, IsInjective(order),
         Sized(need, Range(order)),
         NEW n \in Nat, DOMAIN order = 1 .. n,
         NEW o \in Growths(d, need, order)
  PROVE  o.device.dangling = {}
  <1>1. ASSUME NEW S
        PROVE  LET e == EnsureCapacity(d, need, S)
               IN  /\ e.dangling = {}
                   /\ \A b \in Buffers \ S : e.cap[b] = d.cap[b]
    BY DEF EnsureCapacity, BufferSound, DeviceFields
  <1>2. CASE o = [ok |-> TRUE, device |-> EnsureCapacity(d, need, Range(order))]
    BY <1>1, <1>2
  <1>3. CASE o = [ok |-> FALSE, device |-> d]
    BY <1>3
  <1>4. ASSUME NEW i \in DOMAIN order,
               May(IF d.cap[order[i]] = 0 /\ order[i] # "seen" THEN "alloc" ELSE "regrow"),
               Short(d, need, order[i]),
               o = [ok |-> FALSE,
                    device |-> CapacityFailed(
                                 EnsureCapacity(d, need, {order[m] : m \in 1 .. i - 1}), order[i])]
        PROVE  o.device.dangling = {}
    <2> DEFINE S == {order[m] : m \in 1 .. i - 1}
               e == EnsureCapacity(d, need, S)
    <2>1. d.cap[order[i]] = 0
      BY <1>4 DEF May
    <2>2. order[i] \notin S
      BY DEF IsInjective
    <2>3. e.dangling = {}
      BY <1>1
    <2>4. e.cap[order[i]] = 0
      <3>1. order[i] \in Buffers
        BY DEF Sized, Range
      <3> QED
        BY <1>1, <2>1, <2>2, <3>1
    <2> HIDE DEF e
    <2>5. CapacityFailed(e, order[i]) = e
      BY <2>4 DEF CapacityFailed
    <2> QED
      BY <1>4, <2>3, <2>5 DEF e
  <1> QED
    BY <1>2, <1>3, <1>4 DEF Growths

(* No buffer is grown twice.                                                *)
LEMMA OrdersAreInjective ==
  /\ \A es : IsInjective(AssignBuffers(es)) /\ \E n \in Nat : DOMAIN AssignBuffers(es) = 1 .. n
  /\ IsInjective(ScratchBuffers) /\ DOMAIN ScratchBuffers = 1 .. 2
  /\ IsInjective(ListBuffers) /\ DOMAIN ListBuffers = 1 .. 7
  <1>1. ASSUME NEW es
        PROVE  IsInjective(AssignBuffers(es)) /\ \E n \in Nat : DOMAIN AssignBuffers(es) = 1 .. n
    <2>1. CASE es = U32
      <3>1. DOMAIN AssignBuffers(es) = 1 .. 9
        BY <2>1 DEF AssignBuffers
      <3>2. IsInjective(AssignBuffers(es))
        BY <2>1 DEF AssignBuffers, IsInjective
      <3> QED
        BY <3>1, <3>2
    <2>2. CASE es # U32
      <3>1. DOMAIN AssignBuffers(es) = 1 .. 7
        BY <2>2 DEF AssignBuffers
      <3>2. IsInjective(AssignBuffers(es))
        BY <2>2 DEF AssignBuffers, IsInjective
      <3> QED
        BY <3>1, <3>2
    <2> QED
      BY <2>1, <2>2
  <1>2. IsInjective(ScratchBuffers) /\ DOMAIN ScratchBuffers = 1 .. 2
    BY DEF ScratchBuffers, IsInjective
  <1>3. IsInjective(ListBuffers) /\ DOMAIN ListBuffers = 1 .. 7
    BY DEF ListBuffers, IsInjective
  <1> QED
    BY <1>1, <1>2, <1>3

(* The summarizer loses no buffer either.                                   *)
LEMMA SumGrowingLosesNone ==
  ASSUME "regrow" \notin Mishaps,
         NEW d, BufferSound(d), d.dangling = {}, NEW need,
         Sized(need, Range(ScratchBuffers)), Sized(need, Range(ListBuffers)),
         NEW o \in SumGrowths(d, need)
  PROVE  o.device.dangling = {}
  <1>1. PICK p \in ScratchGrowths(d, need) :
          o \in IF p.ok THEN Growths(p.device, need, ListBuffers) ELSE {p}
    BY DEF SumGrowths
  <1>2. PICK q \in Growths(d, need, ScratchBuffers) : p \in Cleared(d, need, q)
    BY <1>1 DEF ScratchGrowths
  <1>3. SoundOutcome(q) /\ q.device.dangling = {}
    <2>1. DOMAIN ScratchBuffers = 1 .. 2 /\ 2 \in Nat /\ IsInjective(ScratchBuffers)
      BY OrdersAreInjective
    <2> QED
      BY <1>2, <2>1, GrowingIsSound, GrowingLosesNone
  <1>4. ~May("regrow")
    BY DEF May
  <1>5. ASSUME NEW a, NEW s
        PROVE  Holding(q, a, s).device.dangling = {}
    BY <1>3 DEF SoundOutcome, BufferSound, DeviceFields, Holding
  <1>6. ASSUME NEW u \in Unset(d, q)
        PROVE  u.device.dangling = {}
    <2>1. \E a, s : u = Holding(q, a, s)
      BY DEF Unset
    <2> QED
      BY <1>5, <2>1
  <1>7. p.device.dangling = {}
    <2>1. CASE q.ok /\ Short(d, need, "acc")
      BY <1>2, <1>4, <1>5, <2>1 DEF Cleared
    <2>2. CASE ~(q.ok /\ Short(d, need, "acc"))
      BY <1>2, <1>6, <2>2 DEF Cleared
    <2> QED
      BY <2>1, <2>2
  <1>8. CASE p.ok
    <2>1. BufferSound(p.device)
      BY ScratchGrowingIsSound DEF SoundOutcome
    <2>2. o \in Growths(p.device, need, ListBuffers)
      BY <1>1, <1>8
    <2>3. DOMAIN ListBuffers = 1 .. 7 /\ 7 \in Nat /\ IsInjective(ListBuffers)
      BY OrdersAreInjective
    <2> QED
      BY <1>7, <2>1, <2>2, <2>3, GrowingLosesNone
  <1>9. CASE ~p.ok
    BY <1>1, <1>7, <1>9
  <1> QED
    BY <1>8, <1>9

(* A step of one thread: its own job and buffers, and a list it has built.  *)
LEMMA OneThreadIsExact ==
  ASSUME DealInv, ExactInv, NEW th \in Threads, NEW j,
         vectors' = vectors,
         job' = [job EXCEPT ![th] = j], OthersKeep(th),
         ExactJob(j, device'[th]),
         \/ lists' = lists
         \/ \E t \in Terms : \E s :
              lists' = [lists EXCEPT ![t] = s] /\ s \in Clusterings(vectors.rows, t, Param)
  PROVE  ExactInv'
  <1>1. ASSUME NEW u \in Threads
        PROVE  ExactJob(job'[u], device'[u])
    BY DEF DealInv, ExactInv, OthersKeep
  <1>2. ASSUME NEW u \in Threads
        PROVE  ExactJob(job[u], device[u])'
    <2> DEFINE x == job'[u]
               d == device'[u]
    <2>1. ExactJob(x, d)
      BY <1>1
    <2> HIDE DEF x, d
    <2>2. d.dangling = {} /\ (x.pc \in Pools => x.clusters = Assigned(vectors.rows, x.docs, x.heads))
      BY <2>1 DEF ExactJob
    <2>3. ASSUME x.pc = "pool_run"
          PROVE  Pooled(x, d)
      BY <2>1, <2>3 DEF ExactJob
    <2> USE DEF x, d
    <2>4. d.dangling = {} /\ (x.pc \in Pools => x.clusters = Assigned(vectors'.rows, x.docs, x.heads))
      BY <2>2
    <2>5. x.pc = "pool_run" => Pooled(job[u], device[u])'
      <3>1. /\ \A c, t : ReadBy(job[u], c, t)' = ReadBy(x, c, t)
            /\ \A c, i, t : WeightAt(job[u], c, i, t)' = WeightAt(x, c, i, t)
        BY DEF ReadBy, WeightAt
      <3>2. \A c, t : SlotPooled(job[u], device[u], c, t)' <=> SlotPooled(x, d, c, t)
        BY <3>1 DEF SlotPooled
      <3> QED
        BY <2>3, <3>2 DEF Pooled
    <2> QED
      BY <2>4, <2>5 DEF ExactJob
  <1>3. ASSUME NEW t \in Terms, lists'[t] # <<>>
        PROVE  lists'[t] \in Clusterings(vectors'.rows, t, Param)
    BY <1>3 DEF DealInv, ExactInv, MatchesTheCpu, Built
  <1>4. MatchesTheCpu'
    BY <1>3 DEF MatchesTheCpu, Built
  <1> QED
    BY <1>2, <1>4 DEF ExactInv

(* Assigning on the CPU is what the CPU does.                               *)
LEMMA OnCpuIsExact ==
  ASSUME HasCorpus(vectors), NEW j, HasList(j), NEW d, d.dangling = {},
         NEW clusters, clusters = Assigned(vectors.rows, j.docs, j.heads)
  PROVE  ExactJob(Pooling(j, clusters), d)
  <1> DEFINE p == Pooling(j, clusters)
  <1>1. IsDealt(clusters, j.docs, Len(j.heads))
    BY AssignedIsDealt
  <1>2. /\ p.pc \in {"pool_resident", "pool_cpu"}
        /\ p.clusters = clusters /\ p.docs = j.docs /\ p.heads = j.heads
    BY <1>1, PoolingIsSound
  <1> HIDE DEF p
  <1>3. ExactJob(p, d)
    BY <1>2 DEF ExactJob
  <1> QED
    BY <1>3 DEF p

(* A list that moves on stays as it was assigned.                           *)
LEMMA MovingIsExact ==
  ASSUME NEW j, HasList(j), NEW d, ExactJob(j, d), NEW e, e.dangling = {},
         NEW to, to # "pool_run", to \in Pools => j.pc \in Pools
  PROVE  ExactJob([j EXCEPT !.pc = to], e)
  <1> DEFINE p == [j EXCEPT !.pc = to]
  <1>1. p.pc = to /\ p.clusters = j.clusters /\ p.docs = j.docs /\ p.heads = j.heads
    BY DEF HasList, JobFields
  <1> HIDE DEF p
  <1>2. ExactJob(p, e)
    BY <1>1 DEF ExactJob
  <1> QED
    BY <1>2 DEF p

(* What a thread holds, and where its buffers are.                          *)
LEMMA ThreadIsExact ==
  ASSUME DealInv, ExactInv, NEW th \in Threads, job[th].pc # "idle"
  PROVE  /\ HasCorpus(vectors) /\ HasList(job[th]) /\ BufferSound(device[th])
         /\ ExactJob(job[th], device[th]) /\ device[th].dangling = {}
  BY ThreadHasList DEF ExactInv, ExactJob

(* A list is taken, and may be assigned on the CPU at once.                 *)
LEMMA TakingIsExact ==
  ASSUME DealInv, ExactInv, NEW th \in Threads, NEW t \in Terms, TakeList(th, t)
  PROVE  ExactInv'
  <1>1. UNCHANGED <<vectors, device, lists>>
    BY DEF TakeList
  <1>2. PICK kept \in Kept(vectors.rows, t, Param.lambda) :
          \E heads \in Arrangements(Range(kept), NClusters(Param.beta, Len(kept))) :
            \/ job' = [job EXCEPT ![th] = NewJob(t, kept, heads)]
            \/ job' = [job EXCEPT ![th] = AssignOnCpu(NewJob(t, kept, heads))]
    BY DEF TakeList
  <1>3. PICK heads \in Arrangements(Range(kept), NClusters(Param.beta, Len(kept))) :
          \/ job' = [job EXCEPT ![th] = NewJob(t, kept, heads)]
          \/ job' = [job EXCEPT ![th] = AssignOnCpu(NewJob(t, kept, heads))]
    BY <1>2
  <1> DEFINE j == NewJob(t, kept, heads)
             d == device[th]
  <1>4. HasList(j) /\ j.pc = "assign_resident"
    BY DEF NewJob, HasList, JobFields
  <1>5. HasCorpus(vectors) /\ d.dangling = {} /\ device'[th] = d
    BY <1>1 DEF DealInv, ExactInv, ExactJob
  <1> HIDE DEF j, d
  <1>6. ExactJob(j, d)
    BY <1>4, <1>5 DEF ExactJob, Pools
  <1>7. ExactJob(AssignOnCpu(j), d)
    BY <1>4, <1>5, OnCpuIsExact DEF AssignOnCpu
  <1>8. PICK i : job' = [job EXCEPT ![th] = i] /\ ExactJob(i, d)
    BY <1>3, <1>6, <1>7 DEF j
  <1> QED
    BY <1>1, <1>5, <1>8, DeviceStays, OneThreadIsExact

(* The corpus is made resident, or the list goes to the CPU.                *)
LEMMA ResidingIsExact ==
  ASSUME DealInv, ExactInv, NEW th \in Threads, AssignResident(th) \/ PoolResident(th)
  PROVE  ExactInv'
  <1> DEFINE d == device[th]
             At(to) == [job[th] EXCEPT !.pc = to]
  <1>1. /\ UNCHANGED <<vectors, device, lists>>
        /\ job[th].pc \in {"assign_resident", "pool_resident"}
    BY DEF AssignResident, PoolResident
  <1>2. /\ HasCorpus(vectors) /\ HasList(job[th]) /\ ExactJob(job[th], d) /\ d.dangling = {}
    BY <1>1, ThreadIsExact
  <1>3. ExactJob(AssignOnCpu(job[th]), d)
    BY <1>2, OnCpuIsExact DEF AssignOnCpu
  <1>4. ExactJob(At("assign_grow"), d)
    BY <1>2, MovingIsExact DEF Pools
  <1>5. PoolResident(th) => ExactJob(At("pool_grow"), d) /\ ExactJob(At("pool_cpu"), d)
    <2>1. PoolResident(th) => job[th].pc \in Pools
      BY DEF PoolResident, Pools
    <2> QED
      BY <1>2, <2>1, MovingIsExact
  <1>6. \E j : job' = [job EXCEPT ![th] = j] /\ ExactJob(j, d)
    <2>1. CASE AssignResident(th)
      <3>1. \/ job' = [job EXCEPT ![th] = At("assign_grow")]
            \/ job' = [job EXCEPT ![th] = AssignOnCpu(job[th])]
        BY <2>1 DEF AssignResident
      <3> HIDE DEF At, d
      <3> QED
        BY <1>3, <1>4, <3>1
    <2>2. CASE PoolResident(th)
      <3>1. \/ job' = [job EXCEPT ![th] = At("pool_grow")]
            \/ job' = [job EXCEPT ![th] = At("pool_cpu")]
        BY <2>2 DEF PoolResident
      <3> HIDE DEF At, d
      <3> QED
        BY <1>5, <2>2, <3>1
    <2> QED
      BY <2>1, <2>2
  <1>7. PICK j : job' = [job EXCEPT ![th] = j] /\ ExactJob(j, d)
    BY <1>6
  <1> QED
    BY <1>1, <1>7, DeviceStays, OneThreadIsExact

(* The buffers of the assigner grow, or the list goes to the CPU.           *)
LEMMA AssignGrowIsExact ==
  ASSUME "regrow" \notin Mishaps, DealInv, ExactInv, NEW th \in Threads, AssignGrow(th)
  PROVE  ExactInv'
  <1> DEFINE j == job[th]
             d == device[th]
             es == resident.element_size
             order == AssignBuffers(es)
             need == AssignNeed(vectors.rows, es, j.docs, Len(j.heads))
             grown == [j EXCEPT !.pc = "assign_run"]
  <1>1. /\ UNCHANGED <<vectors, lists>> /\ j.pc = "assign_grow"
    BY DEF AssignGrow
  <1>2. /\ HasCorpus(vectors) /\ HasList(j) /\ ExactJob(j, d) /\ BufferSound(d)
        /\ d.dangling = {} /\ Matches(resident, vectors)
    BY <1>1, ThreadIsExact, ThreadHasList DEF OnDevice
  <1>3. PICK o \in Growths(d, need, order) :
          /\ device' = [device EXCEPT ![th] = o.device]
          /\ job' = [job EXCEPT ![th] = IF o.ok THEN grown ELSE AssignOnCpu(j)]
    BY DEF AssignGrow
  <1>4. BufferSound(o.device) /\ o.device.dangling = {}
    <2>1. es \in Widths
      BY <1>2, MatchesHasDocuments DEF HasCorpus
    <2>2. Sized(need, Range(order))
      BY <1>2, <2>1, AssignIsSized
    <2>3. IsInjective(order) /\ \E n \in Nat : DOMAIN order = 1 .. n
      BY OrdersAreInjective
    <2> HIDE DEF need, order
    <2> QED
      BY <1>2, <1>3, <2>2, <2>3, GrowingIsSound, GrowingLosesNone DEF SoundOutcome
  <1> DEFINE e == o.device
  <1>5. ExactJob(grown, e) /\ ExactJob(AssignOnCpu(j), e)
    BY <1>2, <1>4, MovingIsExact, OnCpuIsExact DEF Pools, AssignOnCpu
  <1>6. device'[th] = e
    BY <1>3 DEF DealInv
  <1>7. OthersKeep(th)
    BY <1>3, <1>4, DeviceIsReplaced
  <1> HIDE DEF grown, need, order, e
  <1>8. PICK i : job' = [job EXCEPT ![th] = i] /\ ExactJob(i, e)
    BY <1>3, <1>5
  <1> QED
    BY <1>1, <1>6, <1>7, <1>8, OneThreadIsExact

(* The device names the clusters the CPU would have.                        *)
LEMMA AssignRunIsExact ==
  ASSUME DealInv, CorpusInv, ExactInv, NEW th \in Threads, AssignRun(th)
  PROVE  ExactInv'
  <1> DEFINE j == job[th]
             d == device[th]
  <1>1. /\ UNCHANGED <<vectors, device, lists>> /\ j.pc = "assign_run"
    BY DEF AssignRun
  <1>2. /\ HasCorpus(vectors) /\ HasList(j) /\ d.dangling = {} /\ device'[th] = d
    BY <1>1, ThreadIsExact
  <1>3. resident.rows = vectors.rows
    BY <1>1 DEF CorpusInv, KernelsReadTheCorpus, OnDevice, Upload
  <1> HIDE DEF j, d
  <1>4. ASSUME NEW best \in BestClusters(j, d)
        PROVE  Appended(j, best) = Assigned(vectors.rows, j.docs, j.heads)
    <2> DEFINE k == Len(j.heads)
               D == Documents(vectors.rows)
               b == scatter_dense(vectors.rows, j.heads)
    <2>1. best = [i \in DOMAIN j.docs |-> row_argmax(spmm(vectors.rows, j.docs[i], b, k))]
      BY <1>2, <1>3 DEF BestClusters
    <2>2. PICK near \in [DOMAIN j.docs -> 1 .. k] :
            /\ \A i \in DOMAIN j.docs : near[i] = Closest(vectors.rows, j.docs[i], j.heads)
            /\ Assigned(vectors.rows, j.docs, j.heads) = Appended(j, near)
      BY <1>2, AssignedIsAppended
    <2>3. j.docs \in Seq(D) /\ k \in Nat \ {0} /\ j.heads \in [1 .. k -> D]
      BY <1>2, ListOfJob
    <2>4. \A i \in DOMAIN j.docs : j.docs[i] \in D
      BY <2>3, SequenceElement
    <2> HIDE DEF k, D
    <2>5. \A i \in DOMAIN j.docs :
            row_argmax(spmm(vectors.rows, j.docs[i], b, k)) = Closest(vectors.rows, j.docs[i], j.heads)
      BY <1>2, <2>3, <2>4, DeviceIsClosest DEF HasCorpus, D
    <2> HIDE DEF b
    <2>6. near = best
      BY <2>1, <2>2, <2>5
    <2> QED
      BY <2>2, <2>6
  <1>5. \/ job' = [job EXCEPT ![th] = AssignOnCpu(j)]
        \/ \E best \in BestClusters(j, d) : job' = [job EXCEPT ![th] = Pooling(j, Appended(j, best))]
    BY DEF AssignRun, j, d
  <1>6. \/ job' = [job EXCEPT ![th] = AssignOnCpu(j)]
        \/ job' = [job EXCEPT ![th] = Pooling(j, Assigned(vectors.rows, j.docs, j.heads))]
    BY <1>4, <1>5
  <1>7. PICK i : job' = [job EXCEPT ![th] = i] /\ ExactJob(i, d)
    BY <1>2, <1>6, OnCpuIsExact DEF AssignOnCpu
  <1> QED
    BY <1>1, <1>2, <1>7, DeviceStays, OneThreadIsExact

(* A max-pool starts with clean scratch, or the list goes to the CPU.       *)
LEMMA PoolGrowIsExact ==
  ASSUME "regrow" \notin Mishaps, ScratchInv, DealInv, ExactInv, NEW th \in Threads, PoolGrow(th)
  PROVE  ExactInv'
  <1> DEFINE j    == job[th]
             d    == device[th]
             need == SumNeed(vectors.rows, j.docs, Len(j.clusters))
             run  == [j EXCEPT !.pc = "pool_run",
                               !.read = [c \in DOMAIN j.clusters |-> [i \in DOMAIN j.clusters[c] |-> 0]],
                               !.out = [c \in DOMAIN j.clusters |-> <<>>]]
             declined == [j EXCEPT !.pc = "pool_cpu"]
  <1>1. UNCHANGED <<vectors, lists>> /\ j.pc = "pool_grow"
    BY DEF PoolGrow
  <1>2. /\ HasCorpus(vectors) /\ HasList(j) /\ ExactJob(j, d) /\ BufferSound(d) /\ d.dangling = {}
        /\ IsDealt(j.clusters, j.docs, Len(j.heads)) /\ j.pc \in Pools
    BY <1>1, ThreadIsExact, ThreadHasList DEF Pools
  <1>3. Intact(d) /\ Zeroed(d) /\ need["acc"] = need["seen"]
    BY <1>1 DEF ScratchInv, ThreadInv, SumNeed
  <1>4. Sized(need, Range(ScratchBuffers)) /\ Sized(need, Range(ListBuffers))
    <2>1. Len(j.clusters) \in Nat
      <3>1. Len(j.heads) \in Nat /\ DOMAIN j.clusters = 1 .. Len(j.heads)
        BY <1>2, ListOfJob DEF IsDealt
      <3> QED
        BY <3>1
    <2> QED
      BY <1>2, <2>1, SumIsSized
  <1>5. ASSUME NEW e, e.dangling = {}, Zeroed(e)
        PROVE  ExactJob(run, e)
    <2>1. /\ DOMAIN run = JobFields /\ run.pc = "pool_run" /\ run.clusters = j.clusters
          /\ run.docs = j.docs /\ run.heads = j.heads /\ run.term = j.term
          /\ run.read = [c \in DOMAIN j.clusters |-> [i \in DOMAIN j.clusters[c] |-> 0]]
          /\ run.out = [c \in DOMAIN j.clusters |-> <<>>]
      BY <1>2 DEF HasList, JobFields
    <2> HIDE DEF run
    <2>2. HasList(run)
      BY <1>2, <2>1 DEF HasList
    <2>3. Pooled(run, e)
      BY <1>2, <1>5, <2>1, <2>2, PoolingStarts
    <2> QED
      BY <1>2, <1>5, <2>1, <2>3 DEF ExactJob
  <1>6. ASSUME NEW e, e.dangling = {}
        PROVE  ExactJob(declined, e)
    BY <1>2, <1>6, MovingIsExact
  <1>7. \/ device' = device /\ job' = [job EXCEPT ![th] = declined]
        \/ \E o \in SumGrowths(d, need) :
             /\ device' = [device EXCEPT ![th] = o.device]
             /\ job' = [job EXCEPT ![th] = IF o.ok /\ ~Torn(o.device) THEN run ELSE declined]
    BY DEF PoolGrow
  <1> HIDE DEF run, declined, need, j
  <1>8. CASE device' = device /\ job' = [job EXCEPT ![th] = declined]
    BY <1>1, <1>2, <1>6, <1>8, DeviceStays, OneThreadIsExact
  <1>9. ASSUME NEW o \in SumGrowths(d, need),
               device' = [device EXCEPT ![th] = o.device],
               job' = [job EXCEPT ![th] = IF o.ok /\ ~Torn(o.device) THEN run ELSE declined]
        PROVE  ExactInv'
    <2> DEFINE e == o.device
    <2>1. BufferSound(e) /\ e.dangling = {} /\ Zeroed(e)
      BY <1>2, <1>3, <1>4, SumGrowingIsSound, SumGrowingLosesNone, SumGrowsClean
         DEF SoundOutcome, CleanOutcome
    <2>2. device'[th] = e
      BY <1>9 DEF DealInv
    <2>3. OthersKeep(th)
      BY <1>9, <2>1, DeviceIsReplaced
    <2>4. ExactJob(run, e) /\ ExactJob(declined, e)
      BY <1>5, <1>6, <2>1
    <2> HIDE DEF e
    <2>5. PICK i : job' = [job EXCEPT ![th] = i] /\ ExactJob(i, e)
      BY <1>9, <2>4
    <2> QED
      BY <1>1, <2>2, <2>3, <2>5, OneThreadIsExact
  <1> QED
    BY <1>7, <1>8, <1>9

(* A posting is read, of the corpus being built from.                       *)
LEMMA PostingIsExact ==
  ASSUME DealInv, CorpusInv, ExactInv, NEW th \in Threads, NEW c, NEW i, PoolPosting(th, c, i)
  PROVE  ExactInv'
  <1> DEFINE j == job[th]
             d == device[th]
             t == TermsOf(vectors.rows, j.clusters[c][i])[j.read[c][i] + 1]
             w == Row(vectors.rows, j.clusters[c][i])[t]
             jj == [j EXCEPT !.read[c][i] = @ + 1,
                             !.out[c] = IF d.seen[<<c, t>>] = 0 THEN Append(@, t) ELSE @]
             dd == [d EXCEPT !.acc[<<c, t>>] = Max({@, w}), !.seen[<<c, t>>] = 1]
  <1>1. /\ UNCHANGED <<vectors, lists>> /\ j.pc = "pool_run"
        /\ c \in DOMAIN j.clusters /\ i \in DOMAIN j.clusters[c]
    BY DEF PoolPosting
  <1>2. resident.rows = vectors.rows
    BY <1>1 DEF CorpusInv, KernelsReadTheCorpus, OnDevice, Upload
  <1>3. /\ j.read[c][i] < Len(TermsOf(vectors.rows, j.clusters[c][i]))
        /\ device' = [device EXCEPT ![th] = dd]
        /\ job' = [job EXCEPT ![th] = jj]
    BY <1>2 DEF PoolPosting, NewTerm
  <1>4. /\ HasCorpus(vectors) /\ HasList(j) /\ ExactJob(j, d) /\ BufferSound(d) /\ d.dangling = {}
        /\ IsDealt(j.clusters, j.docs, Len(j.heads)) /\ Pooled(j, d)
    BY <1>1, ThreadIsExact, ThreadHasList DEF Pools, ExactJob
  <1>5. /\ jj.pc = "pool_run" /\ jj.clusters = j.clusters /\ jj.docs = j.docs /\ jj.heads = j.heads
        /\ jj.read = [j.read EXCEPT ![c] = [j.read[c] EXCEPT ![i] = j.read[c][i] + 1]]
        /\ jj.out = [j.out EXCEPT ![c] = IF d.seen[<<c, t>>] = 0 THEN Append(j.out[c], t)
                                                                 ELSE j.out[c]]
    BY <1>1, <1>4 DEF HasList, JobFields
  <1>6. /\ DOMAIN dd = DeviceFields /\ dd.cap = d.cap /\ dd.dangling = {}
        /\ dd.acc = [d.acc EXCEPT ![<<c, t>>] = Max({d.acc[<<c, t>>], w})]
        /\ dd.seen = [d.seen EXCEPT ![<<c, t>>] = 1]
    BY <1>4 DEF BufferSound, DeviceFields
  <1>7. ReadsPosting(j, d, c, i, t, w, jj, dd)
    <2> HIDE DEF jj, dd
    <2> QED
      BY <1>3, <1>5, <1>6 DEF ReadsPosting
  <1>8. BufferSound(dd)
    <2>1. DOMAIN dd.acc = Slots /\ DOMAIN dd.seen = Slots
      BY <1>4 DEF BufferSound, DeviceFields
    <2> HIDE DEF dd
    <2> QED
      BY <1>4, <1>6, <2>1 DEF BufferSound
  <1> HIDE DEF t, w, jj, dd
  <1>9. Pooled(jj, dd)
    <2> HIDE DEF j, d
    <2> QED
      BY <1>1, <1>4, <1>7, PostingPools
  <1>10. ExactJob(jj, dd)
    BY <1>1, <1>4, <1>5, <1>6, <1>9 DEF ExactJob, Pools
  <1>11. OthersKeep(th) /\ device'[th] = dd
    BY <1>3, <1>8, DeviceIsReplaced DEF DealInv
  <1> QED
    BY <1>1, <1>3, <1>10, <1>11, OneThreadIsExact

(* A list that is done with the summaries of the CPU.                       *)
LEMMA DoneMatches ==
  ASSUME DealInv, ExactInv, NEW th \in Threads, job[th].pc \in Pools,
         Done(th, [c \in DOMAIN job[th].clusters |->
                     Summaries(vectors.rows, job[th].clusters[c], Param.alpha)])
  PROVE  /\ job' = [job EXCEPT ![th] = Idle]
         /\ \E t \in Terms : \E s :
              lists' = [lists EXCEPT ![t] = s] /\ s \in Clusterings(vectors.rows, t, Param)
  <1> DEFINE j == job[th]
             choices == [c \in DOMAIN j.clusters |-> Summaries(vectors.rows, j.clusters[c], Param.alpha)]
  <1>1. HasCorpus(vectors) /\ HasList(j) /\ j.clusters = Assigned(vectors.rows, j.docs, j.heads)
    <2>1. job[th].pc # "idle"
      BY DEF Pools
    <2> QED
      BY <2>1, ThreadIsExact DEF ExactJob
  <1>2. PICK s \in Summarized(j.clusters, choices) : lists' = [lists EXCEPT ![j.term] = s]
    BY DEF Done
  <1>3. j.clusters \in Train(vectors.rows, j.docs, Param.beta)
    BY <1>1, ListOfJob DEF Train, HasList
  <1>4. s \in Clusterings(vectors.rows, j.term, Param)
    <2>1. j.docs \in Kept(vectors.rows, j.term, Param.lambda)
      BY <1>1 DEF HasList
    <2> QED
      BY <1>2, <1>3, <2>1 DEF Clusterings
  <1>5. j.term \in Terms
    BY <1>1 DEF HasList
  <1> QED
    BY <1>2, <1>4, <1>5 DEF Done

(* A thread without a list.                                                 *)
LEMMA IdleIsExact ==
  ASSUME NEW d, d.dangling = {}
  PROVE  ExactJob(Idle, d)
  BY DEF ExactJob, Idle, Pools

(* The pools that are copied back are those of the CPU.                     *)
LEMMA CollectIsExact ==
  ASSUME DealInv, CorpusInv, ExactInv, NEW th \in Threads, PoolCollect(th)
  PROVE  ExactInv'
  <1> DEFINE j == job[th]
             d == device[th]
             pool(c) == [t \in Range(j.out[c]) |-> d.acc[<<c, t>>]]
             sum(c)  == SumOf([n \in DOMAIN j.out[c] |-> d.acc[<<c, j.out[c][n]>>]])
             emitted == [c \in DOMAIN j.clusters |-> Emitted(pool(c), sum(c), Param.alpha)]
             cpu == [c \in DOMAIN j.clusters |-> Summaries(vectors.rows, j.clusters[c], Param.alpha)]
             declined == [j EXCEPT !.pc = "pool_cpu"]
  <1>1. UNCHANGED vectors /\ j.pc = "pool_run" /\ AllRead(j)
    BY DEF PoolCollect
  <1>2. resident.rows = vectors.rows
    BY <1>1 DEF CorpusInv, KernelsReadTheCorpus, OnDevice, Upload
  <1>3. /\ HasCorpus(vectors) /\ HasList(j) /\ ExactJob(j, d) /\ BufferSound(d) /\ d.dangling = {}
        /\ IsDealt(j.clusters, j.docs, Len(j.heads)) /\ Pooled(j, d) /\ j.pc \in Pools
    BY <1>1, ThreadIsExact, ThreadHasList DEF Pools, ExactJob
  <1>4. emitted = cpu
    <2>1. ASSUME NEW c \in DOMAIN j.clusters
          PROVE  Emitted(pool(c), sum(c), Param.alpha) = Summaries(vectors.rows, j.clusters[c], Param.alpha)
      <3>1. \A i \in DOMAIN j.clusters[c] : j.read[c][i] = Len(TermsOf(vectors.rows, j.clusters[c][i]))
        BY <1>1, <1>2 DEF AllRead
      <3>2. pool(c) = Pool(vectors.rows, j.clusters[c]) /\ sum(c) = SumOf(pool(c))
        <4> HIDE DEF j, d
        <4> QED
          BY <1>3, <3>1, ReadIsPool
      <3> HIDE DEF pool, sum
      <3> QED
        BY <3>2 DEF Summaries
    <2> HIDE DEF pool, sum
    <2> QED
      BY <2>1
  <1>5. PICK touched : device' = [device EXCEPT ![th] = Reset(d, touched)]
    BY DEF PoolCollect
  <1> DEFINE dd == Reset(d, touched)
  <1>6. BufferSound(dd) /\ dd.dangling = {}
    BY <1>3 DEF Reset, BufferSound, DeviceFields
  <1> HIDE DEF dd
  <1>7. OthersKeep(th) /\ device'[th] = dd
    BY <1>5, <1>6, DeviceIsReplaced DEF DealInv, dd
  <1>8. Done(th, emitted) \/ (job' = [job EXCEPT ![th] = declined] /\ UNCHANGED lists)
    BY DEF PoolCollect
  <1> HIDE DEF emitted, declined
  <1>9. CASE Done(th, emitted)
    <2>1. Done(th, cpu)
      BY <1>4, <1>9
    <2>2. /\ job' = [job EXCEPT ![th] = Idle]
          /\ \E t \in Terms : \E s :
               lists' = [lists EXCEPT ![t] = s] /\ s \in Clusterings(vectors.rows, t, Param)
      BY <1>3, <2>1, DoneMatches
    <2> QED
      BY <1>1, <1>6, <1>7, <2>2, IdleIsExact, OneThreadIsExact
  <1>10. CASE job' = [job EXCEPT ![th] = declined] /\ UNCHANGED lists
    <2>1. ExactJob(declined, dd)
      BY <1>3, <1>6, MovingIsExact DEF declined
    <2> QED
      BY <1>1, <1>7, <1>10, <2>1, OneThreadIsExact
  <1> QED
    BY <1>8, <1>9, <1>10

(* The list is summarized on the CPU, now or next.                          *)
LEMMA LeavingIsExact ==
  ASSUME DealInv, ExactInv, NEW th \in Threads, PoolFails(th) \/ PoolCpu(th)
  PROVE  ExactInv'
  <1> DEFINE d == device[th]
             declined == [job[th] EXCEPT !.pc = "pool_cpu"]
  <1>1. UNCHANGED <<vectors, device>> /\ job[th].pc \in Pools
    BY DEF PoolFails, PoolCpu, Pools
  <1>2. HasList(job[th]) /\ ExactJob(job[th], d) /\ d.dangling = {} /\ device'[th] = d
    <2>1. job[th].pc # "idle"
      BY <1>1 DEF Pools
    <2> QED
      BY <1>1, <2>1, ThreadIsExact
  <1> HIDE DEF d
  <1>3. CASE PoolCpu(th)
    <2>1. Done(th, [c \in DOMAIN job[th].clusters |->
                      Summaries(vectors.rows, job[th].clusters[c], Param.alpha)])
      BY <1>3 DEF PoolCpu
    <2> QED
      BY <1>1, <1>2, <2>1, DoneMatches, DeviceStays, IdleIsExact, OneThreadIsExact
  <1>4. CASE PoolFails(th)
    <2>1. job' = [job EXCEPT ![th] = declined] /\ UNCHANGED lists
      BY <1>4 DEF PoolFails
    <2>2. ExactJob(declined, d)
      BY <1>1, <1>2, MovingIsExact
    <2> HIDE DEF declined
    <2> QED
      BY <1>1, <1>2, <2>1, <2>2, DeviceStays, OneThreadIsExact
  <1> QED
    BY <1>3, <1>4

(* Another build starts with no list, and the buffers of the last one.      *)
LEMMA NextBuildIsExact ==
  ASSUME DealInv, ExactInv, NextBuild
  PROVE  ExactInv'
  <1>1. /\ UNCHANGED <<device, job>> /\ \A th \in Threads : job[th] = Idle
        /\ lists' = [t \in Terms |-> <<>>]
    BY DEF NextBuild
  <1>2. ASSUME NEW u \in Threads
        PROVE  ExactJob(job[u], device[u])'
    <2>1. job'[u] = Idle /\ device'[u].dangling = {}
      BY <1>1 DEF ExactInv, ExactJob
    <2> QED
      BY <2>1 DEF ExactJob, Idle, Pools
  <1> QED
    BY <1>1, <1>2 DEF ExactInv, MatchesTheCpu, Built

(* At first there is no list, and no buffer.                                *)
LEMMA ExactStarts == Init => ExactInv
  BY IdleIsExact DEF Init, Untouched, ExactInv, MatchesTheCpu, Built

(* What all the threads of a build keep, as far as none loses a buffer and  *)
(* no address is used again for a corpus of the shape of the resident one.  *)
BuildInv == ScratchInv /\ CorpusInv /\ DealInv /\ ExactInv

(* One step of anything keeps all of it.                                    *)
LEMMA BuildingGoesOn ==
  ASSUME "regrow" \notin Mishaps, "reuse" \notin Mishaps, BuildInv, [Next]_vars
  PROVE  BuildInv'
  <1> USE DEF BuildInv
  <1>1. ScratchInv' /\ DealInv'
    BY ScratchStep, DealingGoesOn
  <1>2. CorpusInv'
    BY CorpusStep
  <1>3. ASSUME NEW th \in Threads, Work(th)
        PROVE  ExactInv'
    BY <1>3, TakingIsExact, ResidingIsExact, AssignGrowIsExact, AssignRunIsExact,
       PoolGrowIsExact, PostingIsExact, CollectIsExact, LeavingIsExact DEF Work
  <1>4. CASE UNCHANGED vars
    <2>1. ASSUME NEW u \in Threads
          PROVE  ExactJob(job[u], device[u])'
      <3>1. ExactJob(job[u], device[u]) /\ job' = job /\ device' = device /\ vectors' = vectors
        BY <1>4 DEF vars, ExactInv
      <3>2. /\ \A c, t : ReadBy(job[u], c, t)' = ReadBy(job[u], c, t)
            /\ \A c, i, t : WeightAt(job[u], c, i, t)' = WeightAt(job[u], c, i, t)
        BY <3>1 DEF ReadBy, WeightAt
      <3>3. \A c, t : SlotPooled(job[u], device[u], c, t)' <=> SlotPooled(job[u], device[u], c, t)
        BY <3>1, <3>2 DEF SlotPooled
      <3>4. Pooled(job[u], device[u])' <=> Pooled(job[u], device[u])
        BY <3>1, <3>3 DEF Pooled
      <3> QED
        BY <3>1, <3>4 DEF ExactJob
    <2>2. MatchesTheCpu'
      BY <1>4 DEF vars, ExactInv, MatchesTheCpu, Built
    <2> QED
      BY <1>1, <1>2, <2>1, <2>2 DEF ExactInv
  <1> QED
    BY <1>1, <1>2, <1>3, <1>4, NextBuildIsExact DEF Next

(* Every list that is built, on the device, on the CPU or partly on each,   *)
(* by any number of threads over any number of builds and with any of the   *)
(* other failures, is a clustering the CPU alone may produce of the corpus  *)
(* being built from (gpu_cluster_assigner.cu:33-133, :333-411,              *)
(* gpu_summarizer.cu:44-108, :176-311, kmeans_utils.cpp:162-199).           *)
THEOREM DeviceMatchesTheCpu ==
  ASSUME "regrow" \notin Mishaps, "reuse" \notin Mishaps
  PROVE  Spec => []MatchesTheCpu
  <1>1. Init => BuildInv
    BY ScratchInit, CorpusStarts, DealingStarts, ExactStarts DEF BuildInv
  <1>2. BuildInv /\ [Next]_vars => BuildInv'
    BY BuildingGoesOn
  <1>3. BuildInv => MatchesTheCpu
    BY DEF BuildInv, ExactInv
  <1> QED
    BY <1>1, <1>2, <1>3, PTL DEF Spec
=============================================================================
