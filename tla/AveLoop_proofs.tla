--------------------------- MODULE AveLoop_proofs ---------------------------
(***************************************************************************)
(* Theorems about AveLoop, for any range, increment, chunk and file.       *)
(***************************************************************************)
EXTENDS AveLoop, Induction, FiniteSetTheorems, TLAPS

-----------------------------------------------------------------------------
(* Multiples of the increment.                                             *)

LEMMA Multiples ==
  ASSUME NEW k \in Int, NEW m \in Int, NEW n \in Nat, n # 0, k <= m
  PROVE  k * n \in Int /\ m * n \in Int /\ k * n <= m * n
  OBVIOUS

LEMMA OneMore ==
  ASSUME NEW k \in Int, NEW n \in Int
  PROVE  /\ (k + 1) * n = k * n + n
         /\ (k - 1) * n = k * n - n
  OBVIOUS

LEMMA SumTimes ==
  ASSUME NEW k \in Int, NEW m \in Int, NEW n \in Int
  PROVE  (k + m) * n = k * n + m * n
  OBVIOUS

LEMMA Quotient ==
  ASSUME NEW a \in Int, NEW n \in Nat, n # 0
  PROVE  /\ a \div n \in Int
         /\ (a \div n) * n <= a
         /\ a < (a \div n) * n + n
  OBVIOUS

(* The quotient is the greatest multiple within.                           *)
LEMMA WithinQuotient ==
  ASSUME NEW a \in Int, NEW n \in Nat, n # 0, NEW k \in Int, k * n <= a
  PROVE  k <= a \div n
  <1> DEFINE q == a \div n
  <1>1. q \in Int /\ a < q * n + n
    BY Quotient
  <1>2. ASSUME q + 1 <= k PROVE FALSE
    <2>1. (q + 1) * n <= k * n
      BY <1>1, <1>2, Multiples
    <2>2. (q + 1) * n = q * n + n
      BY <1>1, OneMore
    <2>3. q * n \in Int /\ k * n \in Int
      BY <1>1, Multiples
    <2>4. QED
      BY <1>1, <2>1, <2>2, <2>3
  <1> HIDE DEF q
  <1>3. k <= q
    BY <1>1, <1>2
  <1>4. QED
    BY <1>3 DEF q

-----------------------------------------------------------------------------
(* The invariant.                                                          *)

(* The range of the call.                                                  *)
RangeInv == /\ ask.incr \in Nat /\ ask.incr # 0
            /\ D1 \in Int /\ D2 \in Int /\ D1 <= D2

(* Where the loop is, and how much it has taken.                           *)
LoopInv ==
  /\ pc \in {"first", "second", "loop", "queue", "end", "done", "failed"}
  /\ d \in Int /\ D1 <= d /\ d <= D2 + ask.incr
  /\ pc \in {"first", "second"} => d <= D2

(* The chunk: reads are queued while their buffers are there.              *)
ChunkInv ==
  /\ nstep \in 0 .. Chunk /\ next \in 0 .. nstep
  /\ queued \subseteq 1 .. Steps /\ filled \subseteq 1 .. Steps
  /\ pc = "queue" => d + (nstep - 1) * ask.incr <= D2
  /\ buffers <=> pc = "queue"
  /\ queued # {} => pc = "queue"

(* The times taken are the first of the range.                             *)
TimesInv ==
  /\ times \in Seq(Int) /\ prog = Len(times)
  /\ d = D1 + prog * ask.incr
  /\ pc = "first" => prog = 0
  /\ pc = "second" => prog = 1
  /\ \A i \in 1 .. Len(times) : times[i] = InRange(i)

AveInv == RangeInv /\ LoopInv /\ ChunkInv

LEMMA StatusWritten ==
  ASSUME NEW t, Status(t) > 0 \/ Status(t) = 1
  PROVE  t \in 1 .. Steps
  BY DEF Status

LEMMA RangeInit ==
  ASSUME AveAssumption, Init
  PROVE  RangeInv
  <1>1. /\ ask.gr1 \in Nat /\ ask.gr2 \in Nat /\ ask.incr \in Nat /\ ask.incr # 0
        /\ D1 <= D2
    BY DEF Init, AveAssumption
  <1>2. D1 \in Int /\ D2 \in Int
    BY <1>1, Quotient DEF D1, D2
  <1>3. QED
    BY <1>1, <1>2 DEF RangeInv

LEMMA RangeStays ==
  ASSUME RangeInv, ask' = ask
  PROVE  RangeInv' /\ D1' = D1 /\ D2' = D2
  BY DEF RangeInv, D1, D2

(* The call is not changed by its run.                                     *)
LEMMA AskStays ==
  ASSUME [Next]_vars
  PROVE  ask' = ask
  BY DEF Next, Run, vars, GridFails, Fail, FirstGrid, SecondGrid, OneGrid, LoopEnds,
         Normalize, NotCovered, BeginChunk, ReadSpan, QueueRead, QueueFails, Perform,
         FoldIn, ChunkFails, Interrupt

LEMMA InitAve ==
  ASSUME AveAssumption, Init
  PROVE  AveInv
  <1>1. RangeInv
    BY RangeInit
  <1>2. LoopInv
    BY <1>1 DEF RangeInv, Init, LoopInv
  <1>3. /\ nstep = 0 /\ next = 0 /\ queued = {} /\ filled = {} /\ ~buffers /\ pc = "first"
    BY DEF Init
  <1>4. Chunk \in Nat
    BY DEF AveAssumption
  <1>5. ChunkInv
    BY <1>3, <1>4 DEF ChunkInv
  <1>6. QED
    BY <1>1, <1>2, <1>5 DEF AveInv

LEMMA NstepWithin ==
  ASSUME AveAssumption, RangeInv, d \in Int, d <= D2, d \in 1 .. Steps
  PROVE  Nstep \in 1 .. Chunk /\ d + (Nstep - 1) * ask.incr <= D2
  <1> DEFINE q == (D2 - d) \div ask.incr
             r == (Steps - d) \div ask.incr
             n == ask.incr
  <1>1. n \in Nat /\ n # 0 /\ D2 - d \in Nat /\ Steps - d \in Nat /\ D2 \in Int
    BY DEF RangeInv, AveAssumption
  <1>2. q \in Int /\ q * n <= D2 - d /\ r \in Int
    BY <1>1, Quotient
  <1>3. 0 <= q /\ 0 <= r
    BY <1>1, WithinQuotient
  <1>4. Nstep = Lesser(Chunk, Lesser(q, r) + 1)
    BY DEF Nstep
  <1>5. Chunk \in Nat /\ Chunk >= 1
    BY DEF AveAssumption
  <1> HIDE DEF q, r, n
  <1>6. Nstep \in 1 .. Chunk /\ Nstep - 1 <= q
    BY <1>2, <1>3, <1>4, <1>5 DEF Lesser
  <1>7. (Nstep - 1) * n <= q * n /\ (Nstep - 1) * n \in Int /\ q * n \in Int
    BY <1>1, <1>2, <1>6, Multiples
  <1>8. d + (Nstep - 1) * n <= D2
    BY <1>1, <1>2, <1>7
  <1>9. QED
    BY <1>6, <1>8 DEF n

(* A step leaves the position alone, adds one time or those of a chunk.    *)
LEMMA LoopStays ==
  ASSUME AveAssumption, AveInv, [Next]_vars
  PROVE  LoopInv'
  <1>1. RangeInv' /\ D1' = D1 /\ D2' = D2 /\ ask' = ask
    BY AskStays, RangeStays DEF AveInv
  <1>2. /\ ask.incr \in Nat /\ ask.incr # 0 /\ D1 \in Int /\ D2 \in Int /\ D1 <= D2
    BY DEF AveInv, RangeInv
  <1>3. CASE GridFails
    BY <1>1, <1>3 DEF GridFails, Fail, AveInv, LoopInv
  <1>4. CASE FirstGrid
    BY <1>1, <1>2, <1>4 DEF FirstGrid, AveInv, LoopInv
  <1>5. CASE SecondGrid
    BY <1>1, <1>2, <1>5 DEF SecondGrid, AveInv, LoopInv
  <1>6. CASE OneGrid
    BY <1>1, <1>2, <1>6 DEF OneGrid, AveInv, LoopInv
  <1>7. CASE FoldIn
    <2>1. nstep \in Nat /\ d + (nstep - 1) * ask.incr <= D2 /\ d \in Int /\ D1 <= d
      BY <1>7 DEF FoldIn, Settled, Queued, AveInv, ChunkInv, LoopInv
    <2>2. (nstep - 1) * ask.incr = nstep * ask.incr - ask.incr
          /\ nstep * ask.incr \in Int /\ 0 <= nstep * ask.incr
      BY <1>2, <2>1, OneMore
    <2>3. /\ d + nstep * ask.incr \in Int /\ D1 <= d + nstep * ask.incr
          /\ d + nstep * ask.incr <= D2 + ask.incr
      BY <1>2, <2>1, <2>2
    <2>4. QED
      BY <1>1, <1>7, <2>3 DEF FoldIn, LoopInv
  <1>8. CASE LoopEnds \/ Normalize \/ NotCovered \/ BeginChunk \/ ReadSpan \/ QueueRead
             \/ QueueFails \/ Perform \/ ChunkFails \/ Interrupt \/ UNCHANGED vars
    BY <1>1, <1>8
       DEF LoopEnds, Normalize, NotCovered, BeginChunk, ReadSpan, QueueRead, QueueFails,
           Perform, ChunkFails, Fail, Interrupt, vars, AveInv, LoopInv
  <1>9. QED
    BY <1>3, <1>4, <1>5, <1>6, <1>7, <1>8 DEF Next, Run

LEMMA ChunkStays ==
  ASSUME AveAssumption, AveInv, [Next]_vars
  PROVE  ChunkInv'
  <1>1. RangeInv' /\ D1' = D1 /\ D2' = D2 /\ ask' = ask
    BY AskStays, RangeStays DEF AveInv
  <1>2. RangeInv /\ ChunkInv /\ d \in Int /\ Chunk \in Nat
    BY DEF AveInv, LoopInv, AveAssumption
  <1>3. CASE pc # "queue" /\ UNCHANGED chunkvars /\ pc' # "queue"
    BY <1>2, <1>3 DEF ChunkInv, chunkvars
  <1>4. CASE BeginChunk
    <2>1. Nstep \in 1 .. Chunk /\ d + (Nstep - 1) * ask.incr <= D2
      BY <1>2, <1>4, NstepWithin DEF BeginChunk, AtOnce
    <2>2. /\ nstep' = Nstep /\ next' = 0 /\ queued' = {} /\ filled' = {} /\ d' = d
          /\ buffers' /\ pc' = "queue"
      BY <1>4 DEF BeginChunk
    <2>3. QED
      BY <1>1, <1>2, <2>1, <2>2 DEF ChunkInv
  <1>5. CASE ReadSpan
    <2>1. Contiguous /\ filled' \subseteq ChunkTimes /\ next' = nstep
          /\ UNCHANGED <<pc, d, nstep, queued, buffers>>
      BY <1>5 DEF ReadSpan
    <2>2. \A t \in ChunkTimes : t \in 1 .. Steps
      BY <2>1, StatusWritten DEF Contiguous
    <2>3. filled' \subseteq 1 .. Steps
      BY <2>1, <2>2
    <2>4. QED
      BY <1>1, <1>2, <2>1, <2>3 DEF ChunkInv
  <1>6. CASE QueueRead
    <2>1. queued' \subseteq 1 .. Steps
      BY <1>2, <1>6, StatusWritten DEF QueueRead, ChunkInv
    <2>2. pc = "queue" /\ next < nstep /\ next' = next + 1
          /\ UNCHANGED <<pc, d, nstep, filled, buffers>>
      BY <1>6 DEF QueueRead, Queueing
    <2>3. QED
      BY <1>1, <1>2, <2>1, <2>2 DEF ChunkInv
  <1>7. CASE QueueFails
    BY <1>1, <1>2, <1>7 DEF QueueFails, ChunkInv
  <1>8. CASE Perform
    <2>1. /\ queued' = {} /\ filled' \subseteq filled \cup queued
          /\ UNCHANGED <<pc, d, nstep, next, buffers>>
      BY <1>8 DEF Perform
    <2>2. QED
      BY <1>1, <1>2, <2>1 DEF ChunkInv
  <1>9. CASE FoldIn \/ ChunkFails
    <2>1. /\ queued = {} /\ ~buffers' /\ filled' = {} /\ pc' # "queue"
          /\ UNCHANGED <<nstep, next, queued>>
      BY <1>9 DEF FoldIn, ChunkFails, Fail, Settled
    <2>2. QED
      BY <1>2, <2>1 DEF ChunkInv
  <1>10. CASE UNCHANGED <<pc, d, chunkvars>>
    BY <1>1, <1>2, <1>10 DEF ChunkInv, chunkvars
  <1>11. CASE GridFails \/ FirstGrid \/ SecondGrid \/ OneGrid \/ LoopEnds \/ Normalize
    BY <1>3, <1>11 DEF GridFails, Fail, FirstGrid, SecondGrid, OneGrid, LoopEnds, Normalize
  <1>12. CASE NotCovered \/ Interrupt \/ UNCHANGED vars
    BY <1>10, <1>12 DEF NotCovered, Interrupt, vars, chunkvars
  <1>13. QED
    BY <1>4, <1>5, <1>6, <1>7, <1>8, <1>9, <1>11, <1>12 DEF Next, Run

LEMMA AveAlways == Spec => []AveInv
  <1>1. Init => AveInv
    BY AveAssumption, InitAve
  <1>2. AveInv /\ [Next]_vars => AveInv'
    BY AveAssumption, AskStays, RangeStays, LoopStays, ChunkStays DEF AveInv
  <1>3. QED
    BY <1>1, <1>2, PTL DEF Spec

-----------------------------------------------------------------------------
(* The theorems.                                                           *)

(* Types and bounds: no chunk goes beyond the range or the buffers, and no *)
(* read is queued beyond the time axis (gaadios_read_steps).               *)
THEOREM AveTypeCorrect == Spec => []TypeOK
  <1>1. AveInv => TypeOK
    BY DEF AveInv, RangeInv, LoopInv, ChunkInv, TypeOK
  <1>2. QED
    BY <1>1, AveAlways, PTL

(* The engine holds no read of a buffer that was given back, whichever     *)
(* read or query failed: BuffersOutliveReads.                              *)
THEOREM ReadsHaveBuffers == Spec => []BuffersOutliveReads
  <1>1. AveInv => BuffersOutliveReads
    BY DEF AveInv, ChunkInv, BuffersOutliveReads
  <1>2. QED
    BY <1>1, AveAlways, PTL

-----------------------------------------------------------------------------
(* The times.                                                              *)

LEMMA OneTimeTaken ==
  ASSUME RangeInv, LoopInv, TimesInv, times' = Append(times, d), prog' = prog + 1,
         d' = d + ask.incr, ask' = ask, pc' # "first", pc' = "second" => prog = 0
  PROVE  TimesInv'
  <1> DEFINE n == ask.incr
             g == Len(times)
  <1>1. n \in Nat /\ D1 \in Int /\ D1' = D1 /\ n' = n /\ d \in Int
    BY RangeStays DEF RangeInv, LoopInv
  <1>2. times \in Seq(Int) /\ g \in Nat /\ prog = g /\ d = D1 + g * n
        /\ \A i \in 1 .. g : times[i] = D1 + (i - 1) * n
    BY DEF TimesInv, InRange
  <1>3. /\ times' \in Seq(Int) /\ Len(times') = g + 1 /\ times'[g + 1] = d
        /\ \A i \in 1 .. g : times'[i] = times[i]
    BY <1>1, <1>2
  <1>4. d' = D1 + (g + 1) * n
    <2> DEFINE p == g * n
    <2> HIDE DEF g, n
    <2>1. (g + 1) * n = p + n /\ p \in Int
      BY <1>1, <1>2, OneMore
    <2>2. d = D1 + p /\ d' = d + n
      BY <1>2 DEF n
    <2> HIDE DEF p
    <2>3. QED
      BY <1>1, <2>1, <2>2
  <1>5. \A i \in 1 .. g + 1 : times'[i] = D1 + (i - 1) * n
    <2>1. SUFFICES ASSUME NEW i \in 1 .. g + 1 PROVE times'[i] = D1 + (i - 1) * n
      OBVIOUS
    <2>2. CASE i \in 1 .. g
      <3>1. times'[i] = times[i] /\ times[i] = D1 + (i - 1) * n
        BY <1>2, <1>3, <2>2
      <3>2. QED
        BY <3>1
    <2>3. CASE i = g + 1
      <3>1. i - 1 = g
        BY <1>2, <2>3
      <3>2. QED
        BY <1>2, <1>3, <2>3, <3>1
    <2>4. QED
      BY <1>2, <2>2, <2>3
  <1>6. prog' = g + 1 /\ pc' # "first" /\ (pc' = "second" => g = 0)
    BY <1>2
  <1>7. \A i : InRange(i)' = D1 + (i - 1) * n
    BY <1>1 DEF InRange
  <1> HIDE DEF g
  <1>8. \A i \in 1 .. Len(times') : times'[i] = InRange(i)'
    BY <1>3, <1>5, <1>7
  <1>9. d' = D1' + prog' * ask.incr'
    BY <1>1, <1>4, <1>6
  <1>10. prog' = Len(times') /\ (pc' = "second" => prog' = 1)
    BY <1>2, <1>3, <1>6
  <1>11. QED
    BY <1>3, <1>6, <1>8, <1>9, <1>10 DEF TimesInv

(* A chunk is as many times, the same distance apart.                      *)
LEMMA ChunkTaken ==
  ASSUME AveAssumption, AveInv, TimesInv, FoldIn
  PROVE  TimesInv'
  <1> DEFINE n == ask.incr
             g == Len(times)
             m == nstep
             chunk == [k \in 1 .. m |-> ChunkTime(k - 1)]
  <1>1. n \in Nat /\ D1 \in Int /\ D1' = D1 /\ n' = n /\ d \in Int /\ m \in Nat
    BY RangeStays DEF AveInv, RangeInv, LoopInv, ChunkInv, FoldIn
  <1>2. times \in Seq(Int) /\ g \in Nat /\ prog = g /\ d = D1 + g * n
        /\ \A i \in 1 .. g : times[i] = D1 + (i - 1) * n
    BY DEF TimesInv, InRange
  <1>3. /\ times' = times \o chunk /\ prog' = g + m /\ d' = d + m * n
        /\ pc' = "loop"
    BY <1>2 DEF FoldIn
  <1>4. /\ chunk \in Seq(Int) /\ Len(chunk) = m
        /\ \A k \in 1 .. m : chunk[k] = d + (k - 1) * n
    BY <1>1 DEF ChunkTime
  <1> HIDE DEF chunk
  <1>5. /\ times' \in Seq(Int) /\ Len(times') = g + m
        /\ \A i \in 1 .. g + m :
             times'[i] = IF i <= g THEN times[i] ELSE chunk[i - g]
    BY <1>1, <1>2, <1>3, <1>4
  <1> HIDE DEF g, m
  <1>6. d' = D1 + (g + m) * n
    <2>1. (g + m) * n = g * n + m * n /\ g * n \in Int /\ m * n \in Int
      BY <1>1, <1>2, SumTimes
    <2>2. QED
      BY <1>1, <1>2, <1>3, <2>1, SMTT(30)
  <1>7. \A i \in 1 .. g + m : times'[i] = D1 + (i - 1) * n
    <2>1. SUFFICES ASSUME NEW i \in 1 .. g + m PROVE times'[i] = D1 + (i - 1) * n
      OBVIOUS
    <2>2. CASE i <= g
      <3>1. times'[i] = times[i] /\ i \in 1 .. g
        BY <1>1, <1>2, <1>5, <2>1, <2>2
      <3>2. times[i] = D1 + (i - 1) * n
        BY <1>2, <3>1
      <3>3. QED
        BY <3>1, <3>2
    <2>3. CASE ~(i <= g)
      <3>1. times'[i] = chunk[i - g] /\ i - g \in 1 .. m
        BY <1>1, <1>2, <1>5, <2>1, <2>3
      <3>2. chunk[i - g] = d + (i - g - 1) * n
        BY <1>4, <3>1
      <3>3. (g + (i - g - 1)) * n = g * n + (i - g - 1) * n
        BY <1>1, <1>2, <3>1, SumTimes
      <3>4. g + (i - g - 1) = i - 1 /\ g * n \in Int /\ (i - g - 1) * n \in Int
        BY <1>1, <1>2, <3>1
      <3>5. (i - 1) * n = g * n + (i - g - 1) * n
        BY <3>3, <3>4
      <3> DEFINE p == g * n
                 q == (i - g - 1) * n
                 x == (i - 1) * n
      <3>6. /\ times'[i] = d + q /\ d = D1 + p /\ x = p + q
            /\ p \in Int /\ q \in Int /\ D1 \in Int
        BY <1>1, <1>2, <3>1, <3>2, <3>4, <3>5
      <3> HIDE DEF p, q, x
      <3>7. times'[i] = D1 + x
        BY <3>6
      <3>8. QED
        BY <3>7 DEF x
    <2>4. QED
      BY <2>2, <2>3
  <1>8. QED
    BY <1>1, <1>3, <1>5, <1>6, <1>7 DEF TimesInv, InRange, n

LEMMA TimesStay ==
  ASSUME AveAssumption, AveInv, TimesInv, [Next]_vars
  PROVE  TimesInv'
  <1>1. ask' = ask /\ D1' = D1 /\ RangeInv /\ LoopInv
    BY AskStays, RangeStays DEF AveInv
  <1>2. CASE FirstGrid
    <2>1. prog = 0 /\ times = << >>
      BY <1>2 DEF FirstGrid, TimesInv
    <2>2. times' = Append(times, d) /\ prog' = prog + 1 /\ d' = d + ask.incr
          /\ pc' \in {"done", "second"}
      BY <1>2, <2>1 DEF FirstGrid
    <2>3. QED
      BY <1>1, <1>2, <2>1, <2>2, OneTimeTaken
  <1>3. CASE SecondGrid
    <2>1. prog = 1
      BY <1>3 DEF SecondGrid, TimesInv
    <2>2. QED
      BY <1>1, <1>3, <2>1, OneTimeTaken DEF SecondGrid
  <1>4. CASE OneGrid
    BY <1>1, <1>4, OneTimeTaken DEF OneGrid
  <1>5. CASE FoldIn
    BY <1>5, ChunkTaken
  <1>6. CASE UNCHANGED <<d, times, prog>> /\ (pc' = pc \/ pc' \notin {"first", "second"})
    <2>1. \A i : InRange(i)' = InRange(i)
      BY <1>1 DEF InRange
    <2>2. QED
      BY <1>1, <1>6, <2>1 DEF TimesInv
  <1>7. CASE GridFails \/ LoopEnds \/ Normalize \/ NotCovered \/ BeginChunk \/ ReadSpan
             \/ QueueRead \/ QueueFails
    BY <1>6, <1>7 DEF GridFails, Fail, LoopEnds, Normalize, NotCovered, BeginChunk, ReadSpan,
                      QueueRead, QueueFails
  <1>8. CASE Perform \/ ChunkFails \/ Interrupt \/ UNCHANGED vars
    BY <1>6, <1>8 DEF Perform, ChunkFails, Fail, Interrupt, vars
  <1>9. QED
    BY <1>2, <1>3, <1>4, <1>5, <1>7, <1>8 DEF Next, Run

(* The position never leaves the range by more than one step, so no more   *)
(* times are taken than it has.                                            *)
LEMMA NoMoreThanTotal ==
  ASSUME RangeInv, LoopInv, TimesInv
  PROVE  prog <= Total
  <1> DEFINE n == ask.incr
  <1>1. n \in Nat /\ n # 0 /\ D1 \in Int /\ D2 \in Int /\ d \in Int /\ prog \in Nat
        /\ d = D1 + prog * n /\ d <= D2 + n
    BY DEF RangeInv, LoopInv, TimesInv
  <1>2. (prog - 1) * n = prog * n - n /\ prog * n \in Int
    BY <1>1, OneMore
  <1>3. (prog - 1) * n <= D2 - D1
    BY <1>1, <1>2
  <1>4. prog - 1 <= (D2 - D1) \div n /\ (D2 - D1) \div n \in Int
    <2>1. prog - 1 \in Int /\ D2 - D1 \in Int
      BY <1>1
    <2> HIDE DEF n
    <2>2. QED
      BY <1>1, <1>3, <2>1, WithinQuotient, Quotient
  <1>5. Total = (D2 - D1) \div n + 1
    BY DEF Total
  <1> HIDE DEF n
  <1>6. QED
    BY <1>1, <1>4, <1>5

LEMMA TimesInit == ASSUME Init PROVE TimesInv
  <1>1. RangeInv
    BY AveAssumption, RangeInit
  <1>2. times = << >> /\ prog = 0 /\ d = D1 /\ pc = "first"
    BY DEF Init
  <1>3. D1 = D1 + 0 * ask.incr
    BY <1>1 DEF RangeInv
  <1>4. QED
    BY <1>2, <1>3 DEF TimesInv

(* The times are taken in order, each once, two at first, then in chunks   *)
(* or alone, and the progress line counts them: ProgressIsTrue.            *)
THEOREM TimesInOrder == Spec => []ProgressIsTrue
  <1>1. Init => TimesInv
    BY TimesInit
  <1>2. AveInv /\ TimesInv /\ [Next]_vars => TimesInv'
    BY AveAssumption, TimesStay
  <1>3. AveInv /\ TimesInv => ProgressIsTrue
    BY NoMoreThanTotal DEF AveInv, TimesInv, ProgressIsTrue
  <1>4. QED
    BY <1>1, <1>2, <1>3, AveAlways, PTL DEF Spec

-----------------------------------------------------------------------------
(* The grids the function holds.                                           *)

(* A running result can be divided, or has the location: something valid   *)
(* went in with a weight, or at a time.                                    *)
Divisible(a) ==
  /\ a = Acc(a.sum, a.sumu, a.cnt, a.cntu)
  /\ ask.sel \in 1 .. 8 /\ a.sumu \in {0, 1}
  /\ ask.sel < 3 => a.cnt \in Nat /\ (a.sumu = 1 => a.cnt # 0)
  /\ ask.sel > 6 /\ a.sumu = 1 => a.cntu = 1

(* The cells of the file are valid or not.                                 *)
FileInv ==
  /\ ask.gr1 \in Nat /\ ask.gr2 \in Nat /\ ask.sel \in 1 .. 8
  /\ var.steps \in 1 .. Steps /\ \A t \in 1 .. var.steps : var.data[t].u \in {0, 1}

HeldInv ==
  /\ acc.sumu \in {0, 1}
  /\ pc \in {"second", "loop", "queue", "end"} => D1 < D2
  /\ pc \in {"loop", "queue", "end"} => Divisible(acc)
  /\ pc = "done" => grids = 1
  /\ pc = "failed" => grids = 0

LEMMA CellValid ==
  ASSUME FileInv, AveAssumption, NEW t \in Int
  PROVE  CellAt(t).u \in {0, 1} /\ Read(t).u \in {0, 1}
  <1>1. Status(t) \in {0, 1, 2}
    <2>1. t \in Int /\ var.steps \in Int
      BY AveAssumption DEF FileInv
    <2>2. CASE t \notin 1 .. Steps
      BY <2>2 DEF Status
    <2>3. CASE t \in 1 .. Steps /\ t <= var.steps
      <3>1. ~(t > var.steps)
        BY <2>1, <2>3
      <3>2. QED
        BY <2>3, <3>1 DEF Status
    <2>4. CASE t \in 1 .. Steps /\ t > var.steps
      <3>1. ~(t <= var.steps)
        BY <2>1, <2>4
      <3>2. Status(t) = IF ~var.tdim /\ var.steps = 1 /\ var.others THEN 2 ELSE 0
        BY <2>4, <3>1 DEF Status
      <3>3. QED
        BY <3>2
    <2>5. QED
      BY <2>1, <2>2, <2>3, <2>4
  <1>2. CASE Status(t) = 0
    BY <1>2 DEF CellAt, Read, NoCell, Cell
  <1>3. CASE Status(t) = 1
    <2>1. t \in 1 .. var.steps
      BY <1>3, AveAssumption DEF Status, FileInv
    <2>2. CellAt(t) = var.data[t]
      BY <1>3 DEF CellAt
    <2>3. CellAt(t).u \in {0, 1}
      BY <2>1, <2>2 DEF FileInv
    <2>4. QED
      BY <1>3, <2>3 DEF Read, Cell
  <1>4. CASE Status(t) = 2
    <2>1. CellAt(t) = var.data[1] /\ 1 \in 1 .. var.steps
      BY <1>4, AveAssumption DEF CellAt, FileInv
    <2>2. CellAt(t).u \in {0, 1}
      BY <2>1 DEF FileInv
    <2>3. QED
      BY <1>4, <2>2 DEF Read, Cell
  <1>5. QED
    BY <1>1, <1>2, <1>3, <1>4

(* In a range of more than one time no cell is cut down to nothing.        *)
LEMMA Weighs ==
  ASSUME FileInv, RangeInv, D1 < D2, NEW t \in D1 .. D2
  PROVE  Weight(t) \in Nat \ {0}
  <1>1. /\ 2 * D1 <= ask.gr1 + 1 /\ ask.gr1 <= 2 * D1
        /\ 2 * D2 <= ask.gr2
    BY DEF FileInv, D1, D2
  <1>2. ask.gr1 \in Nat /\ ask.gr2 \in Nat /\ D1 \in Int /\ D2 \in Int
    BY DEF FileInv, RangeInv
  <1> DEFINE lo == IF ask.gr1 > 2 * t - 1 THEN ask.gr1 ELSE 2 * t - 1
             hi == IF ask.gr2 < 2 * t + 1 THEN ask.gr2 ELSE 2 * t + 1
  <1>3. lo \in Int /\ hi \in Int /\ lo < hi
    <2>1. D1 <= t /\ t <= D2 /\ t \in Int
      BY <1>2
    <2>2. lo \in {ask.gr1, 2 * t - 1} /\ hi \in {ask.gr2, 2 * t + 1}
      OBVIOUS
    <2>3. t = D1 => hi = 2 * t + 1
      BY <1>1, <1>2
    <2>4. t # D1 => lo = 2 * t - 1
      BY <1>1, <1>2, <2>1
    <2>5. hi >= 2 * t
      BY <1>1, <1>2, <2>1
    <2>6. lo <= 2 * t
      BY <1>1, <1>2, <2>1
    <2> HIDE DEF lo, hi
    <2>7. QED
      BY <1>2, <2>1, <2>2, <2>3, <2>4, <2>5, <2>6
  <1>4. Tbndwt(t) = IF hi < lo THEN 0 ELSE hi - lo
    BY DEF Tbndwt
  <1> HIDE DEF lo, hi
  <1>5. QED
    BY <1>3, <1>4 DEF Weight

LEMMA AccChanged ==
  ASSUME NEW a, a = [sum |-> a.sum, sumu |-> a.sumu, cnt |-> a.cnt, cntu |-> a.cntu], NEW y, NEW n
  PROVE  [a EXCEPT !.sum = y, !.cnt = n, !.sumu = 1] = Acc(y, 1, n, a.cntu)
  <1> DEFINE b == [a EXCEPT !.sum = y]
             c == [b EXCEPT !.cnt = n]
             e == [c EXCEPT !.sumu = 1]
  <1>1. b = [sum |-> y, sumu |-> a.sumu, cnt |-> a.cnt, cntu |-> a.cntu]
    OBVIOUS
  <1>2. c = [sum |-> y, sumu |-> a.sumu, cnt |-> n, cntu |-> a.cntu]
    <2> HIDE DEF b
    <2>1. QED
      BY <1>1
  <1>3. e = [sum |-> y, sumu |-> 1, cnt |-> n, cntu |-> a.cntu]
    <2> HIDE DEF c
    <2>1. QED
      BY <1>2
  <1>4. QED
    BY <1>3 DEF Acc

LEMMA AccumulateDivides ==
  ASSUME NEW a, Divisible(a), NEW t, NEW c, c.u \in {0, 1}, Weight(t) \in Nat \ {0}
  PROVE  Divisible(Accumulate(a, t, c))
  <1> DEFINE v == IF ask.sel <= 3 THEN c.val * Weight(t) ELSE c.val
  <1>1. ask.sel \in 1 .. 8
    BY DEF Divisible
  <1>2. CASE c.u = 0
    BY <1>2 DEF Accumulate
  <1>3. CASE c.u = 1 /\ ask.sel >= 5
    <2>1. Accumulate(a, t, c) = IF a.sumu = 0 \/ Better(c.val, a.sum) THEN Acc(c.val, 1, t, 1) ELSE a
      BY <1>1, <1>3 DEF Accumulate
    <2>2. Divisible(Acc(c.val, 1, t, 1))
      BY <1>1, <1>3 DEF Divisible, Acc
    <2>3. QED
      BY <2>1, <2>2
  <1>4. CASE c.u = 1 /\ ask.sel < 5
    <2>1. Accumulate(a, t, c) = [a EXCEPT !.sum = IF a.sumu = 0 THEN v ELSE @ + v,
                                          !.cnt = @ + Weight(t), !.sumu = 1]
      BY <1>4 DEF Accumulate
    <2> DEFINE w == Weight(t)
               b == [a EXCEPT !.sum = IF a.sumu = 0 THEN v ELSE @ + v, !.cnt = @ + w, !.sumu = 1]
               y == IF a.sumu = 0 THEN v ELSE a.sum + v
    <2> HIDE DEF v, w
    <2>2. b = Acc(y, 1, a.cnt + w, a.cntu)
      <3>1. a = [sum |-> a.sum, sumu |-> a.sumu, cnt |-> a.cnt, cntu |-> a.cntu]
        BY DEF Divisible, Acc
      <3>2. b = [a EXCEPT !.sum = y, !.cnt = a.cnt + w, !.sumu = 1]
        BY <3>1
      <3> DEFINE n == a.cnt + w
      <3>3. b = [a EXCEPT !.sum = y, !.cnt = n, !.sumu = 1]
        BY <3>2
      <3> HIDE DEF b, y, n
      <3>4. b = Acc(y, 1, n, a.cntu)
        BY <3>1, <3>3, AccChanged DEF Acc
      <3>5. QED
        BY <3>4 DEF n
    <2> HIDE DEF y
    <2>3. ask.sel < 3 => a.cnt + w \in Nat /\ a.cnt + w # 0
      BY DEF Divisible, w
    <2>4. Divisible(Acc(y, 1, a.cnt + w, a.cntu))
      BY <1>1, <1>4, <2>3 DEF Divisible, Acc
    <2>5. QED
      BY <2>1, <2>2, <2>4 DEF v, w
  <1>5. QED
    BY <1>1, <1>2, <1>3, <1>4

LEMMA FirstTwoDivides ==
  ASSUME ask.sel \in 1 .. 8, NEW t1, NEW t2, NEW c1, NEW c2, c1.u \in {0, 1}, c2.u \in {0, 1},
         Weight(t1) \in Nat \ {0}, Weight(t2) \in Nat \ {0}
  PROVE  Divisible(FirstTwo(t1, c1, t2, c2))
  <1> DEFINE w1 == Weight(t1)
             w2 == Weight(t2)
             f == FirstTwo(t1, c1, t2, c2)
  <1>1. w1 \in Nat \ {0} /\ w2 \in Nat \ {0} /\ w1 + w2 \in Nat \ {0}
    OBVIOUS
  <1>2. CASE ask.sel >= 5
    <2>1. \/ f = Acc(c2.val, 1, t2, 1) \/ f = Acc(c1.val, 1, t1, 1)
          \/ f = Acc(c1.val, 0, c2.val, 0)
      BY <1>2 DEF FirstTwo
    <2> HIDE DEF f
    <2>2. Divisible(f)
      BY <1>2, <2>1 DEF Divisible, Acc
    <2>3. QED
      BY <2>2 DEF f
  <1>3. CASE ask.sel <= 3
    <2>1. \/ f = Acc(c1.val * w1 + c2.val * w2, 1, w1 + w2, 1)
          \/ f = Acc(c2.val * w2, 1, w2, 1) \/ f = Acc(c1.val * w1, 1, w1, 1)
          \/ f = Acc(c1.val, 0, 0, 1)
      BY <1>3 DEF FirstTwo
    <2> HIDE DEF f, w1, w2
    <2>2. \A x : Divisible(Acc(x, 1, w1 + w2, 1)) /\ Divisible(Acc(x, 1, w2, 1))
                 /\ Divisible(Acc(x, 1, w1, 1)) /\ Divisible(Acc(x, 0, 0, 1))
      BY <1>1, <1>3 DEF Divisible, Acc
    <2>3. QED
      BY <2>1, <2>2 DEF f
  <1>4. CASE ask.sel = 4
    <2>1. \E x, y : f = Acc(x, 1, y, 1) \/ f = Acc(x, 0, y, 1)
      <3>1. ~(ask.sel >= 5) /\ ~(ask.sel <= 3)
        BY <1>4
      <3>2. CASE c1.u = 1
        <4>1. f = Acc(c1.val + c2.val, 1, w1 + w2, 1)
          BY <1>4, <3>1, <3>2 DEF FirstTwo
        <4>2. QED
          BY <4>1
      <3>3. CASE c1.u = 0 /\ c2.u = 1
        <4>1. f = Acc(c2.val, 1, c2.val, 1)
          BY <1>4, <3>1, <3>3 DEF FirstTwo
        <4>2. QED
          BY <4>1
      <3>4. CASE c1.u = 0 /\ c2.u = 0
        <4>1. f = Acc(c1.val, 0, 0, 1)
          BY <1>4, <3>1, <3>4 DEF FirstTwo
        <4>2. QED
          BY <4>1
      <3>5. QED
        BY <3>2, <3>3, <3>4
    <2> HIDE DEF f
    <2>2. \A x, y : Divisible(Acc(x, 1, y, 1)) /\ Divisible(Acc(x, 0, y, 1))
      BY <1>4 DEF Divisible, Acc
    <2>3. QED
      BY <2>1, <2>2 DEF f
  <1>5. QED
    BY <1>2, <1>3, <1>4

(* What FoldChunk computes for its first n cells.                          *)
FoldUpto(a, n) ==
  a = [k \in 0 .. n |->
         IF k = 0 THEN acc ELSE Accumulate(a[k - 1], ChunkTime(k - 1), Read(ChunkTime(k - 1)))]

LEMMA FoldExists == ASSUME NEW n \in Nat PROVE \E a : FoldUpto(a, n)
  <1> DEFINE S == {m \in Nat : \E a : FoldUpto(a, m)}
  <1>1. 0 \in S
    <2> DEFINE g == [k \in 0 .. 0 |-> acc]
    <2>1. FoldUpto(g, 0)
      BY DEF FoldUpto
    <2>2. QED
      BY <2>1
  <1>2. ASSUME NEW m \in Nat, m \in S PROVE m + 1 \in S
    <2>1. PICK a : FoldUpto(a, m)
      BY <1>2
    <2> DEFINE new == Accumulate(a[m], ChunkTime(m), Read(ChunkTime(m)))
               g == [k \in 0 .. m + 1 |-> IF k = m + 1 THEN new ELSE a[k]]
    <2>2. ASSUME NEW k \in 0 .. m + 1
          PROVE  g[k] = IF k = 0 THEN acc
                        ELSE Accumulate(g[k - 1], ChunkTime(k - 1), Read(ChunkTime(k - 1)))
      <3>1. CASE k = m + 1
        <4>1. g[k - 1] = a[m] /\ g[k] = new /\ k - 1 = m
          BY <3>1
        <4>2. QED
          BY <4>1, <3>1
      <3>2. CASE k \in 0 .. m
        <4>1. g[k] = a[k] /\ (k # 0 => g[k - 1] = a[k - 1])
          BY <3>2
        <4>2. a[k] = IF k = 0 THEN acc
                     ELSE Accumulate(a[k - 1], ChunkTime(k - 1), Read(ChunkTime(k - 1)))
          BY <2>1, <3>2 DEF FoldUpto
        <4>3. QED
          BY <4>1, <4>2
      <3>3. QED
        BY <3>1, <3>2
    <2>3. FoldUpto(g, m + 1)
      BY <2>2 DEF FoldUpto
    <2>4. QED
      BY <2>3
  <1> HIDE DEF S
  <1>3. Nat \subseteq S
    BY <1>1, <1>2, NatInSet
  <1>4. QED
    BY <1>3 DEF S

LEMMA FoldChunkIs == ASSUME nstep \in Nat PROVE \E a : FoldUpto(a, nstep) /\ FoldChunk = a[nstep]
  <1> DEFINE a == CHOOSE f : FoldUpto(f, nstep)
  <1>1. FoldUpto(a, nstep)
    BY FoldExists
  <1>2. FoldChunk = a[nstep]
    BY DEF FoldChunk, FoldUpto
  <1>3. QED
    BY <1>1, <1>2

(* The times of the chunk are in the range.                                *)
LEMMA ChunkWithin ==
  ASSUME AveInv, pc = "queue", NEW k \in Nat, k < nstep
  PROVE  ChunkTime(k) \in D1 .. D2
  <1> DEFINE n == ask.incr
  <1>1. n \in Nat /\ n # 0 /\ D1 \in Int /\ D2 \in Int /\ d \in Int /\ D1 <= d /\ nstep \in Nat
    BY DEF AveInv, RangeInv, LoopInv, ChunkInv
  <1>2. d + (nstep - 1) * n <= D2
    BY DEF AveInv, ChunkInv
  <1>3. 0 * n <= k * n /\ k * n <= (nstep - 1) * n /\ k * n \in Int /\ (nstep - 1) * n \in Int
    <2>1. k \in Int /\ 0 \in Int /\ nstep - 1 \in Int /\ 0 <= k /\ k <= nstep - 1
      BY <1>1
    <2> HIDE DEF n
    <2>2. QED
      BY <1>1, <2>1, Multiples
  <1>4. 0 * n = 0 /\ ChunkTime(k) = d + k * n
    BY <1>1 DEF ChunkTime
  <1> DEFINE x == k * n
             y == (nstep - 1) * n
  <1>5. x \in Int /\ y \in Int /\ 0 <= x /\ x <= y /\ d + y <= D2 /\ ChunkTime(k) = d + x
    BY <1>2, <1>3, <1>4
  <1> HIDE DEF x, y
  <1>6. QED
    BY <1>1, <1>5

LEMMA ChunkDivides ==
  ASSUME AveAssumption, AveInv, FileInv, pc = "queue", D1 < D2, Divisible(acc)
  PROVE  Divisible(FoldChunk)
  <1>1. nstep \in Nat /\ D1 \in Int /\ D2 \in Int
    BY DEF AveInv, ChunkInv, RangeInv
  <1>2. PICK a : FoldUpto(a, nstep) /\ FoldChunk = a[nstep]
    BY <1>1, FoldChunkIs
  <1> DEFINE S == {k \in Nat : k <= nstep => Divisible(a[k])}
  <1>3. 0 \in S
    BY <1>1, <1>2 DEF FoldUpto
  <1>4. ASSUME NEW k \in Nat, k \in S PROVE k + 1 \in S
    <2>1. SUFFICES ASSUME k + 1 <= nstep PROVE Divisible(a[k + 1])
      OBVIOUS
    <2>2. Divisible(a[k]) /\ k < nstep
      BY <1>1, <1>4, <2>1
    <2>3. a[k + 1] = Accumulate(a[k], ChunkTime(k), Read(ChunkTime(k)))
      <3>1. k + 1 \in 0 .. nstep /\ k + 1 # 0 /\ (k + 1) - 1 = k
        BY <1>1, <2>1
      <3>2. QED
        BY <1>2, <3>1 DEF FoldUpto
    <2>4. ChunkTime(k) \in D1 .. D2
      BY <2>2, ChunkWithin
    <2>5. ChunkTime(k) \in Int
      BY <1>1, <2>4
    <2>6. Read(ChunkTime(k)).u \in {0, 1} /\ Weight(ChunkTime(k)) \in Nat \ {0}
      BY <2>4, <2>5, CellValid, Weighs DEF AveInv
    <2>7. QED
      BY <2>2, <2>3, <2>6, AccumulateDivides
  <1> HIDE DEF S
  <1>5. Nat \subseteq S
    BY <1>3, <1>4, NatInSet
  <1>6. QED
    BY <1>1, <1>2, <1>5 DEF S


LEMMA FileInit == ASSUME AveAssumption, Init PROVE FileInv
  <1>1. ask.gr1 \in Nat /\ ask.gr2 \in Nat /\ ask.sel \in 1 .. 8
    BY DEF Init, AveAssumption
  <1>2. PICK steps \in 1 .. Steps, tdim \in BOOLEAN, others \in BOOLEAN :
          \E data \in [1 .. steps -> {Cell(v, 1) : v \in Value} \cup {NoCell}] :
            var = [steps |-> steps, tdim |-> tdim, others |-> others, data |-> data]
    BY DEF Init
  <1>3. PICK data \in [1 .. steps -> {Cell(v, 1) : v \in Value} \cup {NoCell}] :
          var = [steps |-> steps, tdim |-> tdim, others |-> others, data |-> data]
    BY <1>2
  <1>4. var.steps = steps /\ var.data = data
    BY <1>3
  <1>5. ASSUME NEW t \in 1 .. steps PROVE data[t].u \in {0, 1}
    <2>1. data[t] \in {Cell(v, 1) : v \in Value} \cup {NoCell}
      BY <1>3
    <2>2. QED
      BY <2>1 DEF Cell, NoCell
  <1>6. QED
    BY <1>1, <1>2, <1>4, <1>5 DEF FileInv

LEMMA FileStays == ASSUME FileInv, [Next]_vars PROVE FileInv'
  <1>1. ask' = ask /\ var' = var
    BY DEF Next, Run, vars, GridFails, Fail, FirstGrid, SecondGrid, OneGrid, LoopEnds,
           Normalize, NotCovered, BeginChunk, ReadSpan, QueueRead, QueueFails, Perform,
           FoldIn, ChunkFails, Interrupt
  <1>2. QED
    BY <1>1 DEF FileInv

(* Only a failure gives back the second grid, and the division cannot fail. *)
LEMMA HeldStays ==
  ASSUME AveAssumption, AveInv, TimesInv, FileInv, HeldInv, [Next]_vars
  PROVE  HeldInv'
  <1>1. D1' = D1 /\ D2' = D2 /\ ask' = ask
    BY AskStays, RangeStays DEF AveInv
  <1>2. /\ ask.incr \in Nat /\ ask.incr # 0 /\ D1 \in Int /\ D2 \in Int
        /\ d \in Int /\ D1 <= d /\ (pc \in {"first", "second"} => d <= D2)
        /\ ask.sel \in 1 .. 8
    BY DEF AveInv, RangeInv, LoopInv, FileInv
  <1>3. ASSUME Divisible(acc') PROVE Divisible(acc)' /\ acc'.sumu \in {0, 1}
    BY <1>1, <1>3 DEF Divisible
  <1>4. CASE GridFails \/ ChunkFails
    BY <1>4, <1>1 DEF GridFails, ChunkFails, Fail, HeldInv
  <1>5. CASE FirstGrid
    <2>1. CellAt(d).u \in {0, 1}
      BY <1>2, AveAssumption, CellValid
    <2>2. d = D1
      BY <1>2, <1>5 DEF FirstGrid, TimesInv
    <2>3. acc'.sumu \in {0, 1}
      BY <1>5, <2>1 DEF FirstGrid, Acc
    <2>4. grids' = 1 /\ pc' = IF d + ask.incr > D2 THEN "done" ELSE "second"
      BY <1>5 DEF FirstGrid
    <2>5. pc' # "done" => pc' = "second" /\ D1 < D2
      BY <1>2, <2>2, <2>4
    <2>6. QED
      BY <1>1, <2>3, <2>4, <2>5 DEF HeldInv
  <1>6. CASE SecondGrid
    <2>1. D1 < D2 /\ acc.sumu \in {0, 1} /\ d \in D1 .. D2 /\ D1 \in D1 .. D2
      BY <1>2, <1>6 DEF SecondGrid, HeldInv
    <2>2. CellAt(d).u \in {0, 1} /\ Cell(acc.sum, acc.sumu).u \in {0, 1}
      BY <1>2, <2>1, AveAssumption, CellValid DEF Cell
    <2>3. Weight(D1) \in Nat \ {0} /\ Weight(d) \in Nat \ {0}
      BY <2>1, Weighs DEF AveInv
    <2>4. Divisible(acc')
      BY <1>2, <1>6, <2>2, <2>3, FirstTwoDivides DEF SecondGrid
    <2>5. QED
      BY <1>1, <1>3, <1>6, <2>1, <2>4 DEF SecondGrid, HeldInv
  <1>7. CASE OneGrid
    <2>1. D1 < D2 /\ Divisible(acc) /\ d \in D1 .. D2
      BY <1>2, <1>7 DEF OneGrid, HeldInv
    <2>2. CellAt(d).u \in {0, 1} /\ Weight(d) \in Nat \ {0}
      BY <1>2, <2>1, AveAssumption, CellValid, Weighs DEF AveInv
    <2>3. Divisible(acc')
      BY <1>7, <2>1, <2>2, AccumulateDivides DEF OneGrid
    <2>4. QED
      BY <1>1, <1>3, <1>7, <2>1, <2>3 DEF OneGrid, HeldInv
  <1>8. CASE FoldIn
    <2>1. pc = "queue" /\ D1 < D2 /\ Divisible(acc)
      BY <1>8 DEF FoldIn, Settled, Queued, HeldInv
    <2>2. Divisible(acc')
      BY <1>8, <2>1, AveAssumption, ChunkDivides DEF FoldIn
    <2>3. pc' = "loop" /\ grids' = grids
      BY <1>8 DEF FoldIn
    <2>4. QED
      BY <1>1, <1>3, <2>1, <2>2, <2>3 DEF HeldInv
  <1>9. CASE Normalize
    <2>1. pc = "end" /\ Divisible(acc) /\ acc' = acc
      BY <1>9 DEF Normalize, HeldInv
    <2>2. ~(acc.sumu = 1 /\ ((ask.sel < 3 /\ acc.cnt = 0) \/ (ask.sel > 6 /\ acc.cntu = 0)))
      BY <2>1 DEF Divisible
    <2>3. pc' = "done" /\ grids' = 1
      BY <1>9, <2>2 DEF Normalize
    <2>4. QED
      BY <1>1, <2>1, <2>3 DEF HeldInv
  <1>10. CASE /\ UNCHANGED <<acc, grids>> /\ pc' \notin {"done", "failed", "second"}
              /\ pc \in {"loop", "queue"} /\ pc' \in {"loop", "queue", "end"}
    <2>1. Divisible(acc) /\ D1 < D2 /\ Divisible(acc')
      BY <1>10 DEF HeldInv
    <2>2. QED
      BY <1>1, <1>3, <1>10, <2>1 DEF HeldInv
  <1>11. CASE UNCHANGED <<acc, grids, pc>>
    <2>1. Divisible(acc)' = Divisible(acc)
      BY <1>1, <1>11 DEF Divisible
    <2>2. QED
      BY <1>1, <1>11, <2>1 DEF HeldInv
  <1>12. CASE LoopEnds \/ BeginChunk
    BY <1>10, <1>12 DEF LoopEnds, BeginChunk
  <1>13. CASE NotCovered \/ ReadSpan \/ QueueRead \/ QueueFails \/ Perform \/ Interrupt
              \/ UNCHANGED vars
    BY <1>11, <1>13 DEF NotCovered, ReadSpan, QueueRead, QueueFails, Perform, Interrupt, vars
  <1>14. QED
    BY <1>4, <1>5, <1>6, <1>7, <1>8, <1>9, <1>12, <1>13 DEF Next, Run

(* Nothing ave_run allocated is left when it has ended but the answer: the *)
(* error exits of both reads release the grids and the buffers, and the    *)
(* exit that would keep them, the division of a result without a count or  *)
(* a place, is never taken: NothingHeld.                                   *)
THEOREM NothingIsHeld == Spec => []NothingHeld
  <1>1. Init => FileInv /\ HeldInv /\ TimesInv
    <2>1. SUFFICES ASSUME Init PROVE FileInv /\ HeldInv /\ TimesInv
      OBVIOUS
    <2>2. FileInv
      BY <2>1, AveAssumption, FileInit
    <2>3. HeldInv
      BY <2>1 DEF Init, HeldInv, Acc
    <2>4. QED
      BY <2>1, <2>2, <2>3, TimesInit
  <1>2. AveInv /\ TimesInv /\ FileInv /\ HeldInv /\ [Next]_vars => (FileInv /\ HeldInv /\ TimesInv)'
    BY AveAssumption, FileStays, HeldStays, TimesStay
  <1>3. AveInv /\ HeldInv => NothingHeld
    BY DEF AveInv, ChunkInv, HeldInv, NothingHeld
  <1>4. QED
    BY <1>1, <1>2, <1>3, AveAlways, PTL DEF Spec

-----------------------------------------------------------------------------
(* The cells of the range.                                                 *)

(* The values of the file are numbers.                                     *)
ValInv == /\ var.steps \in 1 .. Steps
          /\ \A t \in 1 .. var.steps :
               var.data[t].val \in Int /\ var.data[t] = Cell(var.data[t].val, var.data[t].u)

LEMMA ValInit == ASSUME AveAssumption, Init PROVE ValInv
  <1>1. PICK steps \in 1 .. Steps, tdim \in BOOLEAN, others \in BOOLEAN :
          \E data \in [1 .. steps -> {Cell(v, 1) : v \in Value} \cup {NoCell}] :
            var = [steps |-> steps, tdim |-> tdim, others |-> others, data |-> data]
    BY DEF Init
  <1>2. PICK data \in [1 .. steps -> {Cell(v, 1) : v \in Value} \cup {NoCell}] :
          var = [steps |-> steps, tdim |-> tdim, others |-> others, data |-> data]
    BY <1>1
  <1>3. var.steps = steps /\ var.data = data
    BY <1>2
  <1>4. ASSUME NEW t \in 1 .. steps
        PROVE  data[t].val \in Int /\ data[t] = Cell(data[t].val, data[t].u)
    <2>1. data[t] \in {Cell(v, 1) : v \in Value} \cup {NoCell}
      BY <1>2
    <2>2. Value \subseteq Int
      BY AveAssumption DEF AveAssumption
    <2>3. QED
      BY <2>1, <2>2 DEF Cell, NoCell, Undef
  <1>5. QED
    BY <1>1, <1>3, <1>4 DEF ValInv

LEMMA CellNumber ==
  ASSUME AveAssumption, ValInv, FileInv, NEW t \in Int
  PROVE  /\ CellAt(t).val \in Int /\ CellAt(t).u \in {0, 1}
         /\ CellAt(t) = Cell(CellAt(t).val, CellAt(t).u)
  <1>1. CellAt(t).u \in {0, 1}
    BY CellValid
  <1>2. Steps \in Nat /\ var.steps \in 1 .. Steps
    BY DEF AveAssumption, ValInv
  <1>3. CASE t \notin 1 .. Steps
    BY <1>1, <1>3 DEF CellAt, Status, NoCell, Cell, Undef
  <1>4. CASE t \in 1 .. Steps /\ t <= var.steps
    <2>1. Status(t) = 1 /\ t \in 1 .. var.steps
      BY <1>2, <1>4 DEF Status
    <2>2. CellAt(t) = var.data[t]
      BY <2>1 DEF CellAt
    <2>3. QED
      BY <1>1, <2>1, <2>2 DEF ValInv
  <1>5. CASE t \in 1 .. Steps /\ t > var.steps
    <2>1. ~(t <= var.steps)
      BY <1>2, <1>5
    <2>2. Status(t) = 2 \/ Status(t) = 0
      BY <1>5, <2>1 DEF Status
    <2>3. CellAt(t) = var.data[1] \/ CellAt(t) = NoCell
      BY <2>2 DEF CellAt
    <2>4. 1 \in 1 .. var.steps
      BY <1>2
    <2>5. CASE CellAt(t) = var.data[1]
      BY <1>1, <2>4, <2>5 DEF ValInv
    <2>6. CASE CellAt(t) = NoCell
      BY <1>1, <2>6 DEF NoCell, Cell, Undef
    <2>7. QED
      BY <2>3, <2>5, <2>6
  <1>6. QED
    BY <1>2, <1>3, <1>4, <1>5

(* A weight is what the range has of a cell's halves (ave_tbndwt).         *)
LEMMA WeightIsShare ==
  ASSUME FileInv, RangeInv, NEW t \in D1 .. D2
  PROVE  Weight(t) = Share(t) /\ Share(t) \in Nat
  <1>1. /\ 2 * D1 <= ask.gr1 + 1 /\ ask.gr1 <= 2 * D1
        /\ 2 * D2 <= ask.gr2
    BY DEF FileInv, D1, D2
  <1>2. /\ ask.gr1 \in Nat /\ ask.gr2 \in Nat /\ t \in Int
        /\ ask.gr1 <= 2 * t /\ 2 * t <= ask.gr2
    BY <1>1 DEF FileInv, RangeInv
  <1> DEFINE g1 == ask.gr1
             g2 == ask.gr2
             H == {h \in {2 * t - 1, 2 * t} : g1 <= h /\ h + 1 <= g2}
  <1>3. CASE ~ask.bnd
    BY <1>3 DEF Weight, Share
  <1>4. CASE ask.bnd
    <2>1. Share(t) = Cardinality(H) /\ Weight(t) = Tbndwt(t)
      BY <1>4 DEF Share, Weight
    <2>2. Tbndwt(t) = LET lo == IF g1 > 2 * t - 1 THEN g1 ELSE 2 * t - 1
                          hi == IF g2 < 2 * t + 1 THEN g2 ELSE 2 * t + 1
                      IN IF hi < lo THEN 0 ELSE hi - lo
      BY DEF Tbndwt
    <2>3. /\ IsFiniteSet({2 * t}) /\ Cardinality({2 * t}) = 1
          /\ Cardinality({2 * t - 1}) = 1 /\ Cardinality({}) = 0
      BY FS_Singleton, FS_EmptySet
    <2>4. CASE g1 <= 2 * t - 1 /\ 2 * t + 1 <= g2
      <3>1. H = {2 * t} \cup {2 * t - 1}
        BY <1>2, <2>4
      <3>2. 2 * t - 1 \notin {2 * t}
        BY <1>2
      <3>3. Cardinality({2 * t} \cup {2 * t - 1}) = 2
        BY <2>3, <3>2, FS_AddElement
      <3>4. Tbndwt(t) = 2
        BY <1>2, <2>2, <2>4
      <3> HIDE DEF H
      <3>5. QED
        BY <2>1, <3>1, <3>3, <3>4
    <2>5. CASE g1 <= 2 * t - 1 /\ ~(2 * t + 1 <= g2)
      <3>1. H = {2 * t - 1}
        BY <1>2, <2>5
      <3>2. Tbndwt(t) = 1
        BY <1>2, <2>2, <2>5
      <3> HIDE DEF H
      <3>3. QED
        BY <2>1, <2>3, <3>1, <3>2
    <2>6. CASE ~(g1 <= 2 * t - 1) /\ 2 * t + 1 <= g2
      <3>1. H = {2 * t}
        BY <1>2, <2>6
      <3>2. Tbndwt(t) = 1
        BY <1>2, <2>2, <2>6
      <3> HIDE DEF H
      <3>3. QED
        BY <2>1, <2>3, <3>1, <3>2
    <2>7. CASE ~(g1 <= 2 * t - 1) /\ ~(2 * t + 1 <= g2)
      <3>1. H = {}
        BY <1>2, <2>7
      <3>2. Tbndwt(t) = 0
        BY <1>2, <2>2, <2>7
      <3> HIDE DEF H
      <3>3. QED
        BY <2>1, <2>3, <3>1, <3>2
    <2>8. QED
      BY <2>4, <2>5, <2>6, <2>7
  <1>5. QED
    BY <1>3, <1>4

(* The times of the range, by number.                                      *)
LEMMA InTotal ==
  ASSUME RangeInv, NEW i \in Nat, i # 0
  PROVE  /\ InRange(i) \in Int /\ D1 <= InRange(i)
         /\ InRange(i) <= D2 <=> i \in 1 .. Total
         /\ Total \in Nat /\ Total # 0
         /\ InRange(i + 1) = InRange(i) + ask.incr
  <1> DEFINE n == ask.incr
             q == (D2 - D1) \div n
             x == (i - 1) * n
  <1>1. n \in Nat /\ n # 0 /\ D1 \in Int /\ D2 \in Int /\ D1 <= D2 /\ D2 - D1 \in Int
    BY DEF RangeInv
  <1>2. InRange(i) = D1 + x /\ Total = q + 1
    BY DEF InRange, Total
  <1>3. q \in Int /\ q * n <= D2 - D1 /\ q * n \in Int
    <2> HIDE DEF n
    <2>1. q \in Int /\ q * n <= D2 - D1
      BY <1>1, Quotient
    <2> HIDE DEF q
    <2>2. QED
      BY <1>1, <2>1
  <1>4. 0 <= q
    <2> HIDE DEF n
    <2>1. 0 * n <= D2 - D1
      BY <1>1
    <2>2. QED
      BY <1>1, <2>1, WithinQuotient
  <1>5. x \in Int /\ 0 <= x
    <2> HIDE DEF n
    <2>1. 0 * n <= (i - 1) * n /\ (i - 1) * n \in Int
      BY <1>1, Multiples
    <2>2. 0 * n = 0
      BY <1>1
    <2>3. QED
      BY <2>1, <2>2
  <1>6. ASSUME D1 + x <= D2 PROVE i <= q + 1
    <2>1. x <= D2 - D1
      BY <1>1, <1>5, <1>6
    <2> HIDE DEF n
    <2>2. i - 1 \in Int /\ (i - 1) * n <= D2 - D1
      BY <2>1
    <2>3. i - 1 <= q
      BY <1>1, <2>2, WithinQuotient
    <2> HIDE DEF q
    <2>4. QED
      BY <1>3, <2>3
  <1>7. ASSUME i <= q + 1 PROVE D1 + x <= D2
    <2>1. i - 1 \in Int /\ i - 1 <= q
      BY <1>3, <1>7
    <2> HIDE DEF n, q
    <2>2. (i - 1) * n <= q * n
      BY <1>1, <1>3, <2>1, Multiples
    <2> HIDE DEF x
    <2>3. x <= q * n
      BY <2>2 DEF x
    <2>4. QED
      BY <1>1, <1>3, <1>5, <2>3
  <1>8. InRange(i + 1) = InRange(i) + n
    <2>1. InRange(i + 1) = D1 + ((i + 1) - 1) * n
      BY DEF InRange
    <2>2. (i + 1) - 1 = (i - 1) + 1
      OBVIOUS
    <2> HIDE DEF n
    <2>3. ((i - 1) + 1) * n = (i - 1) * n + n
      BY <1>1, OneMore
    <2>4. InRange(i + 1) = D1 + ((i - 1) * n + n)
      BY <2>1, <2>2, <2>3
    <2> HIDE DEF x
    <2>5. InRange(i + 1) = D1 + (x + n)
      BY <2>4 DEF x
    <2>6. QED
      BY <1>1, <1>2, <1>5, <2>5
  <1> HIDE DEF x, q, n
  <1>9. InRange(i) \in Int /\ D1 <= InRange(i) /\ Total \in Nat /\ Total # 0
    BY <1>1, <1>2, <1>3, <1>4, <1>5
  <1>10. InRange(i) <= D2 <=> i \in 1 .. Total
    BY <1>2, <1>3, <1>4, <1>6, <1>7
  <1>11. QED
    BY <1>8, <1>9, <1>10 DEF n

-----------------------------------------------------------------------------
(* Sums of the range up to each of its times.                              *)

Table(s, F) == s = [i \in 0 .. Total |-> IF i = 0 THEN 0 ELSE s[i - 1] + F[i]]

WeightedIn == [i \in 1 .. Total |-> IF i \in Valid THEN Weighted(InRange(i)) ELSE 0]
ShareIn == [i \in 1 .. Total |-> IF i \in Valid THEN Share(InRange(i)) ELSE 0]
PlainIn == [i \in 1 .. Total |-> IF i \in Valid THEN Plain(InRange(i)) ELSE 0]

Tables(w, s, p) == Table(w, WeightedIn) /\ Table(s, ShareIn) /\ Table(p, PlainIn)

LEMMA SumsThere ==
  ASSUME NEW T \in Nat, NEW F
  PROVE  \E s : s = [i \in 0 .. T |-> IF i = 0 THEN 0 ELSE s[i - 1] + F[i]]
  <1> DEFINE Is(s, m) == s = [i \in 0 .. m |-> IF i = 0 THEN 0 ELSE s[i - 1] + F[i]]
             S == {m \in Nat : \E s : Is(s, m)}
  <1>1. 0 \in S
    <2> DEFINE g == [i \in 0 .. 0 |-> 0]
    <2>1. Is(g, 0)
      OBVIOUS
    <2>2. QED
      BY <2>1
  <1>2. ASSUME NEW m \in Nat, m \in S PROVE m + 1 \in S
    <2>1. PICK s : Is(s, m)
      BY <1>2
    <2> DEFINE g == [i \in 0 .. m + 1 |-> IF i = m + 1 THEN s[m] + F[m + 1] ELSE s[i]]
    <2>2. ASSUME NEW i \in 0 .. m + 1
          PROVE  g[i] = IF i = 0 THEN 0 ELSE g[i - 1] + F[i]
      <3>1. CASE i = m + 1
        <4>1. g[i - 1] = s[m] /\ g[i] = s[m] + F[m + 1]
          BY <3>1
        <4>2. QED
          BY <4>1, <3>1
      <3>2. CASE i \in 0 .. m
        <4>1. g[i] = s[i] /\ (i # 0 => g[i - 1] = s[i - 1])
          BY <3>2
        <4>2. s[i] = IF i = 0 THEN 0 ELSE s[i - 1] + F[i]
          BY <2>1, <3>2
        <4>3. QED
          BY <4>1, <4>2
      <3>3. QED
        BY <3>1, <3>2
    <2>3. g = [i \in 0 .. m + 1 |-> g[i]]
      OBVIOUS
    <2> HIDE DEF g
    <2>5. Is(g, m + 1)
      BY <2>2, <2>3
    <2>4. QED
      BY <2>5
  <1> HIDE DEF S
  <1>3. T \in S
    BY <1>1, <1>2, NatInSet
  <1>4. QED
    BY <1>3 DEF S

LEMMA TableStep ==
  ASSUME Total \in Nat, NEW s, NEW F, Table(s, F), NEW i \in 1 .. Total
  PROVE  s[0] = 0 /\ s[i] = s[i - 1] + F[i]
  <1>1. 0 \in 0 .. Total /\ i \in 0 .. Total /\ i # 0
    OBVIOUS
  <1>2. QED
    BY <1>1 DEF Table

LEMMA TableNumbers ==
  ASSUME Total \in Nat, NEW s, NEW F, Table(s, F), \A i \in 1 .. Total : F[i] \in Int
  PROVE  \A i \in 0 .. Total : s[i] \in Int
  <1> DEFINE S == {m \in Nat : m <= Total => s[m] \in Int}
  <1>1. 0 \in S
    BY DEF Table
  <1>2. ASSUME NEW m \in Nat, m \in S PROVE m + 1 \in S
    <2>1. SUFFICES ASSUME m + 1 <= Total PROVE s[m + 1] \in Int
      OBVIOUS
    <2>2. m + 1 \in 1 .. Total /\ (m + 1) - 1 = m /\ m <= Total
      BY <2>1
    <2>3. s[m + 1] = s[m] + F[m + 1] /\ s[m] \in Int /\ F[m + 1] \in Int
      BY <1>2, <2>2, TableStep
    <2>4. QED
      BY <2>3
  <1> HIDE DEF S
  <1>3. Nat \subseteq S
    BY <1>1, <1>2, NatInSet
  <1>4. QED
    BY <1>3 DEF S

LEMMA OneTable ==
  ASSUME Total \in Nat, NEW F, NEW s, Table(s, F), NEW r, Table(r, F)
  PROVE  s = r
  <1> DEFINE S == {m \in Nat : m <= Total => s[m] = r[m]}
  <1>1. 0 \in S
    BY DEF Table
  <1>2. ASSUME NEW m \in Nat, m \in S PROVE m + 1 \in S
    <2>1. SUFFICES ASSUME m + 1 <= Total PROVE s[m + 1] = r[m + 1]
      OBVIOUS
    <2>2. m + 1 \in 1 .. Total /\ (m + 1) - 1 = m /\ m <= Total
      BY <2>1
    <2>3. s[m + 1] = s[m] + F[m + 1] /\ r[m + 1] = r[m] + F[m + 1] /\ s[m] = r[m]
      BY <1>2, <2>2, TableStep
    <2>4. QED
      BY <2>3
  <1> HIDE DEF S
  <1>3. Nat \subseteq S
    BY <1>1, <1>2, NatInSet
  <1>4. \A m \in 0 .. Total : s[m] = r[m]
    BY <1>3 DEF S
  <1>5. s = [i \in 0 .. Total |-> s[i]] /\ r = [i \in 0 .. Total |-> r[i]]
    BY DEF Table
  <1>6. QED
    BY <1>4, <1>5

LEMMA TablesThere == ASSUME Total \in Nat PROVE \E w, s, p : Tables(w, s, p)
  <1>1. ASSUME NEW F PROVE \E s : Table(s, F)
    BY SumsThere DEF Table
  <1>2. QED
    BY <1>1 DEF Tables

LEMMA SumOfWeighted ==
  ASSUME Total \in Nat, NEW w, Table(w, WeightedIn)
  PROVE  SumOf(Weighted) = w[Total]
  <1> DEFINE Is(x) == x = [i \in 0 .. Total |->
                        IF i = 0 THEN 0
                        ELSE x[i - 1] + (IF i \in Valid THEN Weighted(InRange(i)) ELSE 0)]
             h == CHOOSE x : Is(x)
  <1>1. SumOf(Weighted) = h[Total]
    BY DEF SumOf
  <1>2. ASSUME NEW x PROVE Is(x) <=> Table(x, WeightedIn)
    <2>1. \A i \in 0 .. Total : i # 0 =>
            WeightedIn[i] = IF i \in Valid THEN Weighted(InRange(i)) ELSE 0
      BY DEF WeightedIn
    <2> DEFINE F == WeightedIn
               G(i) == IF i \in Valid THEN Weighted(InRange(i)) ELSE 0
    <2> HIDE DEF F, G
    <2>2. \A i \in 0 .. Total : i # 0 => F[i] = G(i)
      BY <2>1 DEF F, G
    <2>3. [i \in 0 .. Total |-> IF i = 0 THEN 0 ELSE x[i - 1] + F[i]]
          = [i \in 0 .. Total |-> IF i = 0 THEN 0 ELSE x[i - 1] + G(i)]
      BY <2>2
    <2>4. QED
      BY <2>3 DEF Table, F, G
  <1>3. Is(h)
    BY <1>2
  <1>4. h = w
    BY <1>2, <1>3, OneTable
  <1>5. QED
    BY <1>1, <1>4

LEMMA SumOfShare ==
  ASSUME Total \in Nat, NEW s, Table(s, ShareIn)
  PROVE  SumOf(Share) = s[Total]
  <1> DEFINE Is(x) == x = [i \in 0 .. Total |->
                        IF i = 0 THEN 0
                        ELSE x[i - 1] + (IF i \in Valid THEN Share(InRange(i)) ELSE 0)]
             h == CHOOSE x : Is(x)
  <1>1. SumOf(Share) = h[Total]
    BY DEF SumOf
  <1>2. ASSUME NEW x PROVE Is(x) <=> Table(x, ShareIn)
    <2>1. \A i \in 0 .. Total : i # 0 =>
            ShareIn[i] = IF i \in Valid THEN Share(InRange(i)) ELSE 0
      BY DEF ShareIn
    <2> DEFINE F == ShareIn
               G(i) == IF i \in Valid THEN Share(InRange(i)) ELSE 0
    <2> HIDE DEF F, G
    <2>2. \A i \in 0 .. Total : i # 0 => F[i] = G(i)
      BY <2>1 DEF F, G
    <2>3. [i \in 0 .. Total |-> IF i = 0 THEN 0 ELSE x[i - 1] + F[i]]
          = [i \in 0 .. Total |-> IF i = 0 THEN 0 ELSE x[i - 1] + G(i)]
      BY <2>2
    <2>4. QED
      BY <2>3 DEF Table, F, G
  <1>3. Is(h)
    BY <1>2
  <1>4. h = s
    BY <1>2, <1>3, OneTable
  <1>5. QED
    BY <1>1, <1>4

LEMMA SumOfPlain ==
  ASSUME Total \in Nat, NEW p, Table(p, PlainIn)
  PROVE  SumOf(Plain) = p[Total]
  <1> DEFINE Is(x) == x = [i \in 0 .. Total |->
                        IF i = 0 THEN 0
                        ELSE x[i - 1] + (IF i \in Valid THEN Plain(InRange(i)) ELSE 0)]
             h == CHOOSE x : Is(x)
  <1>1. SumOf(Plain) = h[Total]
    BY DEF SumOf
  <1>2. ASSUME NEW x PROVE Is(x) <=> Table(x, PlainIn)
    <2>1. \A i \in 0 .. Total : i # 0 =>
            PlainIn[i] = IF i \in Valid THEN Plain(InRange(i)) ELSE 0
      BY DEF PlainIn
    <2> DEFINE F == PlainIn
               G(i) == IF i \in Valid THEN Plain(InRange(i)) ELSE 0
    <2> HIDE DEF F, G
    <2>2. \A i \in 0 .. Total : i # 0 => F[i] = G(i)
      BY <2>1 DEF F, G
    <2>3. [i \in 0 .. Total |-> IF i = 0 THEN 0 ELSE x[i - 1] + F[i]]
          = [i \in 0 .. Total |-> IF i = 0 THEN 0 ELSE x[i - 1] + G(i)]
      BY <2>2
    <2>4. QED
      BY <2>3 DEF Table, F, G
  <1>3. Is(h)
    BY <1>2
  <1>4. h = p
    BY <1>2, <1>3, OneTable
  <1>5. QED
    BY <1>1, <1>4

-----------------------------------------------------------------------------
(* The running result.                                                     *)

(* The best of the first n times.                                          *)
BestOf(b, n) ==
  /\ b \in Valid /\ b \in 1 .. n
  /\ \A j \in Valid : j <= n => AtLeastAsGood(b, j) /\ (AtLeastAsGood(j, b) => b <= j)

Seen(n) == \E i \in 1 .. n : i \in Valid

(* a is the running result after n times.                                  *)
Upto(a, n, w, s, p) ==
  /\ a = Acc(a.sum, a.sumu, a.cnt, a.cntu)
  /\ a.sumu \in {0, 1} /\ (a.sumu = 1 <=> Seen(n))
  /\ a.sumu = 0 => w[n] = 0 /\ p[n] = 0
  /\ ask.sel <= 3 => a.cnt = s[n] /\ (a.sumu = 1 => a.sum = w[n])
  /\ ask.sel = 4 /\ ~SumgAddsMissing /\ a.sumu = 1 => a.sum = p[n]
  /\ ask.sel >= 5 /\ a.sumu = 1 =>
       \E b \in 1 .. n : BestOf(b, n) /\ a.sum = Plain(InRange(b)) /\ a.cnt = InRange(b)

FileFacts == FileInv /\ ValInv /\ RangeInv

(* What is known of the i-th time.                                         *)
LEMMA TimeFacts ==
  ASSUME AveAssumption, FileFacts, NEW i \in 1 .. Total
  PROVE  /\ Total \in Nat /\ i \in Nat
         /\ InRange(i) \in D1 .. D2 /\ InRange(i) \in Int
         /\ Plain(InRange(i)) = CellAt(InRange(i)).val /\ Plain(InRange(i)) \in Int
         /\ CellAt(InRange(i)).u \in {0, 1}
         /\ i \in Valid <=> CellAt(InRange(i)).u = 1
         /\ Weight(InRange(i)) = Share(InRange(i)) /\ Share(InRange(i)) \in Nat
         /\ Weighted(InRange(i)) = Plain(InRange(i)) * Weight(InRange(i))
         /\ Weighted(InRange(i)) \in Int
  <1>1. RangeInv /\ FileInv /\ ValInv
    BY DEF FileFacts
  <1>2. 1 \in Nat /\ 1 # 0
    OBVIOUS
  <1>3. Total \in Nat
    BY <1>1, <1>2, InTotal
  <1>4. i \in Nat /\ i # 0
    BY <1>3
  <1>5. InRange(i) \in Int /\ D1 <= InRange(i) /\ InRange(i) <= D2
    BY <1>1, <1>4, InTotal
  <1>6. InRange(i) \in D1 .. D2
    BY <1>1, <1>5 DEF RangeInv
  <1>7. CellAt(InRange(i)).val \in Int /\ CellAt(InRange(i)).u \in {0, 1}
    BY <1>1, <1>5, CellNumber
  <1>8. Weight(InRange(i)) = Share(InRange(i)) /\ Share(InRange(i)) \in Nat
    BY <1>1, <1>6, WeightIsShare
  <1>9. Weighted(InRange(i)) = Plain(InRange(i)) * Weight(InRange(i))
    BY <1>8 DEF Weighted, Plain
  <1> DEFINE x == Plain(InRange(i))
             y == Share(InRange(i))
  <1>10. x \in Int /\ y \in Nat /\ Weighted(InRange(i)) = x * y
    BY <1>7, <1>8, <1>9 DEF Plain
  <1> HIDE DEF x, y
  <1>11. Weighted(InRange(i)) \in Int
    BY <1>10
  <1>12. i \in Valid <=> CellAt(InRange(i)).u = 1
    BY DEF Valid
  <1>13. QED
    BY <1>3, <1>4, <1>5, <1>6, <1>7, <1>8, <1>9, <1>11, <1>12 DEF Plain

LEMMA TablesNumbers ==
  ASSUME AveAssumption, FileFacts, NEW w, NEW s, NEW p, Tables(w, s, p)
  PROVE  /\ Total \in Nat /\ Total # 0
         /\ \A i \in 0 .. Total : w[i] \in Int /\ s[i] \in Int /\ p[i] \in Int
  <1>1. 1 \in Nat /\ 1 # 0 /\ RangeInv
    BY DEF FileFacts
  <1>2. Total \in Nat /\ Total # 0
    BY <1>1, InTotal
  <1>3. \A i \in 1 .. Total : WeightedIn[i] \in Int /\ ShareIn[i] \in Int /\ PlainIn[i] \in Int
    BY TimeFacts DEF WeightedIn, ShareIn, PlainIn
  <1>4. \A i \in 0 .. Total : w[i] \in Int
    BY <1>2, <1>3, TableNumbers DEF Tables
  <1>5. \A i \in 0 .. Total : s[i] \in Int
    BY <1>2, <1>3, TableNumbers DEF Tables
  <1>6. \A i \in 0 .. Total : p[i] \in Int
    BY <1>2, <1>3, TableNumbers DEF Tables
  <1>7. QED
    BY <1>2, <1>4, <1>5, <1>6

(* A time without a value adds nothing, one with a value its share.        *)
LEMMA TablesStep ==
  ASSUME AveAssumption, FileFacts, NEW w, NEW s, NEW p, Tables(w, s, p),
         NEW n \in Nat, n + 1 \in 1 .. Total
  PROVE  /\ n + 1 \notin Valid => w[n + 1] = w[n] /\ s[n + 1] = s[n] /\ p[n + 1] = p[n]
         /\ n + 1 \in Valid =>
              /\ w[n + 1] = w[n] + Weighted(InRange(n + 1))
              /\ s[n + 1] = s[n] + Share(InRange(n + 1))
              /\ p[n + 1] = p[n] + Plain(InRange(n + 1))
         /\ w[0] = 0 /\ s[0] = 0 /\ p[0] = 0
  <1>1. Total \in Nat /\ n \in 0 .. Total /\ w[n] \in Int /\ s[n] \in Int /\ p[n] \in Int
    BY TablesNumbers
  <1> DEFINE m == n + 1
  <1>2. m \in 1 .. Total /\ m - 1 = n
    OBVIOUS
  <1>3. /\ WeightedIn[m] = IF m \in Valid THEN Weighted(InRange(m)) ELSE 0
        /\ ShareIn[m] = IF m \in Valid THEN Share(InRange(m)) ELSE 0
        /\ PlainIn[m] = IF m \in Valid THEN Plain(InRange(m)) ELSE 0
    BY <1>2 DEF WeightedIn, ShareIn, PlainIn
  <1> HIDE DEF m
  <1>4. w[m] = w[m - 1] + WeightedIn[m] /\ w[0] = 0
    BY <1>1, <1>2, TableStep DEF Tables
  <1>5. s[m] = s[m - 1] + ShareIn[m] /\ s[0] = 0
    BY <1>1, <1>2, TableStep DEF Tables
  <1>6. p[m] = p[m - 1] + PlainIn[m] /\ p[0] = 0
    BY <1>1, <1>2, TableStep DEF Tables
  <1>7. CASE m \in Valid
    BY <1>2, <1>3, <1>4, <1>5, <1>6, <1>7 DEF m
  <1>8. CASE m \notin Valid
    BY <1>1, <1>2, <1>3, <1>4, <1>5, <1>6, <1>8 DEF m
  <1>9. QED
    BY <1>7, <1>8 DEF m

(* The first of the best, as times are added.                              *)
LEMMA BestGrows ==
  ASSUME AveAssumption, FileFacts, NEW n \in Nat, n + 1 \in 1 .. Total
  PROVE  /\ n + 1 \notin Valid => \A b \in 1 .. n : BestOf(b, n) => BestOf(b, n + 1)
         /\ n + 1 \in Valid /\ ~Seen(n) => BestOf(n + 1, n + 1)
         /\ n + 1 \in Valid => \A b \in 1 .. n :
              BestOf(b, n) => IF Better(Plain(InRange(n + 1)), Plain(InRange(b)))
                              THEN BestOf(n + 1, n + 1) ELSE BestOf(b, n + 1)
  <1>1. Total \in Nat
    BY TimeFacts
  <1>2. Valid \subseteq 1 .. Total
    BY DEF Valid
  <1>3. \A i \in Valid : Plain(InRange(i)) \in Int /\ i \in Nat /\ i # 0
    BY <1>1, <1>2, TimeFacts
  <1> DEFINE V == Valid
             v(i) == Plain(InRange(i))
             small == ask.sel \in {5, 7}
  <1>4. \A i, j : AtLeastAsGood(i, j) <=> (small /\ v(i) <= v(j)) \/ (~small /\ v(i) >= v(j))
    BY DEF AtLeastAsGood
  <1>5. \A x, y : Better(x, y) <=> (small /\ x < y) \/ (~small /\ x > y)
    BY DEF Better
  <1>6. \A b, k : BestOf(b, k) <=>
          /\ b \in V /\ b \in 1 .. k
          /\ \A j \in V : j <= k => AtLeastAsGood(b, j) /\ (AtLeastAsGood(j, b) => b <= j)
    BY DEF BestOf
  <1>7. \A i \in V : v(i) \in Int /\ i \in Nat /\ i # 0
    BY <1>3
  <1>8. Seen(n) <=> \E i \in 1 .. n : i \in V
    BY DEF Seen
  <1> HIDE DEF V, v, small
  <1>9. \A j \in V : j <= n + 1 => j <= n \/ j = n + 1
    BY <1>7
  <1>10. \A i \in V : i <= n => i \in 1 .. n
    BY <1>7
  <1>11. ASSUME n + 1 \notin V, NEW b \in 1 .. n, BestOf(b, n) PROVE BestOf(b, n + 1)
    <2>1. b \in V /\ b \in 1 .. n + 1
      BY <1>6, <1>11
    <2>2. \A j \in V : j <= n + 1 => j <= n
      BY <1>9, <1>11
    <2>3. QED
      BY <1>6, <1>11, <2>1, <2>2
  <1>12. ASSUME n + 1 \in V, ~Seen(n) PROVE BestOf(n + 1, n + 1)
    <2>1. \A j \in V : j <= n + 1 => j = n + 1
      BY <1>8, <1>9, <1>10, <1>12
    <2>2. AtLeastAsGood(n + 1, n + 1)
      BY <1>4, <1>7, <1>12
    <2>3. n + 1 \in 1 .. n + 1 /\ n + 1 <= n + 1
      OBVIOUS
    <2>4. QED
      BY <1>6, <1>12, <2>1, <2>2, <2>3
  <1>13. ASSUME n + 1 \in V, NEW b \in 1 .. n, BestOf(b, n), Better(v(n + 1), v(b))
         PROVE  BestOf(n + 1, n + 1)
    <2>1. b \in V /\ \A j \in V : j <= n => AtLeastAsGood(b, j)
      BY <1>6, <1>13
    <2>2. ASSUME NEW j \in V, j <= n
          PROVE  AtLeastAsGood(n + 1, j) /\ ~AtLeastAsGood(j, n + 1)
      <3>1. AtLeastAsGood(b, j) /\ v(j) \in Int /\ v(b) \in Int /\ v(n + 1) \in Int
        BY <1>7, <1>13, <2>1, <2>2
      <3>2. QED
        BY <1>4, <1>5, <1>13, <3>1
    <2>3. AtLeastAsGood(n + 1, n + 1) /\ n + 1 <= n + 1 /\ n + 1 \in 1 .. n + 1
      BY <1>4, <1>7, <1>13
    <2>4. \A j \in V : j <= n + 1 =>
            AtLeastAsGood(n + 1, j) /\ (AtLeastAsGood(j, n + 1) => n + 1 <= j)
      BY <1>9, <2>2, <2>3
    <2>5. QED
      BY <1>6, <1>13, <2>3, <2>4
  <1>14. ASSUME n + 1 \in V, NEW b \in 1 .. n, BestOf(b, n), ~Better(v(n + 1), v(b))
         PROVE  BestOf(b, n + 1)
    <2>1. b \in V /\ b \in 1 .. n + 1
          /\ \A j \in V : j <= n => AtLeastAsGood(b, j) /\ (AtLeastAsGood(j, b) => b <= j)
      BY <1>6, <1>14
    <2>2. AtLeastAsGood(b, n + 1) /\ b <= n + 1
      <3>1. v(b) \in Int /\ v(n + 1) \in Int
        BY <1>7, <1>14, <2>1
      <3>2. QED
        BY <1>4, <1>5, <1>14, <3>1
    <2>3. \A j \in V : j <= n + 1 => AtLeastAsGood(b, j) /\ (AtLeastAsGood(j, b) => b <= j)
      BY <1>9, <2>1, <2>2
    <2>4. QED
      BY <1>6, <2>1, <2>3
  <1>15. QED
    BY <1>11, <1>12, <1>13, <1>14 DEF V, v

LEMMA SeenNext ==
  ASSUME NEW n \in Nat
  PROVE  Seen(n + 1) <=> Seen(n) \/ n + 1 \in Valid
  <1>1. \A i \in 1 .. n + 1 : i \in 1 .. n \/ i = n + 1
    OBVIOUS
  <1>2. n + 1 \in 1 .. n + 1 /\ \A i \in 1 .. n : i \in 1 .. n + 1
    OBVIOUS
  <1>3. QED
    BY <1>1, <1>2 DEF Seen

(* What one more time does to the running result (ave_accumulate).         *)
LEMMA OneAdded ==
  ASSUME AveAssumption, FileFacts, NEW w, NEW s, NEW p, Tables(w, s, p),
         NEW n \in Nat, n + 1 \in 1 .. Total, NEW a, Upto(a, n, w, s, p)
  PROVE  Upto(Accumulate(a, InRange(n + 1), CellAt(InRange(n + 1))), n + 1, w, s, p)
  <1> DEFINE t == InRange(n + 1)
             c == CellAt(t)
             r == Accumulate(a, t, c)
             m == n + 1
  <1>1. /\ c.val = Plain(t) /\ Plain(t) \in Int /\ c.u \in {0, 1} /\ (m \in Valid <=> c.u = 1)
        /\ Weight(t) = Share(t) /\ Share(t) \in Nat /\ Weighted(t) = Plain(t) * Weight(t)
        /\ Weighted(t) \in Int
    BY TimeFacts
  <1>2. /\ m \notin Valid => w[m] = w[n] /\ s[m] = s[n] /\ p[m] = p[n]
        /\ m \in Valid => /\ w[m] = w[n] + Weighted(t)
                          /\ s[m] = s[n] + Share(t)
                          /\ p[m] = p[n] + Plain(t)
    BY TablesStep
  <1>3. Seen(m) <=> Seen(n) \/ m \in Valid
    BY SeenNext
  <1>4. ask.sel \in 1 .. 8
    BY DEF FileFacts, FileInv
  <1>5. /\ a = Acc(a.sum, a.sumu, a.cnt, a.cntu)
        /\ a.sumu \in {0, 1} /\ (a.sumu = 1 <=> Seen(n))
        /\ a.sumu = 0 => w[n] = 0 /\ p[n] = 0
        /\ ask.sel <= 3 => a.cnt = s[n] /\ (a.sumu = 1 => a.sum = w[n])
        /\ ask.sel = 4 /\ ~SumgAddsMissing /\ a.sumu = 1 => a.sum = p[n]
        /\ ask.sel >= 5 /\ a.sumu = 1 =>
             \E b \in 1 .. n : BestOf(b, n) /\ a.sum = Plain(InRange(b)) /\ a.cnt = InRange(b)
    BY DEF Upto
  <1>6. /\ m \notin Valid => \A b \in 1 .. n : BestOf(b, n) => BestOf(b, m)
        /\ m \in Valid /\ ~Seen(n) => BestOf(m, m)
        /\ m \in Valid => \A b \in 1 .. n :
             BestOf(b, n) => IF Better(Plain(t), Plain(InRange(b)))
                             THEN BestOf(m, m) ELSE BestOf(b, m)
    BY BestGrows
  <1>7. m \in 1 .. m /\ \A b \in 1 .. n : b \in 1 .. m
    OBVIOUS
  <1>8. w[n] \in Int /\ s[n] \in Int /\ p[n] \in Int
    <2>1. Total \in Nat /\ n \in 0 .. Total
      BY TablesNumbers
    <2>2. QED
      BY <2>1, TablesNumbers
  <1>9. CASE c.u = 0
    <2>1. r = a
      BY <1>9 DEF Accumulate
    <2>2. m \notin Valid
      BY <1>1, <1>9
    <2> HIDE DEF r, m, c, t
    <2>3. Seen(m) <=> Seen(n)
      BY <1>3, <2>2
    <2>4. w[m] = w[n] /\ s[m] = s[n] /\ p[m] = p[n]
      BY <1>2, <2>2
    <2>5. ask.sel >= 5 /\ a.sumu = 1 =>
            \E b \in 1 .. m : BestOf(b, m) /\ a.sum = Plain(InRange(b)) /\ a.cnt = InRange(b)
      BY <1>5, <1>6, <1>7, <2>2
    <2>6. Upto(a, m, w, s, p)
      BY <1>5, <2>3, <2>4, <2>5 DEF Upto
    <2>7. QED
      BY <2>1, <2>6 DEF r, m, c, t
  <1>10. CASE c.u = 1 /\ ask.sel >= 5
    <2>1. r = IF a.sumu = 0 \/ Better(c.val, a.sum) THEN Acc(c.val, 1, t, 1) ELSE a
      BY <1>4, <1>10 DEF Accumulate
    <2>2. m \in Valid /\ Seen(m)
      BY <1>1, <1>3, <1>10
    <2>3. ~(ask.sel <= 3) /\ ask.sel # 4
      BY <1>4, <1>10
    <2> DEFINE g == Acc(c.val, 1, t, 1)
    <2>4. g = Acc(g.sum, g.sumu, g.cnt, g.cntu) /\ g.sum = Plain(t) /\ g.sumu = 1 /\ g.cnt = t
      BY <1>1 DEF Acc
    <2>5. t = InRange(m)
      OBVIOUS
    <2> HIDE DEF r, m, c, t, g
    <2>6. ASSUME BestOf(m, m) PROVE Upto(g, m, w, s, p)
      <3>1. \E b \in 1 .. m : BestOf(b, m) /\ g.sum = Plain(InRange(b)) /\ g.cnt = InRange(b)
        BY <1>7, <2>4, <2>5, <2>6
      <3>2. QED
        BY <2>2, <2>3, <2>4, <3>1 DEF Upto
    <2>7. CASE a.sumu = 0
      <3>1. BestOf(m, m)
        BY <1>5, <1>6, <2>2, <2>7
      <3>2. r = g
        BY <2>1, <2>7 DEF g
      <3>3. QED
        BY <2>6, <3>1, <3>2 DEF r, c, t, m
    <2>8. CASE a.sumu = 1
      <3>1. PICK b \in 1 .. n : BestOf(b, n) /\ a.sum = Plain(InRange(b)) /\ a.cnt = InRange(b)
        BY <1>5, <1>10, <2>8
      <3>2. r = IF Better(Plain(t), Plain(InRange(b))) THEN g ELSE a
        BY <1>1, <2>1, <2>8, <3>1 DEF g
      <3>3. CASE Better(Plain(t), Plain(InRange(b)))
        <4>1. BestOf(m, m)
          BY <1>6, <2>2, <3>1, <3>3
        <4>2. QED
          BY <2>6, <3>2, <3>3, <4>1 DEF r, c, t, m
      <3>4. CASE ~Better(Plain(t), Plain(InRange(b)))
        <4>1. BestOf(b, m) /\ b \in 1 .. m
          BY <1>6, <1>7, <2>2, <3>1, <3>4
        <4>2. \E e \in 1 .. m : BestOf(e, m) /\ a.sum = Plain(InRange(e)) /\ a.cnt = InRange(e)
          BY <3>1, <4>1
        <4>3. Upto(a, m, w, s, p)
          BY <1>5, <2>2, <2>3, <2>8, <4>2 DEF Upto
        <4>4. QED
          BY <3>2, <3>4, <4>3 DEF r, c, t, m
      <3>5. QED
        BY <3>3, <3>4
    <2>9. QED
      BY <1>5, <2>7, <2>8
  <1>11. CASE c.u = 1 /\ ask.sel < 5
    <2> DEFINE v == IF ask.sel <= 3 THEN c.val * Weight(t) ELSE c.val
               y == IF a.sumu = 0 THEN v ELSE a.sum + v
               k == a.cnt + Weight(t)
               g == Acc(y, 1, k, a.cntu)
    <2>1. r = g
      <3>1. r = [a EXCEPT !.sum = IF a.sumu = 0 THEN v ELSE @ + v,
                          !.cnt = @ + Weight(t), !.sumu = 1]
        BY <1>11 DEF Accumulate
      <3>2. a = [sum |-> a.sum, sumu |-> a.sumu, cnt |-> a.cnt, cntu |-> a.cntu]
        BY <1>5 DEF Acc
      <3> HIDE DEF v, r, t
      <3>3. r = [a EXCEPT !.sum = y, !.cnt = k, !.sumu = 1]
        BY <3>1, <3>2
      <3> HIDE DEF y, k
      <3>4. QED
        BY <3>2, <3>3, AccChanged
    <2>2. m \in Valid /\ Seen(m)
      BY <1>1, <1>3, <1>11
    <2>3. g = Acc(g.sum, g.sumu, g.cnt, g.cntu) /\ g.sum = y /\ g.sumu = 1 /\ g.cnt = k
      BY DEF Acc
    <2>4. /\ ask.sel <= 3 => v = Weighted(t)
          /\ ask.sel = 4 => v = Plain(t)
      BY <1>1
    <2>5. w[m] = w[n] + Weighted(t) /\ s[m] = s[n] + Share(t) /\ p[m] = p[n] + Plain(t)
      BY <1>2, <2>2
    <2> HIDE DEF g, v, r, t, m, c
    <2>6. ask.sel <= 3 => k = s[m] /\ y = w[m]
      BY <1>1, <1>5, <1>8, <2>4, <2>5
    <2>7. ask.sel = 4 /\ ~SumgAddsMissing => y = p[m]
      BY <1>1, <1>5, <1>8, <2>4, <2>5
    <2> HIDE DEF y, k
    <2>8. ~(ask.sel >= 5)
      BY <1>4, <1>11
    <2>9. Upto(g, m, w, s, p)
      BY <2>2, <2>3, <2>6, <2>7, <2>8 DEF Upto
    <2>10. QED
      BY <2>1, <2>9 DEF r, m, c, t
  <1>12. QED
    BY <1>1, <1>4, <1>9, <1>10, <1>11

LEMMA FirstTwoIs ==
  ASSUME NEW t1, NEW c1, NEW t2, NEW c2, ask.sel \in 1 .. 8
  PROVE  LET f == FirstTwo(t1, c1, t2, c2)
             w1 == Weight(t1)
             w2 == Weight(t2)
         IN /\ ask.sel >= 5 =>
                 /\ c1.u = 1 /\ c2.u = 1 =>
                      f = IF Better(c2.val, c1.val) THEN Acc(c2.val, 1, t2, 1)
                          ELSE Acc(c1.val, 1, t1, 1)
                 /\ c1.u = 0 /\ c2.u = 1 => f = Acc(c2.val, 1, t2, 1)
                 /\ c1.u = 1 /\ c2.u = 0 => f = Acc(c1.val, 1, t1, 1)
                 /\ c1.u = 0 /\ c2.u = 0 => f = Acc(c1.val, 0, c2.val, 0)
            /\ ask.sel <= 3 =>
                 /\ c1.u = 1 /\ c2.u = 1 => f = Acc(c1.val * w1 + c2.val * w2, 1, w1 + w2, 1)
                 /\ c1.u = 0 /\ c2.u = 1 => f = Acc(c2.val * w2, 1, w2, 1)
                 /\ c1.u = 1 /\ c2.u = 0 => f = Acc(c1.val * w1, 1, w1, 1)
                 /\ c1.u = 0 /\ c2.u = 0 => f = Acc(c1.val, 0, 0, 1)
  <1>1. ASSUME ask.sel >= 5 PROVE ~(ask.sel <= 3) /\ ask.sel # 4
    BY <1>1
  <1>2. ASSUME ask.sel <= 3 PROVE ~(ask.sel >= 5) /\ ask.sel # 4
    BY <1>2
  <1>3. CASE c1.u = 1 /\ c2.u = 1
    BY <1>1, <1>2, <1>3 DEF FirstTwo
  <1>4. CASE c1.u = 0 /\ c2.u = 1
    BY <1>1, <1>2, <1>4 DEF FirstTwo
  <1>5. CASE c1.u = 1 /\ c2.u = 0
    BY <1>1, <1>2, <1>5 DEF FirstTwo
  <1>6. CASE c1.u = 0 /\ c2.u = 0
    BY <1>1, <1>2, <1>6 DEF FirstTwo
  <1>7. QED
    BY <1>3, <1>4, <1>5, <1>6

(* What the first two times make of it.                                    *)
LEMMA TwoAdded ==
  ASSUME AveAssumption, FileFacts, NEW w, NEW s, NEW p, Tables(w, s, p), 2 \in 1 .. Total
  PROVE  Upto(FirstTwo(InRange(1), CellAt(InRange(1)), InRange(2), CellAt(InRange(2))), 2, w, s, p)
  <1> DEFINE t1 == InRange(1)
             t2 == InRange(2)
             c1 == CellAt(t1)
             c2 == CellAt(t2)
             f == FirstTwo(t1, c1, t2, c2)
             w1 == Weight(t1)
             w2 == Weight(t2)
             v1 == c1.val
             v2 == c2.val
  <1>0. Total \in Nat /\ 1 \in 1 .. Total /\ 0 \in Nat /\ 1 \in Nat
    BY TablesNumbers
  <1>1. /\ v1 = Plain(t1) /\ v1 \in Int /\ c1.u \in {0, 1} /\ (1 \in Valid <=> c1.u = 1)
        /\ w1 = Share(t1) /\ w1 \in Nat /\ Weighted(t1) = v1 * w1 /\ v1 * w1 \in Int
    BY <1>0, TimeFacts
  <1>2. /\ v2 = Plain(t2) /\ v2 \in Int /\ c2.u \in {0, 1} /\ (2 \in Valid <=> c2.u = 1)
        /\ w2 = Share(t2) /\ w2 \in Nat /\ Weighted(t2) = v2 * w2 /\ v2 * w2 \in Int
    BY TimeFacts
  <1>3. 0 + 1 = 1 /\ 1 + 1 = 2
    OBVIOUS
  <1>4. /\ w[1] = IF 1 \in Valid THEN v1 * w1 ELSE 0
        /\ s[1] = IF 1 \in Valid THEN w1 ELSE 0
        /\ p[1] = IF 1 \in Valid THEN v1 ELSE 0
    <2>1. /\ 1 \notin Valid => w[1] = w[0] /\ s[1] = s[0] /\ p[1] = p[0]
          /\ 1 \in Valid => /\ w[1] = w[0] + Weighted(t1)
                            /\ s[1] = s[0] + Share(t1)
                            /\ p[1] = p[0] + Plain(t1)
          /\ w[0] = 0 /\ s[0] = 0 /\ p[0] = 0
      BY <1>0, <1>3, TablesStep
    <2> HIDE DEF t1, c1
    <2>2. QED
      BY <1>1, <2>1
  <1>5. /\ w[2] = IF 2 \in Valid THEN w[1] + v2 * w2 ELSE w[1]
        /\ s[2] = IF 2 \in Valid THEN s[1] + w2 ELSE s[1]
        /\ p[2] = IF 2 \in Valid THEN p[1] + v2 ELSE p[1]
    <2>1. /\ 2 \notin Valid => w[2] = w[1] /\ s[2] = s[1] /\ p[2] = p[1]
          /\ 2 \in Valid => /\ w[2] = w[1] + Weighted(t2)
                            /\ s[2] = s[1] + Share(t2)
                            /\ p[2] = p[1] + Plain(t2)
      BY <1>0, <1>3, TablesStep
    <2> HIDE DEF t2, c2
    <2>2. QED
      BY <1>2, <2>1
  <1>6. ~Seen(0) /\ (Seen(1) <=> 1 \in Valid) /\ (Seen(2) <=> 1 \in Valid \/ 2 \in Valid)
    <2>1. ~Seen(0)
      BY DEF Seen
    <2>2. QED
      BY <1>0, <1>3, <2>1, SeenNext
  <1>7. 1 \in Valid => BestOf(1, 1)
    BY <1>0, <1>3, <1>6, BestGrows
  <1>8. /\ 2 \notin Valid => \A b \in 1 .. 1 : BestOf(b, 1) => BestOf(b, 2)
        /\ 2 \in Valid /\ ~Seen(1) => BestOf(2, 2)
        /\ 2 \in Valid => \A b \in 1 .. 1 :
             BestOf(b, 1) => IF Better(Plain(InRange(2)), Plain(InRange(b)))
                             THEN BestOf(2, 2) ELSE BestOf(b, 2)
    BY <1>0, <1>3, BestGrows
  <1>9. /\ 1 \in Valid /\ 2 \notin Valid => BestOf(1, 2)
        /\ 2 \in Valid /\ 1 \notin Valid => BestOf(2, 2)
        /\ 1 \in Valid /\ 2 \in Valid => IF Better(v2, v1) THEN BestOf(2, 2) ELSE BestOf(1, 2)
    <2>1. 1 \in 1 .. 1
      OBVIOUS
    <2>2. Plain(InRange(1)) = v1 /\ Plain(InRange(2)) = v2
      BY <1>1, <1>2
    <2> HIDE DEF v1, v2
    <2>3. QED
      BY <1>6, <1>7, <1>8, <2>1, <2>2
  <1>10. ask.sel \in 1 .. 8
    BY DEF FileFacts, FileInv
  <1>11. SumgAddsMissing <=> ask.sel = 4 /\ 1 \in Valid /\ 2 \notin Valid
    BY <1>0 DEF SumgAddsMissing
  <1>12. ASSUME NEW x, NEW u, NEW y, NEW z
         PROVE  LET g == Acc(x, u, y, z)
                IN g = Acc(g.sum, g.sumu, g.cnt, g.cntu) /\ g.sum = x /\ g.sumu = u /\ g.cnt = y
    BY DEF Acc
  <1>13. CASE ask.sel >= 5
    <2>1. /\ c1.u = 1 /\ c2.u = 1 =>
                f = IF Better(v2, v1) THEN Acc(v2, 1, t2, 1) ELSE Acc(v1, 1, t1, 1)
          /\ c1.u = 0 /\ c2.u = 1 => f = Acc(v2, 1, t2, 1)
          /\ c1.u = 1 /\ c2.u = 0 => f = Acc(v1, 1, t1, 1)
          /\ c1.u = 0 /\ c2.u = 0 => f = Acc(v1, 0, v2, 0)
      <3> HIDE DEF t1, t2, c1, c2
      <3>1. QED
        BY <1>10, <1>13, FirstTwoIs
    <2>2. ~(ask.sel <= 3) /\ ask.sel # 4
      BY <1>10, <1>13
    <2>3. v1 = Plain(InRange(1)) /\ v2 = Plain(InRange(2)) /\ t1 = InRange(1) /\ t2 = InRange(2)
      BY <1>1, <1>2
    <2>4. 1 \in 1 .. 2 /\ 2 \in 1 .. 2
      OBVIOUS
    <2> HIDE DEF f, c1, c2, v1, v2, t1, t2, w1, w2
    <2>5. ASSUME BestOf(1, 2), Seen(2) PROVE Upto(Acc(v1, 1, t1, 1), 2, w, s, p)
      <3> DEFINE g == Acc(v1, 1, t1, 1)
      <3>1. g = Acc(g.sum, g.sumu, g.cnt, g.cntu) /\ g.sum = v1 /\ g.sumu = 1 /\ g.cnt = t1
        BY <1>12
      <3> HIDE DEF g
      <3>2. \E b \in 1 .. 2 : BestOf(b, 2) /\ g.sum = Plain(InRange(b)) /\ g.cnt = InRange(b)
        BY <2>3, <2>4, <2>5, <3>1
      <3>3. Upto(g, 2, w, s, p)
        BY <2>2, <2>5, <3>1, <3>2 DEF Upto
      <3>4. QED
        BY <3>3 DEF g
    <2>6. ASSUME BestOf(2, 2), Seen(2) PROVE Upto(Acc(v2, 1, t2, 1), 2, w, s, p)
      <3> DEFINE g == Acc(v2, 1, t2, 1)
      <3>1. g = Acc(g.sum, g.sumu, g.cnt, g.cntu) /\ g.sum = v2 /\ g.sumu = 1 /\ g.cnt = t2
        BY <1>12
      <3> HIDE DEF g
      <3>2. \E b \in 1 .. 2 : BestOf(b, 2) /\ g.sum = Plain(InRange(b)) /\ g.cnt = InRange(b)
        BY <2>3, <2>4, <2>6, <3>1
      <3>3. Upto(g, 2, w, s, p)
        BY <2>2, <2>6, <3>1, <3>2 DEF Upto
      <3>4. QED
        BY <3>3 DEF g
    <2>7. ASSUME ~Seen(2), w[2] = 0, p[2] = 0 PROVE Upto(Acc(v1, 0, v2, 0), 2, w, s, p)
      <3> DEFINE g == Acc(v1, 0, v2, 0)
      <3>1. g = Acc(g.sum, g.sumu, g.cnt, g.cntu) /\ g.sumu = 0
        BY <1>12
      <3> HIDE DEF g
      <3>2. Upto(g, 2, w, s, p)
        BY <2>2, <2>7, <3>1 DEF Upto
      <3>3. QED
        BY <3>2 DEF g
    <2>8. Upto(f, 2, w, s, p)
      <3>1. CASE c1.u = 1 /\ c2.u = 1
        BY <1>1, <1>2, <1>6, <1>9, <2>1, <2>5, <2>6, <3>1
      <3>2. CASE c1.u = 0 /\ c2.u = 1
        BY <1>1, <1>2, <1>6, <1>9, <2>1, <2>6, <3>2
      <3>3. CASE c1.u = 1 /\ c2.u = 0
        BY <1>1, <1>2, <1>6, <1>9, <2>1, <2>5, <3>3
      <3>4. CASE c1.u = 0 /\ c2.u = 0
        BY <1>1, <1>2, <1>4, <1>5, <1>6, <2>1, <2>7, <3>4
      <3>5. QED
        BY <1>1, <1>2, <3>1, <3>2, <3>3, <3>4
    <2>9. QED
      BY <2>8 DEF f, c1, c2, t1, t2
  <1>14. CASE ask.sel <= 3
    <2>1. /\ c1.u = 1 /\ c2.u = 1 => f = Acc(v1 * w1 + v2 * w2, 1, w1 + w2, 1)
          /\ c1.u = 0 /\ c2.u = 1 => f = Acc(v2 * w2, 1, w2, 1)
          /\ c1.u = 1 /\ c2.u = 0 => f = Acc(v1 * w1, 1, w1, 1)
          /\ c1.u = 0 /\ c2.u = 0 => f = Acc(v1, 0, 0, 1)
      <3> HIDE DEF t1, t2, c1, c2
      <3>1. QED
        BY <1>10, <1>14, FirstTwoIs
    <2>2. ~(ask.sel >= 5) /\ ask.sel # 4
      BY <1>10, <1>14
    <2> DEFINE x1 == v1 * w1
               x2 == v2 * w2
    <2> HIDE DEF f, c1, c2, v1, v2, t1, t2, w1, w2
    <2>3. ASSUME NEW x, NEW y, NEW u, x = w[2] \/ u = 0, y = s[2], u \in {0, 1}, (u = 1 <=> Seen(2)),
                 u = 0 => w[2] = 0 /\ p[2] = 0
          PROVE  Upto(Acc(x, u, y, 1), 2, w, s, p)
      <3> DEFINE g == Acc(x, u, y, 1)
      <3>1. g = Acc(g.sum, g.sumu, g.cnt, g.cntu) /\ g.sum = x /\ g.sumu = u /\ g.cnt = y
        BY <1>12
      <3> HIDE DEF g
      <3>2. Upto(g, 2, w, s, p)
        BY <2>2, <2>3, <3>1 DEF Upto
      <3>3. QED
        BY <3>2 DEF g
    <2>4. x1 \in Int /\ x2 \in Int /\ w1 \in Nat /\ w2 \in Nat
      BY <1>1, <1>2
    <2>5. /\ w[1] = IF 1 \in Valid THEN x1 ELSE 0
          /\ w[2] = IF 2 \in Valid THEN w[1] + x2 ELSE w[1]
      BY <1>4, <1>5
    <2>6. /\ c1.u = 1 /\ c2.u = 1 => f = Acc(x1 + x2, 1, w1 + w2, 1)
          /\ c1.u = 0 /\ c2.u = 1 => f = Acc(x2, 1, w2, 1)
          /\ c1.u = 1 /\ c2.u = 0 => f = Acc(x1, 1, w1, 1)
          /\ c1.u = 0 /\ c2.u = 0 => f = Acc(v1, 0, 0, 1)
      BY <2>1
    <2> HIDE DEF x1, x2
    <2>7. Upto(f, 2, w, s, p)
      <3>1. CASE c1.u = 1 /\ c2.u = 1
        <4>1. f = Acc(x1 + x2, 1, w1 + w2, 1) /\ x1 + x2 = w[2] /\ w1 + w2 = s[2] /\ Seen(2)
          BY <1>1, <1>2, <1>4, <1>5, <1>6, <2>4, <2>5, <2>6, <3>1
        <4>2. QED
          BY <2>3, <4>1
      <3>2. CASE c1.u = 0 /\ c2.u = 1
        <4>1. f = Acc(x2, 1, w2, 1) /\ x2 = w[2] /\ w2 = s[2] /\ Seen(2)
          BY <1>1, <1>2, <1>4, <1>5, <1>6, <2>4, <2>5, <2>6, <3>2
        <4>2. QED
          BY <2>3, <4>1
      <3>3. CASE c1.u = 1 /\ c2.u = 0
        <4>1. f = Acc(x1, 1, w1, 1) /\ x1 = w[2] /\ w1 = s[2] /\ Seen(2)
          BY <1>1, <1>2, <1>4, <1>5, <1>6, <2>4, <2>5, <2>6, <3>3
        <4>2. QED
          BY <2>3, <4>1
      <3>4. CASE c1.u = 0 /\ c2.u = 0
        <4>1. f = Acc(v1, 0, 0, 1) /\ w[2] = 0 /\ p[2] = 0 /\ 0 = s[2] /\ ~Seen(2)
          BY <1>1, <1>2, <1>4, <1>5, <1>6, <2>4, <2>5, <2>6, <3>4
        <4>2. QED
          BY <2>3, <4>1
      <3>5. QED
        BY <1>1, <1>2, <3>1, <3>2, <3>3, <3>4
    <2>8. QED
      BY <2>7 DEF f, c1, c2, t1, t2
  <1>15. CASE ask.sel = 4
    <2>1. f = CASE c1.u = 1 -> Acc(v1 + v2, 1, w1 + w2, 1)
                [] c1.u = 0 /\ c2.u = 1 -> Acc(v2, 1, v2, 1)
                [] c1.u = 0 /\ c2.u = 0 -> Acc(v1, 0, 0, 1)
      <3>1. ~(ask.sel >= 5) /\ ~(ask.sel <= 3)
        BY <1>15
      <3>2. QED
        BY <1>15, <3>1 DEF FirstTwo
    <2>2. ~(ask.sel >= 5) /\ ~(ask.sel <= 3)
      BY <1>15
    <2> HIDE DEF f, c1, c2, v1, v2, t1, t2, w1, w2
    <2>3. ASSUME NEW x, NEW y, NEW u, x = p[2] \/ u = 0 \/ SumgAddsMissing, u \in {0, 1},
                 (u = 1 <=> Seen(2)), u = 0 => w[2] = 0 /\ p[2] = 0
          PROVE  Upto(Acc(x, u, y, 1), 2, w, s, p)
      <3> DEFINE g == Acc(x, u, y, 1)
      <3>1. g = Acc(g.sum, g.sumu, g.cnt, g.cntu) /\ g.sum = x /\ g.sumu = u /\ g.cnt = y
        BY <1>12
      <3> HIDE DEF g
      <3>2. Upto(g, 2, w, s, p)
        BY <2>2, <2>3, <3>1 DEF Upto
      <3>3. QED
        BY <3>2 DEF g
    <2>4. CASE c1.u = 1
      <3>1. f = Acc(v1 + v2, 1, w1 + w2, 1) /\ Seen(2) /\ (v1 + v2 = p[2] \/ SumgAddsMissing)
        BY <1>1, <1>2, <1>4, <1>5, <1>6, <1>11, <1>15, <2>1, <2>4
      <3>2. Upto(f, 2, w, s, p)
        BY <2>3, <3>1
      <3>3. QED
        BY <3>2 DEF f, c1, c2, t1, t2
    <2>5. CASE c1.u = 0 /\ c2.u = 1
      <3>1. f = Acc(v2, 1, v2, 1) /\ Seen(2) /\ v2 = p[2]
        BY <1>1, <1>2, <1>4, <1>5, <1>6, <2>1, <2>5
      <3>2. Upto(f, 2, w, s, p)
        BY <2>3, <3>1
      <3>3. QED
        BY <3>2 DEF f, c1, c2, t1, t2
    <2>6. CASE c1.u = 0 /\ c2.u = 0
      <3>1. f = Acc(v1, 0, 0, 1) /\ ~Seen(2) /\ w[2] = 0 /\ p[2] = 0
        BY <1>1, <1>2, <1>4, <1>5, <1>6, <2>1, <2>6
      <3>2. Upto(f, 2, w, s, p)
        BY <2>3, <3>1
      <3>3. QED
        BY <3>2 DEF f, c1, c2, t1, t2
    <2>7. QED
      BY <1>1, <1>2, <2>4, <2>5, <2>6
  <1>16. QED
    BY <1>10, <1>13, <1>14, <1>15

-----------------------------------------------------------------------------
(* The call and the file stay what they are, and with them the reference.  *)

LEMMA CallStays ==
  ASSUME [Next]_vars
  PROVE  ask' = ask /\ var' = var
  BY DEF Next, Run, vars, GridFails, Fail, FirstGrid, SecondGrid, OneGrid, LoopEnds,
         Normalize, NotCovered, BeginChunk, ReadSpan, QueueRead, QueueFails, Perform,
         FoldIn, ChunkFails, Interrupt

LEMMA CellsStay ==
  ASSUME ask' = ask, var' = var
  PROVE  /\ \A t : Status(t)' = Status(t) /\ CellAt(t)' = CellAt(t) /\ Share(t)' = Share(t)
         /\ D1' = D1 /\ D2' = D2 /\ Total' = Total
         /\ \A i : InRange(i)' = InRange(i)
  <1>1. ASSUME NEW t PROVE Status(t)' = Status(t)
    BY DEF Status
  <1>2. ASSUME NEW t PROVE CellAt(t)' = CellAt(t)
    BY <1>1 DEF CellAt, NoCell, Cell, Undef
  <1>3. ASSUME NEW t PROVE Share(t)' = Share(t)
    BY DEF Share
  <1>4. D1' = D1 /\ D2' = D2
    BY DEF D1, D2
  <1>5. Total' = Total
    BY <1>4 DEF Total
  <1>6. ASSUME NEW i PROVE InRange(i)' = InRange(i)
    BY <1>4 DEF InRange
  <1>7. QED
    BY <1>1, <1>2, <1>3, <1>4, <1>5, <1>6

LEMMA RangeSame ==
  ASSUME ask' = ask, var' = var
  PROVE  \A i : /\ CellAt(InRange(i))' = CellAt(InRange(i))
                /\ Plain(InRange(i))' = Plain(InRange(i))
                /\ Share(InRange(i))' = Share(InRange(i))
                /\ Weighted(InRange(i))' = Weighted(InRange(i))
  <1>1. ASSUME NEW i PROVE CellAt(InRange(i))' = CellAt(InRange(i))
    BY CellsStay
  <1>2. ASSUME NEW i PROVE Share(InRange(i))' = Share(InRange(i))
    BY CellsStay
  <1>3. ASSUME NEW i PROVE Plain(InRange(i))' = Plain(InRange(i))
    BY <1>1 DEF Plain
  <1>4. ASSUME NEW i PROVE Weighted(InRange(i))' = Weighted(InRange(i))
    BY <1>1, <1>2 DEF Weighted
  <1>5. QED
    BY <1>1, <1>2, <1>3, <1>4

LEMMA ReferenceSame ==
  ASSUME ask' = ask, var' = var
  PROVE  /\ Valid' = Valid
         /\ WeightedIn' = WeightedIn /\ ShareIn' = ShareIn /\ PlainIn' = PlainIn
         /\ SumgAddsMissing' = SumgAddsMissing
         /\ \A i, j : AtLeastAsGood(i, j)' <=> AtLeastAsGood(i, j)
  <1>1. Total' = Total /\ D1' = D1
        /\ \A i : /\ CellAt(InRange(i))' = CellAt(InRange(i))
                  /\ Plain(InRange(i))' = Plain(InRange(i))
                  /\ Share(InRange(i))' = Share(InRange(i))
                  /\ Weighted(InRange(i))' = Weighted(InRange(i))
    BY CellsStay, RangeSame
  <1>2. Valid' = Valid
    BY <1>1 DEF Valid
  <1>3. WeightedIn' = WeightedIn
    BY <1>1, <1>2 DEF WeightedIn
  <1>4. ShareIn' = ShareIn
    BY <1>1, <1>2 DEF ShareIn
  <1>5. PlainIn' = PlainIn
    BY <1>1, <1>2 DEF PlainIn
  <1>6. SumgAddsMissing' = SumgAddsMissing
    BY <1>1, <1>2 DEF SumgAddsMissing
  <1>7. ASSUME NEW i, NEW j PROVE AtLeastAsGood(i, j)' <=> AtLeastAsGood(i, j)
    BY <1>1 DEF AtLeastAsGood
  <1>8. QED
    BY <1>2, <1>3, <1>4, <1>5, <1>6, <1>7

LEMMA UptoSame ==
  ASSUME ask' = ask, var' = var, NEW w, NEW s, NEW p
  PROVE  /\ Tables(w, s, p)' <=> Tables(w, s, p)
         /\ \A a, n : Upto(a, n, w, s, p)' <=> Upto(a, n, w, s, p)
  <1>1. /\ Valid' = Valid
        /\ WeightedIn' = WeightedIn /\ ShareIn' = ShareIn /\ PlainIn' = PlainIn
        /\ SumgAddsMissing' = SumgAddsMissing
        /\ \A i, j : AtLeastAsGood(i, j)' <=> AtLeastAsGood(i, j)
    BY ReferenceSame
  <1>2. Total' = Total
        /\ \A i : InRange(i)' = InRange(i) /\ Plain(InRange(i))' = Plain(InRange(i))
    BY CellsStay, RangeSame
  <1>3. Tables(w, s, p)' <=> Tables(w, s, p)
    BY <1>1, <1>2 DEF Tables, Table
  <1>4. ASSUME NEW b, NEW n PROVE BestOf(b, n)' <=> BestOf(b, n)
    BY <1>1 DEF BestOf
  <1>5. ASSUME NEW n PROVE Seen(n)' <=> Seen(n)
    BY <1>1 DEF Seen
  <1>6. ASSUME NEW a, NEW n PROVE Upto(a, n, w, s, p)' <=> Upto(a, n, w, s, p)
    BY <1>1, <1>2, <1>4, <1>5 DEF Upto, Acc
  <1>7. QED
    BY <1>3, <1>6

-----------------------------------------------------------------------------
(* A chunk.                                                                *)

(* While no read failed, every time of the chunk up to next that is        *)
(* written is read or will be by the next perform.                         *)
ReadInv ==
  pc = "queue" /\ ~rc =>
    \A k \in 0 .. next - 1 : Status(ChunkTime(k)) > 0 => ChunkTime(k) \in queued \cup filled

LEMMA ReadStays ==
  ASSUME AveAssumption, AveInv, FileInv, ReadInv, [Next]_vars
  PROVE  ReadInv'
  <1>1. ask' = ask /\ var' = var
    BY CallStays
  <1>2. \A t : Status(t)' = Status(t)
    BY <1>1, CellsStay
  <1>3. nstep \in Nat /\ next \in Nat /\ next <= nstep
    BY DEF AveInv, ChunkInv
  <1>4. SUFFICES ASSUME pc' = "queue", ~rc', NEW k \in 0 .. next' - 1, Status(ChunkTime(k))' > 0
                 PROVE  ChunkTime(k)' \in queued' \cup filled'
    BY DEF ReadInv
  <1>5. CASE BeginChunk
    BY <1>4, <1>5 DEF BeginChunk
  <1>6. ASSUME d' = d PROVE ChunkTime(k)' = ChunkTime(k) /\ Status(ChunkTime(k)) > 0
    BY <1>1, <1>2, <1>4, <1>6 DEF ChunkTime
  <1>7. CASE ReadSpan
    <2>1. filled' = {t \in ChunkTimes : t <= var.steps} /\ next' = nstep /\ Contiguous /\ d' = d
      BY <1>4, <1>7 DEF ReadSpan
    <2>2. ChunkTime(k) \in ChunkTimes /\ ChunkTime(k)' = ChunkTime(k)
      BY <1>3, <1>4, <1>6, <2>1 DEF ChunkTimes
    <2>3. Status(ChunkTime(k)) = 1
      BY <2>1, <2>2 DEF Contiguous
    <2>4. ChunkTime(k) <= var.steps
      <3> DEFINE t == ChunkTime(k)
      <3> HIDE DEF t
      <3>1. Status(t) = 1
        BY <2>3 DEF t
      <3>2. t \in 1 .. Steps /\ Steps \in Nat /\ var.steps \in 1 .. Steps
        BY <3>1, StatusWritten DEF FileInv, AveAssumption
      <3>3. t <= var.steps
        BY <3>1, <3>2 DEF Status
      <3>4. QED
        BY <3>3 DEF t
    <2>5. QED
      BY <2>1, <2>2, <2>4
  <1>8. CASE QueueRead
    <2>1. /\ next' = next + 1 /\ d' = d /\ filled' = filled /\ pc = "queue" /\ ~rc
          /\ queued' = IF Status(ChunkTime(next)) > 0 THEN queued \cup {ChunkTime(next)}
                       ELSE queued
      BY <1>8 DEF QueueRead, Queueing
    <2>2. ChunkTime(k)' = ChunkTime(k) /\ Status(ChunkTime(k)) > 0
      BY <1>6, <2>1
    <2>3. CASE k = next
      BY <2>1, <2>2, <2>3
    <2>4. CASE k \in 0 .. next - 1
      <3>1. ChunkTime(k) \in queued \cup filled
        BY <2>1, <2>2, <2>4 DEF ReadInv
      <3>2. QED
        BY <2>1, <2>2, <3>1
    <2>5. QED
      BY <1>3, <1>4, <2>1, <2>3, <2>4
  <1>9. CASE Perform
    <2>1. /\ next' = next /\ d' = d /\ pc = "queue" /\ queued' = {}
          /\ filled' = filled \cup queued /\ ~rc
      BY <1>4, <1>9 DEF Perform, Queued
    <2>2. ChunkTime(k)' = ChunkTime(k) /\ Status(ChunkTime(k)) > 0
      BY <1>6, <2>1
    <2>3. ChunkTime(k) \in queued \cup filled
      BY <1>4, <2>1, <2>2 DEF ReadInv
    <2>4. QED
      BY <2>1, <2>2, <2>3
  <1>10. CASE UNCHANGED <<d, pc, rc, next, queued, filled>>
    <2>1. ChunkTime(k)' = ChunkTime(k) /\ Status(ChunkTime(k)) > 0
      BY <1>6, <1>10
    <2>2. ChunkTime(k) \in queued \cup filled
      BY <1>4, <1>10, <2>1 DEF ReadInv
    <2>3. QED
      BY <1>10, <2>1, <2>2
  <1>11. CASE NotCovered \/ Interrupt \/ UNCHANGED vars
    BY <1>10, <1>11 DEF NotCovered, Interrupt, vars, chunkvars
  <1>12. CASE GridFails \/ FirstGrid \/ SecondGrid \/ OneGrid \/ LoopEnds \/ Normalize
              \/ QueueFails \/ FoldIn \/ ChunkFails
    BY <1>4, <1>12 DEF GridFails, Fail, FirstGrid, SecondGrid, OneGrid, LoopEnds, Normalize,
                       QueueFails, FoldIn, ChunkFails
  <1>13. QED
    BY <1>5, <1>7, <1>8, <1>9, <1>11, <1>12 DEF Next, Run

(* The chunk goes into the running result time by time.                    *)
LEMMA ChunkAdded ==
  ASSUME AveAssumption, AveInv, TimesInv, ReadInv, FileFacts, Settled, ~rc,
         NEW w, NEW s, NEW p, Tables(w, s, p), Upto(acc, Len(times), w, s, p)
  PROVE  Upto(FoldChunk, Len(times) + nstep, w, s, p)
  <1> DEFINE g == Len(times)
  <1>1. /\ nstep \in Nat /\ D1 \in Int /\ D2 \in Int /\ g \in Nat /\ ask.incr \in Nat
        /\ d = D1 + g * ask.incr
    BY DEF AveInv, ChunkInv, RangeInv, TimesInv
  <1>2. PICK a : FoldUpto(a, nstep) /\ FoldChunk = a[nstep]
    BY <1>1, FoldChunkIs
  <1>3. pc = "queue" /\ next = nstep /\ queued = {}
    BY DEF Settled, Queued
  <1> DEFINE S == {k \in Nat : k <= nstep => Upto(a[k], g + k, w, s, p)}
  <1>4. 0 \in S
    <2>1. a[0] = acc /\ g + 0 = g
      BY <1>1, <1>2 DEF FoldUpto
    <2>2. QED
      BY <2>1
  <1>5. ASSUME NEW k \in Nat, k \in S PROVE k + 1 \in S
    <2>1. SUFFICES ASSUME k + 1 <= nstep PROVE Upto(a[k + 1], g + (k + 1), w, s, p)
      OBVIOUS
    <2>2. Upto(a[k], g + k, w, s, p) /\ k < nstep
      BY <1>1, <1>5, <2>1
    <2>3. a[k + 1] = Accumulate(a[k], ChunkTime(k), Read(ChunkTime(k)))
      <3>1. k + 1 \in 0 .. nstep /\ k + 1 # 0 /\ (k + 1) - 1 = k
        BY <1>1, <2>1
      <3>2. QED
        BY <1>2, <3>1 DEF FoldUpto
    <2>4. ChunkTime(k) \in D1 .. D2
      BY <1>3, <2>2, ChunkWithin
    <2>5. Read(ChunkTime(k)) = CellAt(ChunkTime(k))
      <3> DEFINE t == ChunkTime(k)
      <3>1. Status(t) > 0 => t \in filled
        BY <1>1, <1>3, <2>2 DEF ReadInv
      <3>2. Status(t) \in {0, 1, 2}
        BY <1>1, <2>4 DEF Status, FileFacts, FileInv, AveAssumption
      <3> HIDE DEF t
      <3>3. CASE Status(t) = 0
        BY <3>3 DEF Read, CellAt, t
      <3>4. CASE Status(t) > 0
        BY <3>1, <3>2, <3>4 DEF Read, t
      <3>5. QED
        BY <3>2, <3>3, <3>4
    <2>6. ChunkTime(k) = InRange(g + k + 1)
      <3> DEFINE n == ask.incr
                 x == g * n
                 y == k * n
      <3>1. (g + k) * n = x + y /\ x \in Int /\ y \in Int
        <4> HIDE DEF n, g
        <4>1. QED
          BY <1>1, SumTimes DEF n
      <3>2. (g + k + 1) - 1 = g + k
        BY <1>1
      <3>3. InRange(g + k + 1) = D1 + (g + k) * n
        BY <3>2 DEF InRange
      <3>4. ChunkTime(k) = d + y /\ d = D1 + x
        BY <1>1 DEF ChunkTime
      <3> HIDE DEF n, x, y
      <3>5. QED
        BY <1>1, <3>1, <3>3, <3>4
    <2>7. g + k + 1 \in 1 .. Total
      <3>1. g + k + 1 \in Nat /\ g + k + 1 # 0 /\ InRange(g + k + 1) <= D2
        BY <1>1, <2>4, <2>6
      <3>2. QED
        BY <3>1, InTotal DEF AveInv
    <2>8. a[k + 1] = Accumulate(a[k], InRange(g + k + 1), CellAt(InRange(g + k + 1)))
      BY <2>3, <2>5, <2>6
    <2> DEFINE m == g + k
               e == a[k]
    <2>9. m \in Nat /\ m + 1 \in 1 .. Total /\ g + (k + 1) = m + 1
      BY <1>1, <2>7
    <2>10. Upto(e, m, w, s, p)
      BY <2>2
    <2> HIDE DEF m, e
    <2>11. Upto(Accumulate(e, InRange(m + 1), CellAt(InRange(m + 1))), m + 1, w, s, p)
      BY <2>9, <2>10, OneAdded
    <2>12. QED
      BY <2>8, <2>9, <2>11 DEF m, e
  <1> HIDE DEF S
  <1>6. Nat \subseteq S
    BY <1>4, <1>5, NatInSet
  <1>7. QED
    BY <1>1, <1>2, <1>6 DEF S

-----------------------------------------------------------------------------
(* The answer.                                                             *)

(* The answer after all times is the one the definition gives.             *)
LEMMA AllAnswered ==
  ASSUME AveAssumption, FileFacts, NEW w, NEW s, NEW p, Tables(w, s, p),
         Upto(acc, Total, w, s, p)
  PROVE  IsReference \/ SumgAddsMissing
  <1>1. Total \in Nat /\ Total # 0
    BY TablesNumbers
  <1>2. ask.sel \in 1 .. 8
    BY DEF FileFacts, FileInv
  <1>3. Valid \subseteq 1 .. Total /\ (Seen(Total) <=> Valid # {})
    BY DEF Valid, Seen
  <1>4. acc.sumu \in {0, 1} /\ (acc.sumu = 1 <=> Valid # {})
    BY <1>3 DEF Upto
  <1>5. Result.u = acc.sumu
    BY <1>2 DEF Result, Fraction
  <1>6. CASE Valid = {}
    <2>1. Reference.u = 0
      BY <1>6 DEF Reference, Fraction
    <2>2. QED
      BY <1>4, <1>5, <1>6, <2>1 DEF IsReference
  <1>7. CASE Valid # {}
    <2>1. acc.sumu = 1
      BY <1>4, <1>7
    <2>2. Result = Reference => IsReference
      BY DEF IsReference
    <2>3. CASE ask.sel \in {1, 2}
      <3>1. Result = Fraction(w[Total], s[Total], 1)
        BY <2>1, <2>3 DEF Result, Upto
      <3>2. SumOf(Weighted) = w[Total] /\ SumOf(Share) = s[Total]
        BY <1>1, SumOfWeighted, SumOfShare DEF Tables
      <3> DEFINE x == w[Total]
                 h == s[Total]
      <3>3. SumOf(Weighted) = x /\ SumOf(Share) = h
        BY <3>2
      <3> HIDE DEF x, h
      <3>4. Reference = Fraction(x, h, 1)
        <4>1. ask.sel \notin {5, 6} /\ ask.sel \notin {7, 8} /\ ask.sel # 3 /\ ask.sel # 4
          BY <2>3
        <4>2. QED
          BY <1>7, <2>3, <3>3, <4>1, Zenon DEF Reference
      <3>5. QED
        BY <2>2, <3>1, <3>4 DEF x, h
    <2>4. CASE ask.sel = 3
      <3>1. Result = Fraction(w[Total], 2, 1)
        BY <2>1, <2>4 DEF Result, Upto
      <3>2. SumOf(Weighted) = w[Total]
        BY <1>1, SumOfWeighted DEF Tables
      <3>3. Reference = Fraction(SumOf(Weighted), 2, 1)
        BY <1>7, <2>4 DEF Reference
      <3>4. QED
        BY <2>2, <3>1, <3>2, <3>3
    <2>5. CASE ask.sel = 4
      <3>1. SUFFICES ASSUME ~SumgAddsMissing PROVE IsReference
        OBVIOUS
      <3>2. Result = Fraction(p[Total], 1, 1)
        BY <2>1, <2>5, <3>1 DEF Result, Upto
      <3>3. SumOf(Plain) = p[Total]
        BY <1>1, SumOfPlain DEF Tables
      <3>4. Reference = Fraction(SumOf(Plain), 1, 1)
        BY <1>7, <2>5 DEF Reference
      <3>5. QED
        BY <2>2, <3>2, <3>3, <3>4
    <2>6. CASE ask.sel \in 5 .. 8
      <3>1. ask.sel >= 5
        BY <2>6
      <3>2. PICK b \in 1 .. Total :
              BestOf(b, Total) /\ acc.sum = Plain(InRange(b)) /\ acc.cnt = InRange(b)
        BY <2>1, <3>1 DEF Upto
      <3>3. Best = b
        <4> DEFINE Is(i) == \A j \in Valid : AtLeastAsGood(i, j) /\ (AtLeastAsGood(j, i) => i <= j)
        <4>1. b \in Valid /\ Is(b)
          BY <1>1, <1>3, <3>2 DEF BestOf
        <4>2. Best = CHOOSE i \in Valid : Is(i)
          BY DEF Best
        <4>3. Best \in Valid /\ Is(Best)
          BY <4>1, <4>2
        <4>4. b <= Best /\ Best <= b
          BY <4>1, <4>3
        <4>5. QED
          BY <1>1, <1>3, <4>1, <4>3, <4>4
      <3>4. CASE ask.sel \in {5, 6}
        <4>1. Result = Fraction(Plain(InRange(b)), 1, 1)
          BY <2>1, <3>2, <3>4 DEF Result
        <4>2. Reference = Fraction(Plain(InRange(b)), 1, 1)
          BY <1>7, <3>3, <3>4 DEF Reference
        <4>3. QED
          BY <2>2, <4>1, <4>2
      <3>5. CASE ask.sel \in {7, 8}
        <4>1. Result = Fraction(InRange(b), 1, 1)
          BY <2>1, <3>2, <3>5 DEF Result
        <4>2. Reference = Fraction(InRange(b), 1, 1)
          BY <1>7, <3>3, <3>5 DEF Reference
        <4>3. QED
          BY <2>2, <4>1, <4>2
      <3>6. QED
        BY <2>6, <3>4, <3>5
    <2>7. QED
      BY <1>2, <2>3, <2>4, <2>5, <2>6
  <1>8. QED
    BY <1>6, <1>7

(* The answer over a range of one time.                                    *)
OnlyOne(a) ==
  LET c == CellAt(D1) IN
  /\ Total = 1
  /\ a = IF ask.sel \in {1, 2, 7, 8} THEN Acc(c.val, c.u, IF ask.sel < 3 THEN 1 ELSE D1, c.u)
         ELSE IF ask.sel = 3 THEN Acc(2 * c.val, c.u, 0, 0)
         ELSE Acc(c.val, c.u, 0, 0)

LEMMA OneAnswered ==
  ASSUME AveAssumption, FileFacts, OnlyOne(acc)
  PROVE  IsReference \/ SumOfOne
  <1> DEFINE c == CellAt(D1)
             x == Plain(D1)
             h == Share(D1)
  <1>1. Total = 1 /\ Total \in Nat /\ 1 \in 1 .. Total
    BY DEF OnlyOne
  <1>2. InRange(1) = D1
    BY DEF InRange, FileFacts, RangeInv
  <1>3. /\ x = c.val /\ x \in Int /\ c.u \in {0, 1} /\ (1 \in Valid <=> c.u = 1)
        /\ h \in Nat /\ Weighted(D1) = x * h /\ x * h \in Int /\ D1 \in Int
    <2>1. /\ Plain(InRange(1)) = CellAt(InRange(1)).val /\ Plain(InRange(1)) \in Int
          /\ CellAt(InRange(1)).u \in {0, 1}
          /\ 1 \in Valid <=> CellAt(InRange(1)).u = 1
          /\ Weight(InRange(1)) = Share(InRange(1)) /\ Share(InRange(1)) \in Nat
          /\ Weighted(InRange(1)) = Plain(InRange(1)) * Weight(InRange(1))
          /\ Weighted(InRange(1)) \in Int /\ InRange(1) \in Int
      BY <1>1, TimeFacts
    <2>2. QED
      BY <1>2, <2>1
  <1>4. Valid \subseteq {1}
    BY <1>1 DEF Valid
  <1>5. ask.sel \in 1 .. 8
    BY DEF FileFacts, FileInv
  <1>6. PICK w, s, p : Tables(w, s, p)
    BY <1>1, TablesThere
  <1>7. 1 \in Valid => SumOf(Weighted) = x * h /\ SumOf(Share) = h /\ SumOf(Plain) = x
    <2>1. SumOf(Weighted) = w[1] /\ SumOf(Share) = s[1] /\ SumOf(Plain) = p[1]
      BY <1>1, <1>6, SumOfWeighted, SumOfShare, SumOfPlain DEF Tables
    <2>2. 0 \in Nat /\ 0 + 1 = 1
      OBVIOUS
    <2>3. /\ 1 \in Valid => /\ w[1] = w[0] + Weighted(D1)
                            /\ s[1] = s[0] + Share(D1)
                            /\ p[1] = p[0] + Plain(D1)
          /\ w[0] = 0 /\ s[0] = 0 /\ p[0] = 0
      BY <1>1, <1>2, <1>6, <2>2, TablesStep
    <2> HIDE DEF c, x, h
    <2>4. QED
      BY <1>3, <2>1, <2>3 DEF x, h
  <1>8. ASSUME 1 \in Valid PROVE Best = 1
    <2>1. Valid = {1}
      BY <1>4, <1>8
    <2>2. AtLeastAsGood(1, 1)
      BY <1>2, <1>3 DEF AtLeastAsGood
    <2> DEFINE Is(i) == \A j \in Valid : AtLeastAsGood(i, j) /\ (AtLeastAsGood(j, i) => i <= j)
    <2>3. 1 \in Valid /\ Is(1)
      BY <2>1, <2>2
    <2>4. Best = CHOOSE i \in Valid : Is(i)
      BY DEF Best
    <2>5. Best \in Valid
      BY <2>3, <2>4
    <2>6. QED
      BY <2>1, <2>5
  <1>9. ASSUME NEW y, NEW u, NEW k, NEW z
        PROVE  LET g == Acc(y, u, k, z) IN g.sum = y /\ g.sumu = u /\ g.cnt = k
    BY DEF Acc
  <1>10. acc = IF ask.sel \in {1, 2, 7, 8} THEN Acc(x, c.u, IF ask.sel < 3 THEN 1 ELSE D1, c.u)
               ELSE IF ask.sel = 3 THEN Acc(2 * x, c.u, 0, 0)
               ELSE Acc(x, c.u, 0, 0)
    BY <1>3 DEF OnlyOne
  <1> HIDE DEF c, x, h
  <1>11. acc.sumu = c.u
    BY <1>9, <1>10
  <1>12. Result.u = c.u
    BY <1>5, <1>11 DEF Result, Fraction
  <1>13. CASE 1 \notin Valid
    <2>1. Valid = {}
      BY <1>4, <1>13
    <2>2. Reference.u = 0 /\ c.u = 0
      BY <1>3, <1>13, <2>1 DEF Reference, Fraction
    <2>3. QED
      BY <1>12, <2>2 DEF IsReference
  <1>14. CASE 1 \in Valid
    <2>1. Valid # {} /\ c.u = 1
      BY <1>3, <1>14
    <2>2. ASSUME NEW f, NEW r, f = Result, r = Reference, f.u = r.u, f.num * r.den = r.num * f.den
          PROVE  IsReference
      BY <2>2 DEF IsReference
    <2>3. Result = Reference => IsReference
      BY DEF IsReference
    <2>4. CASE ask.sel \in {1, 2}
      <3>1. acc = Acc(x, 1, 1, 1)
        BY <1>10, <2>1, <2>4
      <3>2. acc.sum = x /\ acc.cnt = 1 /\ acc.sumu = 1
        BY <1>9, <3>1
      <3>3. Result = Fraction(x, 1, 1)
        BY <2>4, <3>2 DEF Result
      <3>4. Reference = Fraction(x * h, h, 1)
        BY <1>7, <1>14, <2>1, <2>4 DEF Reference
      <3> DEFINE f == Fraction(x, 1, 1)
                 y == x * h
                 r == Fraction(y, h, 1)
      <3>5. f.num = x /\ f.den = 1 /\ f.u = 1 /\ r.num = y /\ r.den = h /\ r.u = 1
        BY DEF Fraction
      <3>6. f = Result /\ r = Reference
        BY <3>3, <3>4
      <3> HIDE DEF f, r
      <3>7. x * h = y /\ y * 1 = y
        BY <1>3
      <3> HIDE DEF y
      <3>8. f.num * r.den = r.num * f.den
        BY <3>5, <3>7
      <3>9. QED
        BY <2>2, <3>5, <3>6, <3>8
    <2>5. CASE ask.sel = 3
      <3>1. SUFFICES ASSUME h = 2 PROVE IsReference
        BY <1>1, <2>5 DEF SumOfOne, h
      <3>2. acc.sum = 2 * x /\ acc.sumu = 1
        BY <1>9, <1>10, <2>1, <2>5
      <3>3. Result = Fraction(2 * x, 2, 1)
        BY <2>5, <3>2 DEF Result
      <3>4. Reference = Fraction(x * h, 2, 1)
        BY <1>7, <1>14, <2>1, <2>5 DEF Reference
      <3>5. x * h = 2 * x
        BY <1>3, <3>1
      <3>6. QED
        BY <2>3, <3>3, <3>4, <3>5
    <2>6. CASE ask.sel = 4
      <3>1. acc.sum = x /\ acc.sumu = 1
        BY <1>9, <1>10, <2>1, <2>6
      <3>2. Result = Fraction(x, 1, 1)
        BY <2>6, <3>1 DEF Result
      <3>3. Reference = Fraction(x, 1, 1)
        BY <1>7, <1>14, <2>1, <2>6 DEF Reference
      <3>4. QED
        BY <2>3, <3>2, <3>3
    <2>7. CASE ask.sel \in {5, 6}
      <3>1. acc.sum = x /\ acc.sumu = 1
        BY <1>9, <1>10, <2>1, <2>7
      <3>2. Result = Fraction(x, 1, 1)
        BY <2>7, <3>1 DEF Result
      <3>3. Reference = Fraction(x, 1, 1)
        BY <1>2, <1>8, <1>14, <2>1, <2>7 DEF Reference, x
      <3>4. QED
        BY <2>3, <3>2, <3>3
    <2>8. CASE ask.sel \in {7, 8}
      <3>1. acc = Acc(x, 1, D1, 1)
        BY <1>10, <2>1, <2>8
      <3>2. acc.cnt = D1 /\ acc.sumu = 1
        BY <1>9, <3>1
      <3>3. Result = Fraction(D1, 1, 1)
        BY <2>8, <3>2 DEF Result
      <3>4. Reference = Fraction(D1, 1, 1)
        BY <1>2, <1>8, <1>14, <2>1, <2>8 DEF Reference
      <3>5. QED
        BY <2>3, <3>3, <3>4
    <2>9. QED
      BY <1>5, <2>4, <2>5, <2>6, <2>7, <2>8
  <1>15. QED
    BY <1>13, <1>14

-----------------------------------------------------------------------------
(* The function implements TimeFold.                                       *)

(* The running result is that of the times taken.                          *)
Folded == \E a, n, w, s, p : a = acc /\ n = prog /\ Tables(w, s, p) /\ Upto(a, n, w, s, p)

FoldInv ==
  /\ pc = "second" => acc = Acc(CellAt(D1).val, CellAt(D1).u, 0, 0)
  /\ pc \in {"loop", "queue", "end"} => Folded
  /\ pc \in {"end", "done"} => prog = Total
  /\ pc = "done" => OnlyOne(acc) \/ Folded

LEMMA FoldedNext ==
  ASSUME ask' = ask, var' = var,
         NEW w, NEW s, NEW p, Tables(w, s, p), NEW a, NEW n, a = acc', n = prog',
         Upto(a, n, w, s, p)
  PROVE  Folded'
  <1>1. Tables(w, s, p)' /\ Upto(a, n, w, s, p)'
    BY UptoSame
  <1>2. QED
    BY <1>1 DEF Folded

LEMMA FoldedStays ==
  ASSUME ask' = ask, var' = var, acc' = acc, prog' = prog, Folded
  PROVE  Folded'
  <1>1. PICK w, s, p : Tables(w, s, p) /\ Upto(acc, prog, w, s, p)
    BY DEF Folded
  <1>2. QED
    BY <1>1, FoldedNext

LEMMA OnlyOneNext ==
  ASSUME ask' = ask, var' = var, OnlyOne(acc')
  PROVE  OnlyOne(acc)'
  <1>1. CellAt(D1)' = CellAt(D1) /\ D1' = D1 /\ Total' = Total
    BY CellsStay
  <1>2. QED
    BY <1>1 DEF OnlyOne, Acc

(* The position and the number of times taken.                             *)
LEMMA NextTime ==
  ASSUME AveInv, TimesInv
  PROVE  /\ prog \in Nat /\ prog = Len(times) /\ d = InRange(prog + 1)
         /\ d <= D2 <=> prog + 1 \in 1 .. Total
         /\ Total \in Nat /\ Total # 0 /\ prog <= Total
  <1>1. prog \in Nat /\ prog = Len(times) /\ d = D1 + prog * ask.incr
    BY DEF TimesInv
  <1>2. RangeInv /\ LoopInv
    BY DEF AveInv
  <1>3. prog + 1 \in Nat /\ prog + 1 # 0 /\ (prog + 1) - 1 = prog
    BY <1>1
  <1>4. d = InRange(prog + 1)
    BY <1>1, <1>3 DEF InRange
  <1>5. (d <= D2 <=> prog + 1 \in 1 .. Total) /\ Total \in Nat /\ Total # 0
    BY <1>2, <1>3, <1>4, InTotal
  <1>6. prog <= Total
    BY <1>2, NoMoreThanTotal
  <1>7. QED
    BY <1>1, <1>4, <1>5, <1>6

LEMMA FoldStays ==
  ASSUME AveAssumption, AveInv, TimesInv, ReadInv, FileFacts, FoldInv, [Next]_vars
  PROVE  FoldInv'
  <1>1. ask' = ask /\ var' = var
    BY CallStays
  <1>2. Total' = Total /\ D1' = D1 /\ CellAt(D1)' = CellAt(D1)
    BY <1>1, CellsStay
  <1>3. /\ prog \in Nat /\ prog = Len(times) /\ d = InRange(prog + 1)
        /\ d <= D2 <=> prog + 1 \in 1 .. Total
        /\ Total \in Nat /\ Total # 0 /\ prog <= Total
    BY NextTime
  <1>4. D1 \in Int /\ D2 \in Int /\ d \in Int /\ ask.incr \in Nat
    BY DEF AveInv, RangeInv, LoopInv
  <1>5. CASE FirstGrid
    <2>1. prog = 0 /\ d = D1 /\ InRange(1) = D1 /\ InRange(2) = D1 + ask.incr
      <3>1. prog = 0
        BY <1>5 DEF FirstGrid, TimesInv
      <3>2. InRange(1) = D1
        BY <1>4 DEF InRange
      <3>3. InRange(1 + 1) = InRange(1) + ask.incr
        BY InTotal DEF AveInv
      <3>4. QED
        BY <1>3, <3>1, <3>2, <3>3
    <2>2. d + ask.incr > D2 => Total = 1
      <3>1. InRange(2) <= D2 <=> 2 \in 1 .. Total
        BY InTotal DEF AveInv
      <3>2. QED
        BY <1>3, <1>4, <2>1, <3>1
    <2>3. prog' = 1 /\ pc' = IF d + ask.incr > D2 THEN "done" ELSE "second"
      BY <1>5 DEF FirstGrid
    <2>4. CASE d + ask.incr > D2
      <3>1. acc' = IF ask.sel \in {1, 2, 7, 8}
                   THEN Acc(CellAt(d).val, CellAt(d).u, IF ask.sel < 3 THEN 1 ELSE d, CellAt(d).u)
                   ELSE IF ask.sel = 3 THEN Acc(2 * CellAt(d).val, CellAt(d).u, 0, 0)
                   ELSE Acc(CellAt(d).val, CellAt(d).u, 0, 0)
        BY <1>5, <2>4 DEF FirstGrid
      <3>2. OnlyOne(acc')
        BY <2>1, <2>2, <2>4, <3>1 DEF OnlyOne
      <3>3. OnlyOne(acc)'
        BY <1>1, <3>2, OnlyOneNext
      <3>4. pc' = "done" /\ prog' = Total'
        BY <1>2, <2>2, <2>3, <2>4
      <3>5. QED
        BY <3>3, <3>4 DEF FoldInv
    <2>5. CASE ~(d + ask.incr > D2)
      <3>1. acc' = Acc(CellAt(D1).val, CellAt(D1).u, 0, 0)
        BY <1>5, <2>1, <2>5 DEF FirstGrid
      <3>2. pc' = "second"
        BY <2>3, <2>5
      <3>3. QED
        BY <1>2, <3>1, <3>2 DEF FoldInv, Acc
    <2>6. QED
      BY <2>4, <2>5
  <1>6. CASE SecondGrid
    <2>1. prog = 1 /\ d <= D2 /\ acc = Acc(CellAt(D1).val, CellAt(D1).u, 0, 0)
      BY <1>6 DEF SecondGrid, TimesInv, AveInv, LoopInv, FoldInv
    <2>2. 2 \in 1 .. Total /\ d = InRange(2) /\ D1 = InRange(1)
      <3>1. InRange(1) = D1
        BY <1>4 DEF InRange
      <3>2. QED
        BY <1>3, <2>1, <3>1
    <2>3. Cell(acc.sum, acc.sumu) = CellAt(D1)
      <3>1. CellAt(D1) = Cell(CellAt(D1).val, CellAt(D1).u)
        BY <1>4, CellNumber DEF FileFacts
      <3>2. acc.sum = CellAt(D1).val /\ acc.sumu = CellAt(D1).u
        BY <2>1 DEF Acc
      <3>3. QED
        BY <3>1, <3>2
    <2>4. acc' = FirstTwo(InRange(1), CellAt(InRange(1)), InRange(2), CellAt(InRange(2)))
          /\ prog' = 2 /\ pc' = "loop"
      BY <1>6, <2>2, <2>3 DEF SecondGrid
    <2>5. PICK w, s, p : Tables(w, s, p)
      BY <1>3, TablesThere
    <2>6. Upto(acc', prog', w, s, p)
      BY <2>2, <2>4, <2>5, TwoAdded
    <2>7. Folded'
      BY <1>1, <2>5, <2>6, FoldedNext
    <2>8. QED
      BY <2>4, <2>7 DEF FoldInv
  <1>7. CASE OneGrid
    <2>1. PICK w, s, p : Tables(w, s, p) /\ Upto(acc, prog, w, s, p)
      BY <1>7 DEF OneGrid, FoldInv, Folded
    <2>2. prog + 1 \in 1 .. Total /\ prog' = prog + 1 /\ pc' = "loop"
          /\ acc' = Accumulate(acc, InRange(prog + 1), CellAt(InRange(prog + 1)))
      BY <1>3, <1>7 DEF OneGrid
    <2>3. Upto(Accumulate(acc, InRange(prog + 1), CellAt(InRange(prog + 1))), prog + 1, w, s, p)
      BY <1>3, <2>1, <2>2, OneAdded
    <2>4. Upto(acc', prog', w, s, p)
      BY <2>2, <2>3
    <2>5. Folded'
      BY <1>1, <2>1, <2>4, FoldedNext
    <2>6. QED
      BY <2>2, <2>5 DEF FoldInv
  <1>8. CASE FoldIn
    <2>1. Settled /\ ~rc /\ pc' = "loop" /\ acc' = FoldChunk /\ prog' = prog + nstep
      BY <1>8 DEF FoldIn
    <2>2. PICK w, s, p : Tables(w, s, p) /\ Upto(acc, prog, w, s, p)
      BY <2>1 DEF Settled, Queued, FoldInv, Folded
    <2>3. Upto(FoldChunk, Len(times) + nstep, w, s, p)
      BY <1>3, <2>1, <2>2, ChunkAdded
    <2>4. Upto(acc', prog', w, s, p)
      BY <1>3, <2>1, <2>3
    <2>5. Folded'
      BY <1>1, <2>2, <2>4, FoldedNext
    <2>6. QED
      BY <2>1, <2>5 DEF FoldInv
  <1>9. CASE LoopEnds
    <2>1. prog = Total
      BY <1>3, <1>4, <1>9 DEF LoopEnds
    <2>2. Folded'
      BY <1>1, <1>9, FoldedStays DEF LoopEnds, FoldInv
    <2>3. QED
      BY <1>2, <1>9, <2>1, <2>2 DEF LoopEnds, FoldInv
  <1>10. CASE Normalize
    <2>1. Folded'
      BY <1>1, <1>10, FoldedStays DEF Normalize, FoldInv
    <2>2. prog' = Total' /\ pc' \in {"failed", "done"}
      BY <1>2, <1>10 DEF Normalize, FoldInv
    <2>3. QED
      BY <2>1, <2>2 DEF FoldInv
  <1>11. CASE GridFails \/ ChunkFails
    <2>1. pc' = "failed"
      BY <1>11 DEF GridFails, ChunkFails, Fail
    <2>2. QED
      BY <2>1 DEF FoldInv
  <1>12. CASE /\ UNCHANGED <<acc, prog>>
              /\ pc' = pc \/ (pc = "loop" /\ pc' = "queue")
    <2>1. Folded => Folded'
      BY <1>1, <1>12, FoldedStays
    <2>2. OnlyOne(acc) => OnlyOne(acc)'
      BY <1>1, <1>12, OnlyOneNext
    <2>3. pc = "second" => acc' = Acc(CellAt(D1).val, CellAt(D1).u, 0, 0)
      BY <1>12 DEF FoldInv
    <2>4. pc' = "second" => acc' = Acc(CellAt(D1)'.val, CellAt(D1)'.u, 0, 0)
      BY <1>2, <1>12, <2>3
    <2>5. QED
      BY <1>2, <1>12, <2>1, <2>2, <2>4 DEF FoldInv, Acc
  <1>13. CASE NotCovered \/ BeginChunk \/ ReadSpan \/ QueueRead \/ QueueFails \/ Perform
              \/ Interrupt \/ UNCHANGED vars
    BY <1>12, <1>13 DEF NotCovered, BeginChunk, ReadSpan, QueueRead, QueueFails, Perform,
                        Interrupt, vars
  <1>14. QED
    BY <1>5, <1>6, <1>7, <1>8, <1>9, <1>10, <1>11, <1>13 DEF Next, Run

(* The outcome the refinement shows.                                       *)
Outcome == CASE pc = "done" -> IF IsReference \/ SumgAddsMissing \/ SumOfOne
                               THEN "right" ELSE "wrong"
             [] pc = "failed" -> "failed"
             [] pc \notin {"done", "failed"} -> "none"

RightInv == pc = "done" => prog = Total /\ (IsReference \/ SumgAddsMissing \/ SumOfOne)

LEMMA RightAnswer ==
  ASSUME AveAssumption, FileFacts, FoldInv
  PROVE  RightInv
  <1>1. SUFFICES ASSUME pc = "done"
                 PROVE  prog = Total /\ (IsReference \/ SumgAddsMissing \/ SumOfOne)
    BY DEF RightInv
  <1>2. prog = Total
    BY <1>1 DEF FoldInv
  <1>3. CASE OnlyOne(acc)
    BY <1>2, <1>3, OneAnswered
  <1>4. CASE Folded
    <2>1. PICK w, s, p : Tables(w, s, p) /\ Upto(acc, prog, w, s, p)
      BY <1>4 DEF Folded
    <2>2. QED
      BY <1>2, <2>1, AllAnswered
  <1>5. QED
    BY <1>1, <1>3, <1>4 DEF FoldInv

LEMMA OutcomeIs ==
  /\ pc \notin {"done", "failed"} => Outcome = "none"
  /\ pc = "failed" => Outcome = "failed"
  /\ pc = "done" /\ RightInv => Outcome = "right"
  <1>1. CASE pc = "done"
    BY <1>1 DEF Outcome, RightInv
  <1>2. CASE pc = "failed"
    BY <1>2 DEF Outcome
  <1>3. CASE pc \notin {"done", "failed"}
    BY <1>3 DEF Outcome
  <1>4. QED
    BY <1>1, <1>2, <1>3

OutcomeFacts ==
  /\ prog \in Nat /\ prog = Len(times) /\ prog <= Total /\ Total \in Nat
  /\ pc \notin {"done", "failed"} => Outcome = "none"
  /\ pc = "failed" => Outcome = "failed"
  /\ pc = "done" => prog = Total /\ Outcome = "right"

LEMMA OutcomeKnown ==
  ASSUME AveAssumption, AveInv, TimesInv, FileFacts, FoldInv
  PROVE  OutcomeFacts
  <1>1. RightInv
    BY RightAnswer
  <1>2. QED
    BY <1>1, OutcomeIs, NextTime DEF OutcomeFacts, RightInv

LEMMA FoldStep ==
  ASSUME AveAssumption, AveInv, TimesInv, OutcomeFacts, OutcomeFacts', [Next]_vars
  PROVE  [Fold!Next]_(Fold!foldvars)
  <1>1. Total' = Total
    BY CallStays, CellsStay
  <1>2. OutcomeFacts /\ prog' \in Nat /\ prog' = Len(times') /\ prog' <= Total
        /\ (pc' \notin {"done", "failed"} => Outcome' = "none")
        /\ (pc' = "failed" => Outcome' = "failed")
        /\ (pc' = "done" => prog' = Total /\ Outcome' = "right")
    BY <1>1 DEF OutcomeFacts
  <1>3. ASSUME pc \notin {"done", "failed"}, pc' \notin {"done", "failed"}, prog' > prog
        PROVE  Fold!Take
    <2>1. Outcome = "none" /\ Outcome' = Outcome
      BY <1>2, <1>3 DEF OutcomeFacts
    <2>2. Len(times) < Total /\ Len(times') \in Len(times) + 1 .. Total
      BY <1>2, <1>3 DEF OutcomeFacts
    <2>3. QED
      BY <1>1, <2>1, <2>2 DEF Fold!Take, Outcome
  <1>4. ASSUME pc \notin {"done", "failed"}, pc' = "done", prog = Total \/ Total = 1
        PROVE  Fold!Answer
    <2>1. Outcome = "none" /\ Outcome' = "right" /\ Len(times') = Total
          /\ (Len(times) = Total \/ Total = 1)
      BY <1>2, <1>4 DEF OutcomeFacts
    <2>2. QED
      BY <1>1, <2>1 DEF Fold!Answer, Outcome
  <1>5. ASSUME pc \notin {"done", "failed"}, pc' = "failed", times' = times
        PROVE  Fold!GiveUp
    <2>1. Outcome = "none" /\ Outcome' = "failed" /\ Len(times') = Len(times)
      BY <1>2, <1>5 DEF OutcomeFacts
    <2>2. QED
      BY <1>1, <2>1 DEF Fold!GiveUp, Outcome
  <1>6. ASSUME times' = times, pc \notin {"done", "failed"}, pc' \notin {"done", "failed"}
        PROVE  UNCHANGED Fold!foldvars
    <2>1. Outcome' = Outcome /\ Len(times') = Len(times)
      BY <1>2, <1>6 DEF OutcomeFacts
    <2>2. QED
      BY <1>1, <2>1 DEF Fold!foldvars, Outcome
  <1>7. Fold!Take \/ Fold!Answer \/ Fold!GiveUp => Fold!Next
    BY DEF Fold!Next
  <1>8. CASE FirstGrid
    <2>1. pc = "first" /\ prog = 0 /\ prog' = 1 /\ pc' \in {"done", "second"}
      BY <1>8 DEF FirstGrid, TimesInv
    <2>2. CASE pc' = "second"
      BY <1>3, <1>7, <2>1, <2>2
    <2>3. CASE pc' = "done"
      <3>1. Total = 1
        BY <1>2, <2>1, <2>3
      <3>2. QED
        BY <1>4, <1>7, <2>1, <2>3, <3>1
    <2>4. QED
      BY <2>1, <2>2, <2>3
  <1>9. CASE SecondGrid
    <2>1. pc = "second" /\ prog = 1 /\ prog' = 2 /\ pc' = "loop"
      BY <1>9 DEF SecondGrid, TimesInv
    <2>2. QED
      BY <1>3, <1>7, <2>1
  <1>10. CASE OneGrid
    <2>1. pc = "loop" /\ prog' = prog + 1 /\ pc' = "loop" /\ prog' > prog
      BY <1>2, <1>10 DEF OneGrid, OutcomeFacts
    <2>2. QED
      BY <1>3, <1>7, <2>1
  <1>11. CASE FoldIn
    <2>1. pc = "queue" /\ pc' = "loop" /\ prog' = prog + nstep /\ nstep \in Nat
          /\ times' = times \o [k \in 1 .. nstep |-> ChunkTime(k - 1)]
      BY <1>11 DEF FoldIn, Settled, Queued, AveInv, ChunkInv
    <2>2. CASE nstep # 0
      <3>1. prog' > prog
        BY <1>2, <2>1, <2>2 DEF OutcomeFacts
      <3>2. QED
        BY <1>3, <1>7, <2>1, <3>1
    <2>3. CASE nstep = 0
      <3>1. Outcome' = Outcome /\ Len(times') = Len(times)
        BY <1>2, <2>1, <2>3 DEF OutcomeFacts
      <3>2. UNCHANGED Fold!foldvars
        BY <1>1, <3>1 DEF Fold!foldvars, Outcome
      <3>3. QED
        BY <3>2
    <2>4. QED
      BY <2>2, <2>3
  <1>12. CASE Normalize
    <2>1. pc = "end" /\ times' = times /\ prog' = prog /\ pc' \in {"done", "failed"}
      BY <1>12 DEF Normalize
    <2>2. CASE pc' = "failed"
      BY <1>5, <1>7, <2>1, <2>2
    <2>3. CASE pc' = "done"
      BY <1>2, <1>4, <1>7, <2>1, <2>3
    <2>4. QED
      BY <2>1, <2>2, <2>3
  <1>13. CASE GridFails \/ ChunkFails
    <2>1. pc \in {"first", "second", "loop", "queue"} /\ pc' = "failed" /\ times' = times
      BY <1>13 DEF GridFails, ChunkFails, Settled, Queued, Fail
    <2>2. QED
      BY <1>5, <1>7, <2>1
  <1>14. CASE LoopEnds \/ NotCovered \/ BeginChunk \/ ReadSpan \/ QueueRead \/ QueueFails
              \/ Perform \/ Interrupt
    <2>1. times' = times /\ pc \notin {"done", "failed"} /\ pc' \notin {"done", "failed"}
      BY <1>14 DEF LoopEnds, NotCovered, BeginChunk, ReadSpan, QueueRead, QueueFails,
                   Queueing, Queued, Perform, Interrupt
    <2>2. QED
      BY <1>6, <2>1
  <1>15. CASE UNCHANGED vars
    <2>1. times' = times /\ pc' = pc
      BY <1>15 DEF vars
    <2>2. Outcome' = Outcome
      BY <1>2, <2>1 DEF OutcomeFacts
    <2>3. UNCHANGED Fold!foldvars
      BY <1>1, <2>1, <2>2 DEF Fold!foldvars, Outcome
    <2>4. QED
      BY <2>3
  <1>16. QED
    BY <1>8, <1>9, <1>10, <1>11, <1>12, <1>13, <1>14, <1>15 DEF Next, Run

FoldAll == AveInv /\ TimesInv /\ ReadInv /\ FileFacts /\ FoldInv

LEMMA FoldAllInit == Init => FoldAll /\ Fold!Init
  <1> SUFFICES ASSUME Init PROVE FoldAll /\ Fold!Init
    OBVIOUS
  <1>1. AveInv /\ TimesInv /\ FileInv /\ ValInv
    BY AveAssumption, InitAve, TimesInit, FileInit, ValInit
  <1>2. pc = "first" /\ times = << >>
    BY DEF Init
  <1>3. ReadInv /\ FoldInv
    BY <1>2 DEF ReadInv, FoldInv
  <1>4. Outcome = "none" /\ Len(times) = 0
    BY <1>2, OutcomeIs
  <1>5. Fold!Init
    BY <1>4 DEF Fold!Init, Outcome
  <1>6. QED
    BY <1>1, <1>3, <1>5 DEF FoldAll, FileFacts, AveInv

LEMMA FoldAllStays == FoldAll /\ [Next]_vars => FoldAll'
  <1> SUFFICES ASSUME FoldAll, [Next]_vars PROVE FoldAll'
    OBVIOUS
  <1>1. AveInv /\ TimesInv /\ ReadInv /\ FileFacts /\ FoldInv
    BY DEF FoldAll
  <1>2. AveInv'
    BY <1>1, AveAssumption, AskStays, RangeStays, LoopStays, ChunkStays DEF AveInv
  <1>3. TimesInv' /\ ReadInv' /\ FoldInv'
    BY <1>1, AveAssumption, TimesStay, ReadStays, FoldStays DEF FileFacts
  <1>4. FileInv'
    BY <1>1, FileStays DEF FileFacts
  <1>5. ValInv'
    BY <1>1, CallStays DEF FileFacts, ValInv
  <1>6. QED
    BY <1>2, <1>3, <1>4, <1>5 DEF FoldAll, FileFacts, AveInv

(* The function takes the times of the range in order, each once, alone or *)
(* in chunks, and its answer is the average, sum, extreme or its place of  *)
(* the cells of these times that are not missing, or it fails and does not *)
(* answer: FoldsAllInOrder (ave_run, ave_accumulate, gaadios_read_steps).  *)
THEOREM FoldsInOrder == Spec => FoldsAllInOrder
  <1>1. Init => FoldAll /\ Fold!Init
    BY FoldAllInit
  <1>2. FoldAll /\ [Next]_vars => FoldAll'
    BY FoldAllStays
  <1>3. FoldAll => OutcomeFacts
    BY AveAssumption, OutcomeKnown DEF FoldAll
  <1>4. FoldAll /\ OutcomeFacts /\ OutcomeFacts' /\ [Next]_vars => [Fold!Next]_(Fold!foldvars)
    BY AveAssumption, FoldStep DEF FoldAll
  <1>5. QED
    BY <1>1, <1>2, <1>3, <1>4, PTL DEF Spec, FoldsAllInOrder, Fold!Spec

=============================================================================
