------------------------------ MODULE AveLoop ------------------------------
(***************************************************************************)
(* ave, mean, sum, sumg, min, max, minloc and maxloc over time: ave_run    *)
(* takes the first two times by themselves, and the rest in chunks that    *)
(* gaadios_read_steps reads at once, or one by one.  gaadios_read_steps    *)
(* queues reads into buffers the engine fills when the reads are           *)
(* performed.                                                              *)
(*                                                                         *)
(* One grid point: the others are computed alike and apart.  A cell is a   *)
(* value and its mask; the value of a missing cell is Undef, which is a    *)
(* number like any other.  Positions on the time axis are in half cells,   *)
(* and so are weights.                                                     *)
(***************************************************************************)
EXTENDS Integers, Sequences, FiniteSets

CONSTANTS
  Value,     \* the values of the data
  Steps,     \* dnum[3]
  From, To,  \* where a range may begin and end, in half cells
  Incr,      \* increments
  Chunk,     \* bound: times read at once
  Sel        \* the functions: 1 ave .. 8 maxloc

Undef == 1000     \* pfi->undef
Garbage == 5000   \* what a buffer holds before it is written

ASSUME AveAssumption ==
  /\ Value \subseteq 1 .. 100 /\ Steps \in Nat \ {0}
  /\ From \subseteq Nat /\ To \subseteq Nat
  /\ Incr \subseteq Nat \ {0} /\ Chunk \in Nat \ {0, 1} /\ Sel \subseteq 1 .. 8

VARIABLES
  ask,       \* the call: function, gr1, gr2, incr and -b
  var,       \* the file variable: its steps and their data, whether they are a
             \* dimension of its own, and whether others have more of them
  pc,        \* "first", "second", "loop", "queue", "end", "done", "failed"
  d,         \* the time to take next
  acc,       \* the two grids: sum, cnt and their masks
  direct,    \* many times are read at once
  prog,      \* what gaprogstep was told last
  nstep,     \* the chunk being read: its times,
  queued,    \* those whose reads the engine holds,
  next,      \* the time to queue next,
  filled,    \* and those whose buffers are written
  buffers,   \* native is allocated
  grids,     \* the grids ave_run holds
  rc,        \* an error in the chunk
  sig,       \* Ctrl-C was pressed
  times      \* history: the times that went into acc, in order

vars == <<ask, var, pc, d, acc, direct, prog, nstep, queued, next, filled,
          buffers, grids, rc, sig, times>>
chunkvars == <<nstep, queued, next, filled, buffers, rc>>

Cell(val, u) == [val |-> val, u |-> u]
NoCell == Cell(Undef, 0)
Acc(sum, sumu, cnt, cntu) == [sum |-> sum, sumu |-> sumu, cnt |-> cnt, cntu |-> cntu]

-----------------------------------------------------------------------------
(* The file.                                                               *)

(* gaadios_time_available: 1 a step of its own, 2 the variable's only step *)
(* stands for every time, 0 not written.                                   *)
Status(t) ==
  CASE t \notin 1 .. Steps -> 0
    [] t \in 1 .. Steps /\ t <= var.steps -> 1
    [] t \in 1 .. Steps /\ t > var.steps ->
         IF ~var.tdim /\ var.steps = 1 /\ var.others THEN 2 ELSE 0

(* The cell of time t, read alone.                                         *)
CellAt(t) == CASE Status(t) = 0 -> NoCell
               [] Status(t) = 1 -> var.data[t]
               [] Status(t) = 2 -> var.data[1]

(* The cell of time t of a chunk, from its buffer.                         *)
Read(t) == CASE Status(t) = 0 -> NoCell
             [] Status(t) > 0 -> IF t \in filled THEN CellAt(t) ELSE Cell(Garbage, 1)

-----------------------------------------------------------------------------
(* The range.                                                              *)

D1 == (ask.gr1 + 1) \div 2
D2 == ask.gr2 \div 2
Total == (D2 - D1) \div ask.incr + 1

(* Mutant of Tbndwt: the last cell is never cut.                           *)
TbndwtLow(t) == 2 * t + 1 - (IF ask.gr1 > 2 * t - 1 THEN ask.gr1 ELSE 2 * t - 1)

(* ave_tbndwt *)
Tbndwt(t) ==
  LET lo == IF ask.gr1 > 2 * t - 1 THEN ask.gr1 ELSE 2 * t - 1
      hi == IF ask.gr2 < 2 * t + 1 THEN ask.gr2 ELSE 2 * t + 1
  IN IF hi < lo THEN 0 ELSE hi - lo

Weight(t) == IF ask.bnd THEN Tbndwt(t) ELSE 2

-----------------------------------------------------------------------------
(* The fold.                                                               *)

(* Mutant of Better: the last of equal values is taken.                    *)
BetterOrSame(new, old) == IF ask.sel \in {5, 7} THEN new <= old ELSE new >= old

Better(new, old) == IF ask.sel \in {5, 7} THEN new < old ELSE new > old

(* Mutant of Accumulate: the count is kept for the first value only.       *)
AccumulateFirst(a, t, c) ==
  IF c.u = 0 THEN a
  ELSE IF a.sumu = 0 THEN Acc(c.val * Weight(t), 1, Weight(t), 1)
  ELSE [a EXCEPT !.sum = @ + c.val * Weight(t)]

(* ave_accumulate: the cell of time t goes into the running result.        *)
Accumulate(a, t, c) ==
  LET v == IF ask.sel <= 3 THEN c.val * Weight(t) ELSE c.val IN
  CASE c.u = 0 -> a
    [] c.u = 1 /\ ask.sel >= 5 ->
         IF a.sumu = 0 \/ Better(c.val, a.sum) THEN Acc(c.val, 1, t, 1) ELSE a
    [] c.u = 1 /\ ask.sel < 5 ->
         [a EXCEPT !.sum = IF a.sumu = 0 THEN v ELSE @ + v,
                   !.cnt = @ + Weight(t), !.sumu = 1]

(* The first two times, t1 and t2: the first grid becomes the sum, the     *)
(* second the count.  (sumg adds the second whether or not it is missing.) *)
FirstTwo(t1, c1, t2, c2) ==
  LET w1 == Weight(t1)
      w2 == Weight(t2)
  IN CASE ask.sel >= 5 ->
            (CASE c1.u = 1 /\ c2.u = 1 ->
                   IF Better(c2.val, c1.val) THEN Acc(c2.val, 1, t2, 1)
                   ELSE Acc(c1.val, 1, t1, 1)
               [] c1.u = 0 /\ c2.u = 1 -> Acc(c2.val, 1, t2, 1)
               [] c1.u = 1 /\ c2.u = 0 -> Acc(c1.val, 1, t1, 1)
               [] c1.u = 0 /\ c2.u = 0 -> Acc(c1.val, 0, c2.val, 0))
       [] ask.sel <= 3 ->
            (CASE c1.u = 1 /\ c2.u = 1 -> Acc(c1.val * w1 + c2.val * w2, 1, w1 + w2, 1)
               [] c1.u = 0 /\ c2.u = 1 -> Acc(c2.val * w2, 1, w2, 1)
               [] c1.u = 1 /\ c2.u = 0 -> Acc(c1.val * w1, 1, w1, 1)
               [] c1.u = 0 /\ c2.u = 0 -> Acc(c1.val, 0, 0, 1))
       [] ask.sel = 4 ->
            (CASE c1.u = 1 -> Acc(c1.val + c2.val, 1, w1 + w2, 1)
               [] c1.u = 0 /\ c2.u = 1 -> Acc(c2.val, 1, c2.val, 1)
               [] c1.u = 0 /\ c2.u = 0 -> Acc(c1.val, 0, 0, 1))

(* A chunk, its times in order.                                            *)
ChunkTime(k) == d + k * ask.incr
FoldChunk ==
  LET a[k \in 0 .. nstep] ==
        IF k = 0 THEN acc
        ELSE Accumulate(a[k - 1], ChunkTime(k - 1), Read(ChunkTime(k - 1)))
  IN a[nstep]

(* The result, as a fraction: averages are divided by the count, a sum's   *)
(* weights are halves, and locations are the count.                        *)
Fraction(num, den, u) == [num |-> num, den |-> den, u |-> u]
Result ==
  CASE ask.sel \in {1, 2} -> Fraction(acc.sum, acc.cnt, acc.sumu)
    [] ask.sel = 3 -> Fraction(acc.sum, 2, acc.sumu)
    [] ask.sel \in {4, 5, 6} -> Fraction(acc.sum, 1, acc.sumu)
    [] ask.sel \in {7, 8} -> Fraction(acc.cnt, 1, acc.sumu)

-----------------------------------------------------------------------------
(* The first grids.                                                        *)

(* The call is in its environment's range and the file as it was opened.   *)
Init ==
  /\ ask \in [sel : Sel, gr1 : From, gr2 : To, incr : Incr, bnd : BOOLEAN]
  /\ D1 <= D2
  /\ \E steps \in 1 .. Steps, tdim \in BOOLEAN, others \in BOOLEAN :
     \E data \in [1 .. steps -> {Cell(v, 1) : v \in Value} \cup {NoCell}] :
       /\ steps # 1 => others
       /\ var = [steps |-> steps, tdim |-> tdim, others |-> others, data |-> data]
  /\ pc = "first" /\ d = D1 /\ acc = Acc(0, 0, 0, 0)
  /\ direct \in BOOLEAN /\ prog = 0
  /\ nstep = 0 /\ queued = {} /\ next = 0 /\ filled = {} /\ buffers = FALSE
  /\ grids = 0 /\ rc = FALSE /\ sig = FALSE /\ times = << >>

(* Mutant of Fail: the grids are not released.                             *)
FailHolding ==
  /\ pc' = "failed"
  /\ UNCHANGED <<ask, var, d, acc, direct, prog, grids, sig, times>>

Fail ==
  /\ pc' = "failed" /\ grids' = 0
  /\ UNCHANGED <<ask, var, d, acc, direct, prog, sig, times>>

(* gaexpr fails, or notices Ctrl-C. *)
GridFails ==
  /\ pc \in {"first", "second"} \/ (pc = "loop" /\ d <= D2)
  /\ Fail
  /\ UNCHANGED chunkvars

(* The only grid of the range is the answer.                               *)
FirstGrid ==
  /\ pc = "first" /\ ~sig
  /\ LET c == CellAt(d)
         only == d + ask.incr > D2
     IN /\ acc' = IF only /\ ask.sel \in {1, 2, 7, 8}
                  THEN Acc(c.val, c.u, IF ask.sel < 3 THEN 1 ELSE d, c.u)
                  ELSE IF only /\ ask.sel = 3 THEN Acc(2 * c.val, c.u, 0, 0)
                  ELSE Acc(c.val, c.u, 0, 0)
        /\ pc' = IF only THEN "done" ELSE "second"
  /\ d' = d + ask.incr /\ times' = <<d>>
  /\ grids' = 1 /\ prog' = 1
  /\ UNCHANGED <<ask, var, direct, sig, chunkvars>>

SecondGrid ==
  /\ pc = "second" /\ ~sig
  /\ acc' = FirstTwo(D1, Cell(acc.sum, acc.sumu), d, CellAt(d))
  /\ pc' = "loop"
  /\ d' = d + ask.incr /\ times' = Append(times, d)
  /\ grids' = 2 /\ prog' = 2
  /\ UNCHANGED <<ask, var, direct, sig, chunkvars>>

-----------------------------------------------------------------------------
(* A time at a time.                                                       *)

AtOnce == direct /\ d \in 1 .. Steps

OneGrid ==
  /\ pc = "loop" /\ d <= D2 /\ ~AtOnce /\ ~sig
  /\ acc' = Accumulate(acc, d, CellAt(d))
  /\ d' = d + ask.incr /\ times' = Append(times, d)
  /\ prog' = prog + 1
  /\ UNCHANGED <<ask, var, pc, direct, grids, sig, chunkvars>>

LoopEnds ==
  /\ pc = "loop" /\ d > D2
  /\ pc' = "end"
  /\ UNCHANGED <<ask, var, d, acc, direct, prog, grids, sig, times, chunkvars>>

(* The second grid is no longer needed. *)
Normalize ==
  /\ pc = "end"
  /\ IF acc.sumu = 1 /\ ((ask.sel < 3 /\ acc.cnt = 0) \/ (ask.sel > 6 /\ acc.cntu = 0))
     THEN pc' = "failed" /\ UNCHANGED grids
     ELSE pc' = "done" /\ grids' = 1
  /\ UNCHANGED <<ask, var, d, acc, direct, prog, sig, times, chunkvars>>

-----------------------------------------------------------------------------
(* A chunk at a time.                                                      *)

Lesser(a, b) == IF a < b THEN a ELSE b

(* Mutant of Nstep: the chunk may go beyond the end of the range.          *)
NstepFile == Lesser(Chunk, (Steps - d) \div ask.incr + 1)

Nstep == Lesser(Chunk, Lesser((D2 - d) \div ask.incr, (Steps - d) \div ask.incr) + 1)

(* Not a request that is read at once, or no memory for it: -1.            *)
NotCovered ==
  /\ pc = "loop" /\ d <= D2 /\ AtOnce /\ ~sig
  /\ direct' = FALSE
  /\ UNCHANGED <<ask, var, pc, d, acc, prog, grids, sig, times, chunkvars>>

BeginChunk ==
  /\ pc = "loop" /\ d <= D2 /\ AtOnce /\ ~sig
  /\ nstep' = Nstep /\ next' = 0 /\ buffers' = TRUE /\ rc' = FALSE
  /\ queued' = {} /\ filled' = {}
  /\ pc' = "queue"
  /\ UNCHANGED <<ask, var, d, acc, direct, prog, grids, sig, times>>

ChunkTimes == {ChunkTime(k) : k \in 0 .. nstep - 1}

(* Mutant of Contiguous: a step that stands for every time will do.        *)
ContiguousStatic == ask.incr = 1 /\ ~var.tdim /\ \A t \in ChunkTimes : Status(t) > 0

(* One selection spans the steps.                                          *)
Contiguous == ask.incr = 1 /\ ~var.tdim /\ \A t \in ChunkTimes : Status(t) = 1

ReadSpan ==
  /\ pc = "queue" /\ next = 0 /\ Contiguous
  /\ \/ filled' = {t \in ChunkTimes : t <= var.steps} /\ rc' = FALSE
     \/ filled' = {} /\ rc' = TRUE
  /\ next' = nstep
  /\ UNCHANGED <<ask, var, pc, d, acc, direct, prog, nstep, queued, buffers,
                 grids, sig, times>>

Queueing == pc = "queue" /\ ~rc /\ next < nstep /\ ~(next = 0 /\ Contiguous)

(* A read is queued for a time that is written.                            *)
QueueRead ==
  /\ Queueing
  /\ LET t == ChunkTime(next) IN
     queued' = IF Status(t) > 0 THEN queued \cup {t} ELSE queued
  /\ next' = next + 1
  /\ UNCHANGED <<ask, var, pc, d, acc, direct, prog, nstep, filled, buffers,
                 grids, rc, sig, times>>

(* The metadata cannot be queried, or the selection is not valid.          *)
QueueFails ==
  /\ Queueing
  /\ rc' = TRUE
  /\ UNCHANGED <<ask, var, pc, d, acc, direct, prog, nstep, queued, next, filled,
                 buffers, grids, sig, times>>

(* Mutant of Queued: after an error all reads are still waited for.        *)
QueuedAll == pc = "queue" /\ next = nstep

Queued == pc = "queue" /\ (rc \/ next = nstep)

(* What is queued is performed, after an error too.                        *)
Perform ==
  /\ Queued /\ queued # {}
  /\ \/ filled' = filled \cup queued /\ UNCHANGED rc
     \/ rc' = TRUE /\ UNCHANGED filled
  /\ queued' = {}
  /\ UNCHANGED <<ask, var, pc, d, acc, direct, prog, nstep, next, buffers,
                 grids, sig, times>>

(* Mutant of Settled: an error goes straight to the end.                   *)
SettledOnError == Queued /\ (rc \/ queued = {})

Settled == Queued /\ queued = {}

FoldIn ==
  /\ Settled /\ ~rc
  /\ acc' = FoldChunk
  /\ times' = times \o [k \in 1 .. nstep |-> ChunkTime(k - 1)]
  /\ d' = d + nstep * ask.incr
  /\ prog' = prog + nstep
  /\ buffers' = FALSE /\ filled' = {}
  /\ pc' = "loop"
  /\ UNCHANGED <<ask, var, direct, nstep, queued, next, grids, rc, sig>>

ChunkFails ==
  /\ Settled /\ rc
  /\ buffers' = FALSE /\ filled' = {}
  /\ Fail
  /\ UNCHANGED <<nstep, queued, next, rc>>

Interrupt ==
  /\ ~sig /\ pc \notin {"done", "failed"}
  /\ sig' = TRUE
  /\ UNCHANGED <<ask, var, pc, d, acc, direct, prog, grids, times, chunkvars>>

-----------------------------------------------------------------------------
Run ==
  \/ GridFails \/ FirstGrid \/ SecondGrid \/ OneGrid \/ LoopEnds \/ Normalize
  \/ NotCovered \/ BeginChunk \/ ReadSpan \/ QueueRead \/ QueueFails
  \/ Perform \/ FoldIn \/ ChunkFails

Next == Run \/ Interrupt

Spec == Init /\ [][Next]_vars

(* The thread that runs the function goes on running it.                   *)
FairSpec == Spec /\ WF_vars(Run)

-----------------------------------------------------------------------------
(* Reference: what the function is of the cells of its times.              *)

InRange(i) == D1 + (i - 1) * ask.incr
Valid == {i \in 1 .. Total : CellAt(InRange(i)).u = 1}
SumOf(f(_)) == LET s[i \in 0 .. Total] ==
                     IF i = 0 THEN 0
                     ELSE s[i - 1] + (IF i \in Valid THEN f(InRange(i)) ELSE 0)
               IN s[Total]

(* The halves of the cell of t that the range covers, with -b.             *)
Share(t) == IF ask.bnd THEN Cardinality({h \in {2 * t - 1, 2 * t} :
                                           ask.gr1 <= h /\ h + 1 <= ask.gr2})
            ELSE 2
Weighted(t) == CellAt(t).val * Share(t)
Plain(t) == CellAt(t).val

(* The first of the times with the least or greatest value.                *)
AtLeastAsGood(i, j) == IF ask.sel \in {5, 7} THEN Plain(InRange(i)) <= Plain(InRange(j))
                       ELSE Plain(InRange(i)) >= Plain(InRange(j))
Best == CHOOSE i \in Valid :
          \A j \in Valid : AtLeastAsGood(i, j) /\ (AtLeastAsGood(j, i) => i <= j)

Reference ==
  IF Valid = {} THEN Fraction(0, 1, 0)
  ELSE CASE ask.sel \in {1, 2} -> Fraction(SumOf(Weighted), SumOf(Share), 1)
         [] ask.sel = 3 -> Fraction(SumOf(Weighted), 2, 1)
         [] ask.sel = 4 -> Fraction(SumOf(Plain), 1, 1)
         [] ask.sel \in {5, 6} -> Fraction(Plain(InRange(Best)), 1, 1)
         [] ask.sel \in {7, 8} -> Fraction(InRange(Best), 1, 1)

IsReference ==
  /\ Result.u = Reference.u
  /\ Result.u = 1 => Result.num * Reference.den = Reference.num * Result.den

(* sumg adds the missing value of the second time to the first's, and a    *)
(* sum over one time is that time, whatever part of it the range covers.   *)
SumgAddsMissing == ask.sel = 4 /\ Total > 1 /\ 1 \in Valid /\ 2 \notin Valid
SumOfOne == ask.sel = 3 /\ Total = 1 /\ Share(D1) # 2

-----------------------------------------------------------------------------
(* Properties.                                                             *)

TypeOK ==
  /\ pc \in {"first", "second", "loop", "queue", "end", "done", "failed"}
  /\ d \in D1 .. D2 + ask.incr
  /\ nstep \in 0 .. Chunk /\ next \in 0 .. nstep
  /\ queued \subseteq 1 .. Steps /\ filled \subseteq 1 .. Steps
  /\ pc = "queue" => d + (nstep - 1) * ask.incr <= D2
  /\ buffers <=> pc = "queue"

(* The engine writes to a chunk's buffers when its reads are performed: it *)
(* holds no read of a buffer that has been given back.                     *)
BuffersOutliveReads == queued # {} => buffers

(* The progress line counts the times taken, and they are taken in order.  *)
ProgressIsTrue ==
  /\ prog = Len(times) /\ prog <= Total
  /\ \A i \in 1 .. Len(times) : times[i] = InRange(i)

(* Nothing the function allocated is left when it has ended but the answer.*)
NothingHeld ==
  /\ pc = "done" => grids = 1 /\ ~buffers
  /\ pc = "failed" => grids = 0 /\ ~buffers

(* The abstract specification: all times in order, then the right answer.  *)
Fold == INSTANCE TimeFold WITH
  total <- Total,
  taken <- Len(times),
  outcome <- CASE pc = "done" -> IF IsReference \/ SumgAddsMissing \/ SumOfOne
                                 THEN "right" ELSE "wrong"
               [] pc = "failed" -> "failed"
               [] pc \notin {"done", "failed"} -> "none"

FoldsAllInOrder == Fold!Spec

(* The function returns in the end, whatever of it fails.                  *)
ReturnsInTheEnd == <>(pc \in {"done", "failed"})

(* sumg over times is the sum of the values that are not missing.          *)
SumgSkipsMissing == pc = "done" /\ ask.sel = 4 => IsReference
=============================================================================
