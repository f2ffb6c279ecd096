-------------------------- MODULE MetaBuffer_proofs --------------------------
(* Proofs about MetaBuffer, for every value of its constants.              *)
EXTENDS MetaBuffer, Induction, SequenceTheorems, TLAPS

(* Facts on sequences of buffers and of steps.                             *)

(* A nonempty sequence starts with an element of its set.                  *)
LEMMA FirstElement ==
  ASSUME NEW S, NEW c \in Seq(S), c # << >>
  PROVE  Len(c) \in Nat /\ Len(c) >= 1 /\ c[1] \in S
  BY EmptySeq, ElementOfSeq, LenProperties

(* A piece of a sequence, possibly empty.                                  *)
LEMMA Piece ==
  ASSUME NEW S, NEW c \in Seq(S), NEW m \in Nat \ {0}, NEW n \in 0 .. Len(c)
  PROVE  /\ SubSeq(c, m, n) \in Seq(S)
         /\ Len(SubSeq(c, m, n)) = IF m <= n THEN n - m + 1 ELSE 0
         /\ \A i \in 1 .. n - m + 1 : SubSeq(c, m, n)[i] = c[m + i - 1]
  <1>1. Len(c) \in Nat
    BY LenProperties
  <1>2. \A i \in m .. n : c[i] \in S
    BY <1>1, ElementOfSeq
  <1>3. QED
    BY <1>1, <1>2, SubSeqProperties

(* One buffer is a chain. *)
LEMMA Single ==
  ASSUME NEW S, NEW b \in S
  PROVE  <<b>> \in Seq(S) /\ Len(<<b>>) = 1 /\ <<b>>[1] = b
  OBVIOUS

(* The fields of a step kept.                                              *)
LEMMA StepTyped ==
  ASSUME NEW stk \in Seq(Step), NEW i \in 1 .. Len(stk)
  PROVE  /\ stk[i] \in Step /\ stk[i].chain \in Seq(Buf)
         /\ stk[i].gen \in Nat /\ stk[i].mark \in Mark
         /\ stk[i].mark.used \in Nat /\ stk[i].mark.gen \in Nat
         /\ stk[i].mark.buf \in Buf \cup {NoBuf}
  <1>1. stk[i] \in Step
    BY ElementOfSeq
  <1>2. QED
    BY <1>1 DEF Step, Mark

(* The words of a primitive are words, and fit a buffer.                   *)
LEMMA PrimTextOK ==
  ASSUME MetaAssumption, NEW p \in Prim
  PROVE  PrimText(p) \in Seq(Word) /\ Len(PrimText(p)) = Words[p]
  <1>1. Words[p] \in 1 .. BufLen /\ BufLen \in Nat
    BY DEF MetaAssumption
  <1>2. \A k \in 1 .. Words[p] : <<p, k>> \in Word
    BY <1>1 DEF Word
  <1>3. PrimText(p) \in [1 .. Words[p] -> Word]
    BY <1>2 DEF PrimText
  <1>4. PrimText(p) \in Seq(Word)
    BY <1>1, <1>3, SeqDef
  <1>5. Len(PrimText(p)) = Words[p]
    BY <1>1 DEF PrimText
  <1>6. QED
    BY <1>4, <1>5

(* Starting a chain over leaves every text well formed.                    *)
LEMMA RestartOK ==
  ASSUME BuffersOK, NEW c \in Seq(Buf), NEW t, TextOK(t)
  PROVE  /\ Restart(c, t) \in [Buf -> Seq(Word)]
         /\ \A b \in Buf : TextOK(Restart(c, t)[b])
  <1>1. CASE c = << >>
    BY <1>1 DEF Restart, BuffersOK
  <1>2. CASE c # << >>
    BY <1>2, FirstElement DEF Restart, BuffersOK, TextOK
  <1>3. QED
    BY <1>1, <1>2

-----------------------------------------------------------------------------
(* Type correctness.                                                       *)

(* Forgetting the steps leaves an empty stack and a generation in bounds.  *)
LEMMA ForgetOK ==
  ASSUME MetaAssumption, StacksOK, NEW n \in Nat, ForgetSteps(n), undolim' \in 0 .. MaxLim
  PROVE  StacksOK'
  BY DEF MetaAssumption, ForgetSteps, StacksOK

(* A new chain is empty or one buffer that was free.                       *)
LEMMA NewChainOK ==
  ASSUME NEW h, NEW c \in NewChain(h)
  PROVE  /\ c \in Seq(Buf) /\ Head1(c) \in 0 .. Len(c)
         /\ c = << >> \/ \E b \in Buf \ h : c = <<b>>
         /\ Bufs(c) \subseteq Buf \ h
  <1>1. CASE \E b \in Buf \ h : c = <<b>>
    BY <1>1, Single DEF Head1, Bufs
  <1>2. CASE c = << >>
    BY <1>2 DEF Head1, Bufs
  <1>3. QED
    BY <1>1, <1>2 DEF NewChain

(* Buffers of a chain are buffers. *)
LEMMA BufsOK ==
  ASSUME NEW c \in Seq(Buf)
  PROVE  Bufs(c) \subseteq Buf /\ Head1(c) \in 0 .. Len(c)
  BY ElementOfSeq, LenProperties, FirstElement DEF Bufs, Head1

(* The first buffer restarted, in chains and texts.                        *)
LEMMA FrameNewOK ==
  ASSUME MetaAssumption, TypeOK, NEW t, TextOK(t), FrameNew(t)
  PROVE  ChainsOK' /\ BuffersOK' /\ StacksOK' /\ {mbuferror', dbmode'} \subseteq BOOLEAN
  <1> USE MetaAssumption DEF TypeOK
  <1>1. CASE FrameReset(t)
    <2>1. StacksOK'
      BY <1>1, ForgetOK DEF FrameReset, StacksOK
    <2>2. ChainsOK'
      BY <1>1, BufsOK DEF FrameReset, ChainsOK, LiveHeap
    <2>3. BuffersOK'
      BY <1>1, RestartOK DEF FrameReset, ChainsOK, BuffersOK
    <2>4. QED
      BY <1>1, <2>1, <2>2, <2>3 DEF FrameReset, FlagsOK
  <1>2. CASE FrameSingle(t)
    <2>1. StacksOK'
      BY <1>2, ForgetOK DEF FrameSingle, StacksOK
    <2>2. ChainsOK'
      BY <1>2, BufsOK DEF FrameSingle, ChainsOK, LiveHeap
    <2>3. BuffersOK'
      BY <1>2, RestartOK DEF FrameSingle, ChainsOK, BuffersOK
    <2>4. QED
      BY <1>2, <2>1, <2>2, <2>3 DEF FrameSingle, FlagsOK
  <1>3. QED
    BY <1>1, <1>2 DEF FrameNew

(* The same in double buffering. *)
LEMMA FrameNextOK ==
  ASSUME MetaAssumption, TypeOK, FrameNext
  PROVE  ChainsOK' /\ BuffersOK' /\ StacksOK' /\ {mbuferror', dbmode'} \subseteq BOOLEAN
  <1> USE MetaAssumption DEF TypeOK
  <1> DEFINE t == IF mbuferror THEN << >> ELSE Backdrop
  <1>0. TextOK(t) /\ TextOK(<< >>)
    BY EmptySeq DEF MetaAssumption, TextOK
  <1>1. CASE FrameDouble
    <2>0. PICK c \in IF chain = << >> THEN NewChain(LiveHeap) ELSE {chain} :
            \E f \in NewChain(LiveHeap \cup Bufs(c)) :
              /\ chain' = c /\ last' = Head1(c)
              /\ fore' = f  /\ forelast' = Head1(f)
              /\ text' = [b \in Buf |-> IF b \in Bufs(f) THEN << >> ELSE Restart(c, t)[b]]
              /\ heap' = LiveHeap \cup Bufs(c) \cup Bufs(f)
      BY <1>1 DEF FrameDouble
    <2>1. PICK f \in NewChain(LiveHeap \cup Bufs(c)) :
            /\ chain' = c /\ last' = Head1(c)
            /\ fore' = f  /\ forelast' = Head1(f)
            /\ text' = [b \in Buf |-> IF b \in Bufs(f) THEN << >> ELSE Restart(c, t)[b]]
            /\ heap' = LiveHeap \cup Bufs(c) \cup Bufs(f)
      BY <2>0
    <2>2. c \in Seq(Buf) /\ Bufs(c) \subseteq Buf /\ Head1(c) \in 0 .. Len(c)
      BY NewChainOK, BufsOK DEF ChainsOK
    <2>3. f \in Seq(Buf) /\ Bufs(f) \subseteq Buf /\ Head1(f) \in 0 .. Len(f)
      BY NewChainOK, BufsOK
    <2>4. ChainsOK'
      BY <2>1, <2>2, <2>3 DEF ChainsOK, LiveHeap
    <2>5. BuffersOK'
      <3> HIDE DEF t
      <3>1. /\ Restart(c, t) \in [Buf -> Seq(Word)]
            /\ \A b \in Buf : TextOK(Restart(c, t)[b])
        BY <1>0, <2>2, RestartOK
      <3>2. QED
        BY <2>1, <3>1, <1>0 DEF BuffersOK, TextOK
    <2>6. StacksOK'
      BY <1>1, ForgetOK DEF FrameDouble, StacksOK
    <2>7. QED
      BY <1>1, <2>4, <2>5, <2>6 DEF FrameDouble, FlagsOK
  <1>2. CASE FrameSwap
    <2>1. StacksOK'
      BY <1>2, ForgetOK DEF FrameSwap, StacksOK
    <2>2. ChainsOK'
      BY <1>2, BufsOK DEF FrameSwap, ChainsOK, LiveHeap
    <2>3. BuffersOK'
      BY <1>2, <1>0, RestartOK DEF FrameSwap, ChainsOK, BuffersOK
    <2>4. QED
      BY <1>2, <2>1, <2>2, <2>3 DEF FrameSwap, FlagsOK
  <1>3. QED
    BY <1>1, <1>2 DEF FrameNext

(* A frame set aside is a step.                                            *)
LEMMA FrameStepOK ==
  ASSUME MetaAssumption, ChainsOK, StacksOK
  PROVE  FrameStep \in Step /\ FrameStep.gen <= undoseq
  <1>1. SubSeq(chain, 1, last) \in Seq(Buf)
    BY Piece, LenProperties DEF ChainsOK
  <1>2. undogen \in Nat /\ undogen <= undoseq
    BY DEF MetaAssumption, StacksOK
  <1>3. QED
    BY <1>1, <1>2 DEF FrameStep, Step, Mark

(* A new generation bounds those of the steps already kept.                *)
LEMMA BumpOK ==
  ASSUME MetaAssumption, StacksOK, undoseq' \in undoseq .. MaxGen,
         undogen' \in 0 .. undoseq', UNCHANGED <<undolim, undostk, undopend>>,
         undoclr' \in Seq(Step), Len(undoclr') <= 1,
         \A i \in 1 .. Len(undoclr') : undoclr'[i].gen <= undoseq'
  PROVE  StacksOK'
  <1>2. \A i \in 1 .. Len(undostk) : undostk[i].gen \in Nat
    BY StepTyped DEF StacksOK
  <1>3. undoseq \in Nat /\ undoseq' \in Nat /\ undoseq <= undoseq' /\ undoseq' <= MaxGen
    BY DEF StacksOK, MetaAssumption
  <1>4. ASSUME NEW i \in 1 .. Len(undostk')
        PROVE  undostk'[i].gen <= undoseq'
    <2>1. i \in 1 .. Len(undostk) /\ undostk'[i].gen = undostk[i].gen
      OBVIOUS
    <2>2. undostk[i].gen \in Nat /\ undostk[i].gen <= undoseq
      BY <1>2, <2>1 DEF StacksOK
    <2>3. QED
      BY <1>3, <2>1, <2>2
  <1>5. undolim' \in 0 .. MaxLim /\ undostk' \in Seq(Step) /\ Len(undostk') <= undolim'
    BY DEF StacksOK
  <1>6. undopend' \in Seq(Mark) /\ Len(undopend') <= 1
    BY DEF StacksOK
  <1>7. undoseq' \in 0 .. MaxGen /\ undogen' \in 0 .. undoseq'
    BY <1>3 DEF MetaAssumption
  <1>8. QED
    BY <1>4, <1>5, <1>6, <1>7 DEF StacksOK

LEMMA FrameAsideOK ==
  ASSUME MetaAssumption, TypeOK, FrameAside
  PROVE  ChainsOK' /\ BuffersOK' /\ StacksOK' /\ {mbuferror', dbmode'} \subseteq BOOLEAN
  <1> USE MetaAssumption DEF TypeOK
  <1>1. TextOK(Backdrop) /\ Len(chain) \in Nat /\ undoseq \in Nat
    BY LenProperties DEF MetaAssumption, TextOK, ChainsOK, StacksOK
  <1>2. CASE AsideNull
    BY <1>2 DEF FrameAside, AsideNull, ChainsOK, BuffersOK, StacksOK, FlagsOK
  <1>3. CASE chain # << >> /\ AsideNothing
    <2>1. ChainsOK'
      BY <1>3, FirstElement DEF FrameAside, AsideNothing, ChainsOK
    <2>2. BuffersOK'
      BY <1>1, <1>3, RestartOK DEF AsideNothing, ChainsOK, BuffersOK
    <2>3. StacksOK'
      <3>1. UNCHANGED <<undolim, undostk, undopend, undoclr>>
        BY <1>3 DEF FrameAside, AsideNothing
      <3>2. undoseq' \in undoseq .. MaxGen /\ undogen' \in 0 .. undoseq'
        BY <1>1, <1>3 DEF AsideNothing, StacksOK, MetaAssumption
      <3>3. \A i \in 1 .. Len(undoclr) : undoclr[i].gen \in Nat
        BY StepTyped DEF StacksOK
      <3>4. \A i \in 1 .. Len(undoclr') : undoclr'[i].gen <= undoseq'
        BY <1>1, <3>1, <3>2, <3>3 DEF StacksOK
      <3>5. QED
        BY <3>1, <3>2, <3>4, BumpOK DEF StacksOK
    <2>4. QED
      BY <1>3, <2>1, <2>2, <2>3 DEF FrameAside, FlagsOK
  <1>4. CASE chain # << >> /\ AsideFrame
    <2>1. PICK c \in IF last < Len(chain) THEN {SubSeq(chain, last + 1, Len(chain))}
                     ELSE {<<b>> : b \in Buf \ heap} :
            chain' = c /\ text' = Restart(c, Backdrop) /\ heap' = heap \cup Bufs(c)
      BY <1>4 DEF AsideFrame
    <2>2. c \in Seq(Buf) /\ Len(c) >= 1
      <3>1. CASE last < Len(chain)
        <4>1. c = SubSeq(chain, last + 1, Len(chain)) /\ last \in Nat
          BY <1>1, <2>1, <3>1 DEF ChainsOK
        <4>2. QED
          BY <1>1, <3>1, <4>1, Piece DEF ChainsOK
      <3>2. CASE ~(last < Len(chain))
        <4>1. PICK b \in Buf \ heap : c = <<b>>
          BY <2>1, <3>2
        <4>2. QED
          BY <4>1, Single
      <3>3. QED
        BY <3>1, <3>2
    <2>3. ChainsOK'
      BY <1>4, <2>1, <2>2, BufsOK, LenProperties DEF FrameAside, AsideFrame, ChainsOK
    <2>4. BuffersOK'
      BY <1>1, <2>1, <2>2, RestartOK DEF BuffersOK
    <2>5. FrameStep \in Step /\ FrameStep.gen <= undoseq
      BY FrameStepOK
    <2>6. StacksOK'
      <3>1. undoseq' = undoseq + 1 /\ undogen' = undoseq + 1 /\ undoseq < MaxGen
            /\ UNCHANGED <<undolim, undostk, undopend>>
        BY <1>4 DEF FrameAside, AsideFrame
      <3>2. undoclr' = <<FrameStep>>
        BY <1>4 DEF AsideFrame
      <3>3. undoclr' \in Seq(Step) /\ Len(undoclr') = 1 /\ undoclr'[1] = FrameStep
        BY <2>5, <3>2, Single
      <3>4. \A i \in 1 .. Len(undoclr') : undoclr'[i].gen <= undoseq + 1
        BY <1>1, <2>5, <3>3 DEF Step
      <3>5. undoseq' \in undoseq .. MaxGen /\ undogen' \in 0 .. undoseq'
        BY <1>1, <3>1 DEF MetaAssumption
      <3>6. QED
        BY <3>1, <3>3, <3>4, <3>5, BumpOK
    <2>7. QED
      BY <1>4, <2>3, <2>4, <2>6 DEF FrameAside, FlagsOK
  <1>5. CASE chain # << >> /\ AsideNoMemory
    <2>1. ChainsOK'
      BY <1>5 DEF FrameAside, AsideNoMemory, ChainsOK, LiveHeap
    <2>2. StacksOK'
      BY <1>1, <1>5 DEF FrameAside, AsideNoMemory, StacksOK, MetaAssumption
    <2>3. QED
      BY <1>5, <2>1, <2>2 DEF FrameAside, AsideNoMemory, BuffersOK, FlagsOK
  <1>6. QED
    BY <1>2, <1>3, <1>4, <1>5 DEF FrameAside

(* Every way of drawing keeps the chain, the texts and the stack typed.    *)
LEMMA DrawOK ==
  ASSUME MetaAssumption, TypeOK, NEW p \in Prim, Draw(p)
  PROVE  TypeOK'
  <1> USE MetaAssumption DEF TypeOK
  <1> DEFINE w == PrimText(p)
  <1>1. TextOK(w)
    BY PrimTextOK DEF TextOK, MetaAssumption
  <1>2. /\ last \in 1 .. Len(chain) /\ Len(chain) \in Nat
        /\ chain[last] \in Buf
    BY ElementOfSeq, LenProperties DEF Draw, ChainsOK
  <1>3. FlagsOK'
    BY DEF Draw, DrawInPlace, DrawInSpare, DrawInNew, DrawNoMemory, dbvars, FlagsOK
  <1>4. CASE DrawInPlace(p)
    <2>1. /\ text[chain[last]] \in Seq(Word)
          /\ Len(text[chain[last]]) \in Nat
          /\ Len(text[chain[last]]) + Words[p] <= BufLen
      BY <1>2, <1>4, LenProperties DEF DrawInPlace, Room, BuffersOK, TextOK, MetaAssumption
    <2>2. TextOK(text[chain[last]] \o w)
      BY <2>1, PrimTextOK, ConcatProperties DEF TextOK
    <2>3. BuffersOK'
      <3> HIDE DEF w
      <3>1. text' = [text EXCEPT ![chain[last]] = text[chain[last]] \o w]
        BY <1>4 DEF DrawInPlace, w
      <3>2. QED
        BY <1>2, <2>2, <3>1 DEF BuffersOK, TextOK
    <2>4. QED
      BY <1>3, <1>4, <2>3 DEF DrawInPlace, chainvars, undovars, ChainsOK, StacksOK
  <1>5. CASE DrawInSpare(p)
    <2>1. chain[last + 1] \in Buf
      BY <1>2, <1>5, ElementOfSeq DEF DrawInSpare, ChainsOK
    <2>2. BuffersOK'
      <3> HIDE DEF w
      <3>1. text' = [text EXCEPT ![chain[last + 1]] = w]
        BY <1>5 DEF DrawInSpare, w
      <3>2. QED
        BY <1>1, <2>1, <3>1 DEF BuffersOK, TextOK
    <2>3. ChainsOK'
      BY <1>2, <1>5 DEF DrawInSpare, ChainsOK
    <2>4. QED
      BY <1>3, <1>5, <2>2, <2>3 DEF DrawInSpare, undovars, StacksOK
  <1>6. CASE DrawInNew(p)
    <2>1. PICK b \in Buf \ heap : /\ chain' = Append(chain, b)
                                  /\ heap' = heap \cup {b}
                                  /\ text' = [text EXCEPT ![b] = w]
      BY <1>6 DEF DrawInNew
    <2>2. BuffersOK'
      <3> HIDE DEF w
      <3>1. QED
        BY <1>1, <2>1 DEF BuffersOK, TextOK
    <2>3. chain' \in Seq(Buf) /\ Len(chain') = Len(chain) + 1
      BY <2>1, AppendProperties DEF ChainsOK
    <2>4. ChainsOK'
      BY <1>2, <1>6, <2>1, <2>3 DEF DrawInNew, ChainsOK
    <2>5. QED
      BY <1>3, <1>6, <2>2, <2>4 DEF DrawInNew, undovars, StacksOK
  <1>7. CASE DrawNoMemory(p)
    <2>1. StacksOK'
      BY <1>7, ForgetOK DEF DrawNoMemory, BufferError, StacksOK
    <2>2. ChainsOK'
      BY <1>7 DEF DrawNoMemory, BufferError, ChainsOK, LiveHeap
    <2>3. QED
      BY <1>3, <1>7, <2>1, <2>2 DEF DrawNoMemory, BuffersOK
  <1>8. QED
    BY <1>4, <1>5, <1>6, <1>7 DEF Draw

(* The end of the chain is a position.                                     *)
LEMMA EndMarkOK ==
  ASSUME MetaAssumption, TypeOK
  PROVE  EndMark \in Mark /\ EndMark.gen = undogen
  <1>1. undogen \in Nat
    BY DEF TypeOK, StacksOK, MetaAssumption
  <1>2. CASE last = 0
    BY <1>1, <1>2 DEF EndMark, Mark
  <1>3. CASE last # 0
    <2>1. chain[last] \in Buf
      BY <1>3, ElementOfSeq, LenProperties DEF TypeOK, ChainsOK
    <2>2. Len(text[chain[last]]) \in Nat
      BY <2>1, LenProperties DEF TypeOK, BuffersOK, TextOK
    <2>3. QED
      BY <1>1, <1>3, <2>1, <2>2 DEF EndMark, Mark
  <1>4. QED
    BY <1>2, <1>3

LEMMA BeginOK ==
  ASSUME MetaAssumption, TypeOK, BeginCommand
  PROVE  TypeOK'
  <1> USE DEF TypeOK
  <1>1. undopend' \in Seq(Mark) /\ Len(undopend') <= 1
    BY EndMarkOK, Single DEF BeginCommand
  <1>2. StacksOK'
    BY <1>1 DEF BeginCommand, StacksOK
  <1>3. QED
    BY <1>2 DEF BeginCommand, chainvars, dbvars, ChainsOK, BuffersOK, FlagsOK

(* Pushing a step keeps the stack within its limit.                        *)
LEMMA PushOK ==
  ASSUME MetaAssumption, TypeOK, NEW s \in Step, s.gen <= undoseq, PushStep(s),
         undolim >= 1
  PROVE  /\ undostk' \in Seq(Step) /\ Len(undostk') <= undolim
         /\ \A i \in 1 .. Len(undostk') : undostk'[i].gen <= undoseq
         /\ heap' \subseteq heap
  <1> USE DEF TypeOK
  <1>1. /\ undostk \in Seq(Step) /\ Len(undostk) \in Nat /\ undolim \in Nat
        /\ Len(undostk) <= undolim
        /\ \A i \in 1 .. Len(undostk) : undostk[i].gen <= undoseq
    BY LenProperties DEF StacksOK, MetaAssumption
  <1>2. CASE Len(undostk) = undolim
    <2>1. undostk # << >>
      BY <1>1, <1>2, EmptySeq
    <2>2. /\ Tail(undostk) \in Seq(Step) /\ Len(Tail(undostk)) = Len(undostk) - 1
          /\ \A i \in 1 .. Len(Tail(undostk)) : Tail(undostk)[i] = undostk[i + 1]
      BY <1>1, <2>1, HeadTailProperties
    <2>3. undostk' = Append(Tail(undostk), s) /\ heap' \subseteq heap
      BY <1>2 DEF PushStep
    <2>4. /\ undostk' \in Seq(Step) /\ Len(undostk') = Len(undostk)
          /\ \A i \in 1 .. Len(undostk) - 1 : undostk'[i] = undostk[i + 1]
          /\ undostk'[Len(undostk)] = s
      BY <1>1, <2>2, <2>3, AppendProperties
    <2>5. ASSUME NEW i \in 1 .. Len(undostk')
          PROVE  undostk'[i].gen <= undoseq
      <3>1. CASE i = Len(undostk)
        BY <2>4, <3>1
      <3>2. CASE i # Len(undostk)
        <4>1. i \in 1 .. Len(undostk) - 1 /\ i + 1 \in 1 .. Len(undostk)
          BY <1>1, <2>4, <3>2
        <4>2. QED
          BY <1>1, <2>4, <4>1
      <3>3. QED
        BY <3>1, <3>2
    <2>6. QED
      BY <1>1, <1>2, <2>3, <2>4, <2>5
  <1>3. CASE Len(undostk) # undolim
    <2>1. undostk' = Append(undostk, s) /\ heap' = heap
      BY <1>3 DEF PushStep
    <2>2. /\ undostk' \in Seq(Step) /\ Len(undostk') = Len(undostk) + 1
          /\ \A i \in 1 .. Len(undostk) : undostk'[i] = undostk[i]
          /\ undostk'[Len(undostk) + 1] = s
      BY <1>1, <2>1, AppendProperties
    <2>3. QED
      BY <1>1, <1>3, <2>1, <2>2
  <1>4. QED
    BY <1>2, <1>3

LEMMA EndOK ==
  ASSUME MetaAssumption, TypeOK, EndCommand
  PROVE  TypeOK'
  <1> USE DEF TypeOK
  <1>1. UNCHANGED <<chain, last, fore, forelast, text, mbuferror, dbmode, bufmod,
                    dbflg, undolim, undogen, undoseq>>
        /\ undopend' = << >> /\ undoclr' = << >> /\ running' = FALSE
    BY DEF EndCommand, chainvars, dbvars
  <1>2. /\ heap' \subseteq heap
        /\ undostk' \in Seq(Step) /\ Len(undostk') <= undolim
        /\ \A i \in 1 .. Len(undostk') : undostk'[i].gen <= undoseq
    <2>1. CASE undopend = << >> \/ undolim < 1 \/ mbuferror
      BY <2>1 DEF EndCommand, StacksOK
    <2> SUFFICES ASSUME ~(undopend = << >> \/ undolim < 1 \/ mbuferror)
                 PROVE  /\ heap' \subseteq heap
                        /\ undostk' \in Seq(Step) /\ Len(undostk') <= undolim
                        /\ \A i \in 1 .. Len(undostk') : undostk'[i].gen <= undoseq
      BY <2>1
    <2>2. undolim >= 1
      BY DEF StacksOK, MetaAssumption
    <2>3. CASE undoclr # << >>
      <3>1. undoclr[1] \in Step /\ undoclr[1].gen <= undoseq
        BY <2>3, FirstElement DEF StacksOK
      <3>2. QED
        BY <2>2, <2>3, <3>1, PushOK DEF EndCommand
    <2>4. CASE undoclr = << >> /\ Usable(undopend[1]) /\ EndMark # undopend[1]
      <3>1. undopend[1] \in Mark /\ undopend[1].gen = undogen
        BY <2>4, FirstElement DEF StacksOK, Usable
      <3>2. /\ DrewStep(undopend[1]) \in Step
            /\ DrewStep(undopend[1]).gen <= undoseq
        BY <3>1 DEF DrewStep, Step, Mark, StacksOK, MetaAssumption
      <3>3. PushStep(DrewStep(undopend[1]))
        BY <2>4 DEF EndCommand
      <3>4. QED
        BY <2>2, <3>2, <3>3, PushOK
    <2>5. CASE undoclr = << >> /\ ~(Usable(undopend[1]) /\ EndMark # undopend[1])
      BY <2>5 DEF EndCommand, StacksOK
    <2>6. QED
      BY <2>3, <2>4, <2>5
  <1>3. StacksOK'
    BY <1>1, <1>2 DEF StacksOK
  <1>4. ChainsOK' /\ BuffersOK' /\ FlagsOK'
    BY <1>1, <1>2 DEF ChainsOK, BuffersOK, FlagsOK
  <1>5. QED
    BY <1>3, <1>4

(* The stack without its top.                                              *)
LEMMA PopOK ==
  ASSUME MetaAssumption, StacksOK, undostk # << >>
  PROVE  LET stk == SubSeq(undostk, 1, Len(undostk) - 1)
         IN  /\ stk \in Seq(Step) /\ Len(stk) = Len(undostk) - 1
             /\ \A i \in 1 .. Len(stk) : stk[i] = undostk[i]
             /\ Len(undostk) \in 1 .. undolim
             /\ \A i \in 1 .. Len(stk) : stk[i].gen <= undoseq
  <1>1. Len(undostk) \in Nat /\ Len(undostk) >= 1 /\ undolim \in Nat
    BY FirstElement DEF StacksOK, MetaAssumption
  <1>2. /\ SubSeq(undostk, 1, Len(undostk) - 1) \in Seq(Step)
        /\ Len(SubSeq(undostk, 1, Len(undostk) - 1)) = Len(undostk) - 1
        /\ \A i \in 1 .. Len(undostk) - 1 :
             SubSeq(undostk, 1, Len(undostk) - 1)[i] = undostk[i]
    <2>1. Len(undostk) - 1 \in 0 .. Len(undostk) /\ undostk \in Seq(Step)
      BY <1>1 DEF StacksOK
    <2> DEFINE n == Len(undostk) - 1
    <2> HIDE DEF n
    <2>2. n \in 0 .. Len(undostk) /\ n = Len(undostk) - 1
      BY <2>1 DEF n
    <2>3. /\ SubSeq(undostk, 1, n) \in Seq(Step)
          /\ Len(SubSeq(undostk, 1, n)) = IF 1 <= n THEN n - 1 + 1 ELSE 0
          /\ \A i \in 1 .. n - 1 + 1 : SubSeq(undostk, 1, n)[i] = undostk[1 + i - 1]
      BY <2>1, <2>2, Piece
    <2>4. /\ Len(SubSeq(undostk, 1, n)) = n
          /\ \A i \in 1 .. n : SubSeq(undostk, 1, n)[i] = undostk[i]
      BY <1>1, <2>2, <2>3
    <2>5. QED
      BY <2>3, <2>4 DEF n
  <1>3. \A i \in 1 .. Len(undostk) - 1 : undostk[i].gen <= undoseq
    BY <1>1 DEF StacksOK
  <1>4. Len(undostk) \in 1 .. undolim
    BY <1>1 DEF StacksOK
  <1> DEFINE stk == SubSeq(undostk, 1, Len(undostk) - 1)
  <1>5. \A i \in 1 .. Len(stk) : stk[i] = undostk[i] /\ stk[i].gen <= undoseq
    BY <1>2, <1>3
  <1>6. QED
    BY <1>2, <1>4, <1>5

LEMMA UndoOK ==
  ASSUME MetaAssumption, TypeOK, Undo
  PROVE  TypeOK'
  <1> USE MetaAssumption DEF TypeOK
  <1>1. /\ UNCHANGED <<fore, forelast, mbuferror, dbmode, bufmod, dbflg, undolim,
                       running>>
        /\ undostk # << >>
    BY DEF Undo, dbvars
  <1>2. TopStep \in Step /\ TopStep.chain \in Seq(Buf) /\ TopStep.gen \in 0 .. undoseq
        /\ TopStep.mark \in Mark
    <2>1. Len(undostk) \in 1 .. Len(undostk)
      BY <1>1, FirstElement DEF StacksOK
    <2>2. QED
      BY <2>1, StepTyped DEF TopStep, StacksOK
  <1>3. TextOK(<< >>)
    BY EmptySeq DEF MetaAssumption, TextOK
  <1>4. CASE UndoFrame
    <2>1. StacksOK'
      <3>1. undogen' = TopStep.gen /\ undostk' = SubSeq(undostk, 1, Len(undostk) - 1)
            /\ UNCHANGED <<undoseq, undopend, undoclr>>
        BY <1>4 DEF UndoFrame
      <3>2. QED
        BY <1>1, <1>2, <3>1, PopOK DEF StacksOK
    <2>2. BuffersOK'
      BY <1>3, <1>4, RestartOK DEF UndoFrame, ChainsOK, BuffersOK
    <2>3. ChainsOK'
      <3>1. /\ chain' \in Seq(Buf) /\ Len(chain') = Len(TopStep.chain) + Len(chain)
            /\ Len(chain) \in Nat /\ Len(TopStep.chain) \in Nat
        BY <1>2, <1>4, ConcatProperties, LenProperties DEF UndoFrame, ChainsOK
      <3>2. last' \in 0 .. Len(chain')
        BY <1>4, <3>1, BufsOK DEF UndoFrame, ChainsOK
      <3>3. QED
        BY <1>1, <1>4, <3>1, <3>2 DEF UndoFrame, ChainsOK
    <2>4. QED
      BY <1>1, <2>1, <2>2, <2>3 DEF FlagsOK
  <1>5. CASE UndoDraw
    <2> DEFINE m == TopStep.mark
    <2>1. StacksOK'
      <3>1. undostk' = SubSeq(undostk, 1, Len(undostk) - 1)
            /\ UNCHANGED <<undogen, undoseq, undopend, undoclr>>
        BY <1>5 DEF UndoDraw
      <3>2. QED
        BY <1>1, <3>1, PopOK DEF StacksOK
    <2>2. CASE m.buf = NoBuf
      <3>1. last' = Head1(chain) /\ text' = Restart(chain, << >>) /\ UNCHANGED <<chain, heap>>
        BY <1>5, <2>2 DEF UndoDraw
      <3>2. BuffersOK'
        BY <1>3, <3>1, RestartOK DEF ChainsOK, BuffersOK
      <3>3. ChainsOK'
        BY <1>1, <3>1, BufsOK DEF ChainsOK
      <3>4. QED
        BY <1>1, <2>1, <3>2, <3>3 DEF FlagsOK
    <2>3. CASE m.buf # NoBuf
      <3>1. /\ last' = CHOOSE i \in 1 .. last : chain[i] = m.buf
            /\ text' = [text EXCEPT ![m.buf] = SubSeq(@, 1, m.used)]
            /\ UNCHANGED <<chain, heap>>
        BY <1>5, <2>3 DEF UndoDraw
      <3>2. \E i \in 1 .. last : chain[i] = m.buf /\ m.used <= Len(text[m.buf])
        BY <1>5, <2>3 DEF UndoDraw, Usable
      <3>3. m.buf \in Buf /\ m.used \in Nat
        BY <1>2, <2>3 DEF Mark
      <3>4. TextOK(SubSeq(text[m.buf], 1, m.used))
        <4>1. text[m.buf] \in Seq(Word) /\ Len(text[m.buf]) \in Nat
              /\ Len(text[m.buf]) <= BufLen
          BY <3>3, LenProperties DEF BuffersOK, TextOK
        <4>2. m.used \in 0 .. Len(text[m.buf])
          BY <3>2, <3>3, <4>1
        <4>3. /\ SubSeq(text[m.buf], 1, m.used) \in Seq(Word)
              /\ Len(SubSeq(text[m.buf], 1, m.used)) =
                   IF 1 <= m.used THEN m.used - 1 + 1 ELSE 0
          BY <4>1, <4>2, Piece
        <4>4. QED
          BY <3>3, <4>1, <4>2, <4>3 DEF TextOK, MetaAssumption
      <3>5. BuffersOK'
        <4> HIDE DEF m
        <4>1. QED
          BY <3>1, <3>3, <3>4 DEF BuffersOK, TextOK
      <3>6. last' \in 1 .. last
        BY <3>1, <3>2
      <3>7. ChainsOK'
        BY <1>1, <3>1, <3>6, LenProperties DEF ChainsOK
      <3>8. QED
        BY <1>1, <2>1, <3>5, <3>7 DEF FlagsOK
    <2>4. QED
      BY <2>2, <2>3
  <1>6. CASE UndoStale
    <2>1. StacksOK'
      BY <1>1, <1>6, ForgetOK DEF UndoStale, StacksOK
    <2>2. QED
      BY <1>1, <1>6, <2>1 DEF UndoStale, ChainsOK, BuffersOK, FlagsOK, LiveHeap
  <1>7. QED
    BY <1>4, <1>5, <1>6 DEF Undo

(* The model stays within its types, its buffers within their length and   *)
(* the stack within the limit set, whatever the allocator and scripts do.  *)
THEOREM TypeCorrect == Spec => []TypeOK
  <1> USE MetaAssumption
  <1>1. Init => TypeOK
    <2> SUFFICES ASSUME Init PROVE TypeOK
      OBVIOUS
    <2>1. /\ chain \in Seq(Buf) /\ last \in 0 .. Len(chain)
          /\ heap \subseteq Buf
      BY NewChainOK, BufsOK DEF Init
    <2>2. TextOK(<< >>) /\ << >> \in Seq(Word)
      BY EmptySeq DEF MetaAssumption, TextOK
    <2>3. StacksOK
      <3>1. << >> \in Seq(Step) /\ << >> \in Seq(Mark) /\ Len(<< >>) = 0
        BY EmptySeq
      <3>2. QED
        BY <3>1 DEF Init, StacksOK, MetaAssumption
    <2>4. ChainsOK
      BY <2>1, EmptySeq DEF Init, ChainsOK
    <2>5. BuffersOK /\ FlagsOK
      BY <2>2 DEF Init, BuffersOK, FlagsOK
    <2>6. QED
      BY <2>3, <2>4, <2>5 DEF TypeOK
  <1>2. TypeOK /\ [Next]_vars => TypeOK'
    <2> SUFFICES ASSUME TypeOK, [Next]_vars PROVE TypeOK'
      OBVIOUS
    <2> USE DEF TypeOK
    <2>0. TextOK(Backdrop) /\ TextOK(<< >>)
      BY EmptySeq DEF MetaAssumption, TextOK
    <2>1. CASE BeginCommand
      BY <2>1, BeginOK
    <2>2. ASSUME NEW p \in Prim, Draw(p) PROVE TypeOK'
      BY <2>2, DrawOK
    <2>3. CASE Clear
      BY <2>0, <2>3, FrameAsideOK, FrameNewOK DEF Clear, FlagsOK
    <2>4. CASE ClearHbuff
      BY <2>0, <2>4, FrameNewOK DEF ClearHbuff, FlagsOK
    <2>5. CASE ClearEvents
      BY <2>5 DEF ClearEvents, chainvars, undovars, ChainsOK, BuffersOK, FlagsOK, StacksOK
    <2>6. CASE Reset
      BY <2>0, <2>6, FrameNewOK DEF Reset, FlagsOK
    <2>7. CASE SetDbuffOn
      BY <2>7, FrameNextOK DEF SetDbuffOn, FlagsOK
    <2>8. CASE SetDbuffOff
      BY <2>0, <2>8, FrameNewOK DEF SetDbuffOff, FlagsOK
    <2>9. CASE Swap
      BY <2>9, FrameNextOK DEF Swap, FlagsOK
    <2>10. CASE AnimFrame
      BY <2>10, FrameNextOK DEF AnimFrame, FlagsOK
    <2>11. ASSUME NEW n \in 0 .. MaxLim, SetUndo(n) PROVE TypeOK'
      <3>1. StacksOK'
        BY <2>11, ForgetOK DEF SetUndo
      <3>2. QED
        BY <2>11, <3>1 DEF SetUndo, chainvars, dbvars, ChainsOK, BuffersOK, FlagsOK, LiveHeap
    <2>12. CASE Undo
      BY <2>12, UndoOK
    <2>13. CASE EndCommand
      BY <2>13, EndOK
    <2>14. CASE UNCHANGED vars
      BY <2>14 DEF vars, chainvars, dbvars, undovars, ChainsOK, BuffersOK, FlagsOK, StacksOK
    <2>15. QED
      BY <2>1, <2>2, <2>3, <2>4, <2>5, <2>6, <2>7, <2>8, <2>9, <2>10, <2>11, <2>12,
         <2>13, <2>14 DEF Next
  <1>3. QED
    BY <1>1, <1>2, PTL DEF Spec

-----------------------------------------------------------------------------
(* Memory: no buffer has two owners, none is lost, none is used when free. *)

(* No buffers in the empty chain or the empty stack.                       *)
LEMMA NoBuffers ==
  /\ Bufs(<< >>) = {} /\ Distinct(<< >>)
  /\ StepBufs(<< >>) = {} /\ StepsApart(<< >>)
  BY DEF Bufs, Distinct, StepBufs, StepsApart

LEMMA OneBuffer ==
  ASSUME NEW b \in Buf
  PROVE  Bufs(<<b>>) = {b} /\ Distinct(<<b>>)
  BY DEF Bufs, Distinct

(* A chain cut in two. *)
LEMMA CutChain ==
  ASSUME NEW c \in Seq(Buf), Distinct(c), NEW n \in 0 .. Len(c)
  PROVE  LET p == SubSeq(c, 1, n)  q == SubSeq(c, n + 1, Len(c))
         IN  /\ Distinct(p) /\ Distinct(q) /\ Apart(p, q)
             /\ Bufs(p) \cup Bufs(q) = Bufs(c)
  <1> DEFINE p == SubSeq(c, 1, n)
  <1> DEFINE q == SubSeq(c, n + 1, Len(c))
  <1>1. Len(c) \in Nat /\ n \in Nat /\ n <= Len(c)
    BY LenProperties
  <1>2. Len(p) = n /\ \A i \in 1 .. n : p[i] = c[i]
    <2>1. /\ Len(p) = IF 1 <= n THEN n - 1 + 1 ELSE 0
          /\ \A i \in 1 .. n - 1 + 1 : p[i] = c[1 + i - 1]
      BY <1>1, Piece
    <2>2. QED
      BY <1>1, <2>1
  <1>3. Len(q) = Len(c) - n /\ \A i \in 1 .. Len(c) - n : q[i] = c[n + i]
    <2>1. n + 1 \in Nat \ {0} /\ Len(c) \in 0 .. Len(c)
      BY <1>1
    <2>2. /\ Len(q) = IF n + 1 <= Len(c) THEN Len(c) - (n + 1) + 1 ELSE 0
          /\ \A i \in 1 .. Len(c) - (n + 1) + 1 : q[i] = c[n + 1 + i - 1]
      BY <2>1, Piece
    <2>3. QED
      BY <1>1, <2>2
  <1> HIDE DEF p, q
  <1>4. Distinct(p) /\ Distinct(q)
    BY <1>1, <1>2, <1>3, SMTT(30) DEF Distinct
  <1>5. Apart(p, q)
    BY <1>1, <1>2, <1>3 DEF Distinct, Apart, Bufs
  <1>6. Bufs(p) \cup Bufs(q) = Bufs(c)
    <2>1. Bufs(p) \cup Bufs(q) \subseteq Bufs(c)
      BY <1>1, <1>2, <1>3 DEF Bufs
    <2>2. ASSUME NEW i \in 1 .. Len(c)
          PROVE  c[i] \in Bufs(p) \cup Bufs(q)
      <3>1. CASE i <= n
        BY <1>1, <1>2, <3>1 DEF Bufs
      <3>2. CASE i > n
        <4>1. i - n \in 1 .. Len(c) - n /\ q[i - n] = c[i]
          BY <1>1, <1>3, <3>2
        <4>2. QED
          BY <1>3, <4>1 DEF Bufs
      <3>3. QED
        BY <1>1, <3>1, <3>2
    <2>3. QED
      BY <2>1, <2>2 DEF Bufs
  <1>7. QED
    BY <1>4, <1>5, <1>6 DEF p, q

(* Two chains joined. *)
LEMMA JoinChains ==
  ASSUME NEW c \in Seq(Buf), NEW d \in Seq(Buf), Distinct(c), Distinct(d), Apart(c, d)
  PROVE  Distinct(c \o d) /\ Bufs(c \o d) = Bufs(c) \cup Bufs(d)
  <1> DEFINE e == c \o d
  <1>1. Len(c) \in Nat /\ Len(d) \in Nat /\ Len(e) = Len(c) + Len(d)
    BY LenProperties, ConcatProperties
  <1>2. /\ \A i \in 1 .. Len(c) : e[i] = c[i]
        /\ \A i \in 1 .. Len(e) : i > Len(c) => e[i] = d[i - Len(c)]
    BY <1>1, ConcatProperties
  <1> HIDE DEF e
  <1>3. \A i \in 1 .. Len(e) : i <= Len(c) => i \in 1 .. Len(c) /\ e[i] = c[i]
    BY <1>1, <1>2
  <1>4. \A i \in 1 .. Len(e) : i > Len(c) => i - Len(c) \in 1 .. Len(d)
                                             /\ e[i] = d[i - Len(c)]
    BY <1>1, <1>2
  <1>5. \A i \in 1 .. Len(d) : i + Len(c) \in 1 .. Len(e) /\ e[i + Len(c)] = d[i]
    BY <1>1, <1>2
  <1>6. Bufs(e) = Bufs(c) \cup Bufs(d)
    <2>1. ASSUME NEW i \in 1 .. Len(e) PROVE e[i] \in Bufs(c) \cup Bufs(d)
      BY <1>1, <1>3, <1>4 DEF Bufs
    <2>2. ASSUME NEW i \in 1 .. Len(c) PROVE c[i] \in Bufs(e)
      BY <1>1, <1>2 DEF Bufs
    <2>3. ASSUME NEW i \in 1 .. Len(d) PROVE d[i] \in Bufs(e)
      BY <1>5 DEF Bufs
    <2>4. QED
      BY <2>1, <2>2, <2>3 DEF Bufs
  <1>7. ASSUME NEW i \in 1 .. Len(e), NEW k \in 1 .. Len(e), e[i] = e[k]
        PROVE  i = k
    <2>1. \A x \in 1 .. Len(c), y \in 1 .. Len(d) : c[x] # d[y]
      BY DEF Apart, Bufs
    <2>2. CASE i <= Len(c) /\ k <= Len(c)
      BY <1>3, <1>7, <2>2 DEF Distinct
    <2>3. CASE i > Len(c) /\ k > Len(c)
      <3>1. i - Len(c) = k - Len(c)
        BY <1>4, <1>7, <2>3 DEF Distinct
      <3>2. QED
        BY <1>1, <3>1
    <2>4. CASE (i <= Len(c) /\ k > Len(c)) \/ (i > Len(c) /\ k <= Len(c))
      BY <1>3, <1>4, <1>7, <2>1, <2>4
    <2>5. QED
      BY <1>1, <2>2, <2>3, <2>4
  <1>8. QED
    BY <1>6, <1>7 DEF Distinct, e

(* A chain with one more buffer. *)
LEMMA GrowChain ==
  ASSUME NEW c \in Seq(Buf), Distinct(c), NEW b \in Buf, b \notin Bufs(c)
  PROVE  Distinct(Append(c, b)) /\ Bufs(Append(c, b)) = Bufs(c) \cup {b}
  <1>1. Append(c, b) = c \o <<b>>
    BY AppendIsConcat
  <1>2. <<b>> \in Seq(Buf) /\ Distinct(<<b>>) /\ Bufs(<<b>>) = {b}
    BY OneBuffer, Single
  <1>3. Apart(c, <<b>>)
    BY <1>2 DEF Apart
  <1>4. Distinct(c \o <<b>>) /\ Bufs(c \o <<b>>) = Bufs(c) \cup Bufs(<<b>>)
    BY <1>2, <1>3, JoinChains
  <1>5. QED
    BY <1>1, <1>2, <1>4

(* A step pushed. *)
LEMMA PushBufs ==
  ASSUME NEW stk \in Seq(Step), NEW s \in Step, StepsApart(stk), Distinct(s.chain),
         Bufs(s.chain) \cap StepBufs(stk) = {}
  PROVE  /\ StepsApart(Append(stk, s))
         /\ StepBufs(Append(stk, s)) = StepBufs(stk) \cup Bufs(s.chain)
  <1> DEFINE t == Append(stk, s)
  <1>1. /\ Len(stk) \in Nat /\ Len(t) = Len(stk) + 1
        /\ \A i \in 1 .. Len(stk) : t[i] = stk[i]
        /\ t[Len(t)] = s
    BY LenProperties, AppendProperties
  <1> HIDE DEF t
  <1>2. \A i \in 1 .. Len(t) : i # Len(t) => i \in 1 .. Len(stk) /\ t[i] = stk[i]
    BY <1>1
  <1>3. \A i \in 1 .. Len(stk) : i \in 1 .. Len(t) /\ t[i] = stk[i]
    BY <1>1
  <1>4. \A i \in 1 .. Len(stk) : Apart(stk[i].chain, s.chain) /\ Apart(s.chain, stk[i].chain)
    BY DEF StepBufs, Apart
  <1>5. StepsApart(t)
    <2>1. \A i \in 1 .. Len(t) : Distinct(t[i].chain)
      BY <1>1, <1>2 DEF StepsApart
    <2>2. ASSUME NEW i \in 1 .. Len(t), NEW j \in 1 .. Len(t), i # j
          PROVE  Apart(t[i].chain, t[j].chain)
      <3>1. CASE i # Len(t) /\ j # Len(t)
        BY <1>2, <2>2, <3>1 DEF StepsApart
      <3>2. CASE i = Len(t) /\ j # Len(t)
        BY <1>1, <1>2, <1>4, <3>2
      <3>3. CASE i # Len(t) /\ j = Len(t)
        BY <1>1, <1>2, <1>4, <3>3
      <3>4. QED
        BY <2>2, <3>1, <3>2, <3>3
    <2>3. QED
      BY <2>1, <2>2 DEF StepsApart
  <1>6. StepBufs(t) = StepBufs(stk) \cup Bufs(s.chain)
    <2>1. Len(t) \in 1 .. Len(t)
      BY <1>1
    <2>2. StepBufs(t) \subseteq StepBufs(stk) \cup Bufs(s.chain)
      BY <1>1, <1>2 DEF StepBufs
    <2>3. StepBufs(stk) \cup Bufs(s.chain) \subseteq StepBufs(t)
      BY <1>1, <1>3, <2>1 DEF StepBufs
    <2>4. QED
      BY <2>2, <2>3
  <1>7. QED
    BY <1>5, <1>6 DEF t

(* A stack t that is stk without the step at k. *)
LEMMA DropBufs ==
  ASSUME NEW stk \in Seq(Step), StepsApart(stk), NEW k \in {1, Len(stk)}, stk # << >>,
         NEW t \in Seq(Step), Len(t) = Len(stk) - 1,
         \A i \in 1 .. Len(t) : t[i] = stk[IF k = 1 THEN i + 1 ELSE i]
  PROVE  /\ StepsApart(t) /\ Distinct(stk[k].chain)
         /\ StepBufs(t) \cap Bufs(stk[k].chain) = {}
         /\ StepBufs(stk) = StepBufs(t) \cup Bufs(stk[k].chain)
  <1> DEFINE f(i) == IF k = 1 THEN i + 1 ELSE i
  <1>1. Len(stk) \in Nat /\ Len(stk) >= 1 /\ Len(t) \in Nat /\ k \in 1 .. Len(stk)
    BY FirstElement, LenProperties
  <1>2. \A i \in 1 .. Len(t) : /\ f(i) \in 1 .. Len(stk) /\ f(i) # k
                               /\ t[i] = stk[f(i)]
    BY <1>1
  <1>3. \A i, j \in 1 .. Len(t) : i # j => f(i) # f(j)
    BY <1>1
  <1>4. \A j \in 1 .. Len(stk) : j # k => \E i \in 1 .. Len(t) : f(i) = j
    <2> SUFFICES ASSUME NEW j \in 1 .. Len(stk), j # k
                 PROVE  \E i \in 1 .. Len(t) : f(i) = j
      OBVIOUS
    <2>1. CASE k = 1
      <3>1. j - 1 \in 1 .. Len(t) /\ f(j - 1) = j
        BY <1>1, <2>1
      <3>2. QED
        BY <3>1
    <2>2. CASE k # 1
      BY <1>1, <2>2
    <2>3. QED
      BY <2>1, <2>2
  <1> HIDE DEF f
  <1>5. StepsApart(t)
    BY <1>2, <1>3 DEF StepsApart
  <1>6. StepBufs(t) \cap Bufs(stk[k].chain) = {}
    <2>1. \A i \in 1 .. Len(t) : Bufs(t[i].chain) \cap Bufs(stk[k].chain) = {}
      BY <1>1, <1>2 DEF StepsApart, Apart
    <2>2. QED
      BY <2>1 DEF StepBufs
  <1>7. StepBufs(stk) = StepBufs(t) \cup Bufs(stk[k].chain)
    <2>1. StepBufs(t) \cup Bufs(stk[k].chain) \subseteq StepBufs(stk)
      <3>1. \A i \in 1 .. Len(t) : Bufs(t[i].chain) \subseteq StepBufs(stk)
        BY <1>2 DEF StepBufs
      <3>2. Bufs(stk[k].chain) \subseteq StepBufs(stk)
        BY <1>1 DEF StepBufs
      <3>3. QED
        BY <3>1, <3>2 DEF StepBufs
    <2>2. StepBufs(stk) \subseteq StepBufs(t) \cup Bufs(stk[k].chain)
      <3>1. ASSUME NEW j \in 1 .. Len(stk), j # k
            PROVE  Bufs(stk[j].chain) \subseteq StepBufs(t)
        <4>1. PICK i \in 1 .. Len(t) : f(i) = j
          BY <1>4, <3>1
        <4>2. t[i] = stk[j]
          BY <1>2, <4>1
        <4>3. QED
          BY <4>2 DEF StepBufs
      <3>2. QED
        BY <3>1 DEF StepBufs
    <2>3. QED
      BY <2>1, <2>2
  <1>8. QED
    BY <1>1, <1>5, <1>6, <1>7 DEF StepsApart

(* What ownership rests on: outside double buffering there is one chain; a *)
(* step that only drew owns no buffer; what a clear sets aside is a frame. *)
OneChain == ~dbmode => fore = << >>

StepKinds ==
  /\ \A i \in 1 .. Len(undostk) : ~undostk[i].frame => undostk[i].chain = << >>
  /\ \A i \in 1 .. Len(undoclr) : undoclr[i].frame

MemoryInv ==
  /\ BuffersOwnedOnce /\ HeapAccounted
  /\ OneChain /\ StepKinds /\ NoFrameStepsInDoubleBuffering

(* Without steps, ownership is a matter of the two chains.                 *)
LEMMA Forgotten ==
  ASSUME undostk' = << >>, undoclr' = << >>,
         Distinct(chain'), Distinct(fore'), Apart(chain', fore'),
         heap' = Bufs(chain') \cup Bufs(fore'),
         ~dbmode' => fore' = << >>
  PROVE  MemoryInv'
  <1>1. StepHeap' = {} /\ StepsApart(undostk') /\ StepsApart(undoclr')
        /\ StepBufs(undostk') = {} /\ StepBufs(undoclr') = {}
    BY NoBuffers DEF StepHeap
  <1>2. BuffersOwnedOnce' /\ HeapAccounted'
    BY <1>1 DEF BuffersOwnedOnce, HeapAccounted
  <1>3. StepKinds' /\ NoFrameStepsInDoubleBuffering'
    <2>1. Len(undostk') = 0 /\ Len(undoclr') = 0
      OBVIOUS
    <2>2. QED
      BY <2>1 DEF StepKinds, NoFrameStepsInDoubleBuffering
  <1>4. QED
    BY <1>2, <1>3 DEF MemoryInv, OneChain

(* What is left without the steps is what the chains hold.                 *)
LEMMA LiveIsChains ==
  ASSUME MemoryInv
  PROVE  /\ LiveHeap = Bufs(chain) \cup Bufs(fore)
         /\ Distinct(chain) /\ Distinct(fore) /\ Apart(chain, fore)
         /\ LiveHeap \ Bufs(chain) = Bufs(fore)
         /\ Apart(fore, chain)
  BY DEF MemoryInv, BuffersOwnedOnce, HeapAccounted, LiveHeap, Apart

(* Actions that leave chains, steps and the heap alone.                    *)
LEMMA MemorySame ==
  ASSUME MemoryInv,
         UNCHANGED <<chain, fore, heap, dbmode, undostk, undoclr>>
  PROVE  MemoryInv'
  <1>1. BuffersOwnedOnce' /\ HeapAccounted'
    BY DEF MemoryInv, BuffersOwnedOnce, HeapAccounted, StepHeap
  <1>2. QED
    BY <1>1 DEF MemoryInv, OneChain, StepKinds, NoFrameStepsInDoubleBuffering

LEMMA FrameNewMemory ==
  ASSUME MemoryInv, NEW t, FrameNew(t)
  PROVE  MemoryInv'
  <1>1. CASE FrameReset(t)
    BY <1>1, LiveIsChains, Forgotten DEF FrameReset, ForgetSteps, MemoryInv, OneChain
  <1>2. CASE FrameSingle(t)
    <2>1. Distinct(<< >>) /\ Bufs(<< >>) = {} /\ Apart(fore, << >>)
      BY NoBuffers DEF Apart
    <2>2. QED
      BY <1>2, <2>1, LiveIsChains, Forgotten DEF FrameSingle, ForgetSteps
  <1>3. QED
    BY <1>1, <1>2 DEF FrameNew

LEMMA NewChainMemory ==
  ASSUME NEW h, NEW c \in NewChain(h)
  PROVE  Distinct(c) /\ Bufs(c) \cap h = {}
  <1>1. CASE c = << >>
    BY <1>1, NoBuffers
  <1>2. CASE \E b \in Buf \ h : c = <<b>>
    BY <1>2, OneBuffer
  <1>3. QED
    BY <1>1, <1>2 DEF NewChain

LEMMA FrameNextMemory ==
  ASSUME MemoryInv, FrameNext
  PROVE  MemoryInv'
  <1>1. CASE FrameDouble
    <2>1. ~dbmode /\ fore = << >> /\ dbmode' = TRUE /\ undostk' = << >> /\ undoclr' = << >>
      BY <1>1 DEF FrameDouble, ForgetSteps, MemoryInv, OneChain
    <2>2. PICK c \in IF chain = << >> THEN NewChain(LiveHeap) ELSE {chain} :
            \E f \in NewChain(LiveHeap \cup Bufs(c)) :
              chain' = c /\ fore' = f /\ heap' = LiveHeap \cup Bufs(c) \cup Bufs(f)
      BY <1>1 DEF FrameDouble
    <2>3. PICK f \in NewChain(LiveHeap \cup Bufs(c)) :
            chain' = c /\ fore' = f /\ heap' = LiveHeap \cup Bufs(c) \cup Bufs(f)
      BY <2>2
    <2>4. LiveHeap = Bufs(chain) /\ Distinct(chain)
      BY <2>1, LiveIsChains, NoBuffers
    <2>5. Distinct(c) /\ Bufs(chain) \subseteq Bufs(c)
      <3>1. CASE chain = << >>
        BY <3>1, <2>2, NewChainMemory, NoBuffers
      <3>2. CASE chain # << >>
        BY <3>2, <2>2, <2>4
      <3>3. QED
        BY <3>1, <3>2
    <2>6. Distinct(f) /\ Apart(c, f)
      BY NewChainMemory DEF Apart
    <2>7. heap' = Bufs(c) \cup Bufs(f)
      BY <2>3, <2>4, <2>5
    <2>8. QED
      BY <2>1, <2>3, <2>5, <2>6, <2>7, Forgotten
  <1>2. CASE FrameSwap
    BY <1>2, LiveIsChains, Forgotten DEF FrameSwap, ForgetSteps
  <1>3. QED
    BY <1>1, <1>2 DEF FrameNext

(* A clear that can be undone hands the page's buffers to the step.        *)
LEMMA FrameAsideMemory ==
  ASSUME MetaAssumption, TypeOK, MemoryInv, ~dbmode, FrameAside
  PROVE  MemoryInv'
  <1> USE DEF TypeOK
  <1>1. UNCHANGED <<fore, dbmode>> /\ fore = << >>
    BY DEF FrameAside, MemoryInv, OneChain
  <1>2. CASE AsideNull
    BY <1>1, <1>2, MemorySame DEF AsideNull
  <1>3. CASE AsideNothing
    BY <1>1, <1>3, MemorySame DEF AsideNothing
  <1>4. CASE AsideNoMemory
    <2>1. Distinct(<< >>) /\ Bufs(<< >>) = {} /\ Apart(<< >>, fore)
      BY NoBuffers DEF Apart
    <2>2. heap' = Bufs(fore)
      BY <1>4, LiveIsChains DEF AsideNoMemory
    <2>3. QED
      BY <1>1, <1>4, <2>1, <2>2, LiveIsChains, Forgotten DEF AsideNoMemory
  <1>5. CASE AsideFrame
    <2> DEFINE p == SubSeq(chain, 1, last)
    <2> DEFINE q == SubSeq(chain, last + 1, Len(chain))
    <2>1. /\ chain \in Seq(Buf) /\ last \in 0 .. Len(chain) /\ Len(chain) \in Nat
          /\ Distinct(chain) /\ heap = Bufs(chain) \cup StepHeap
          /\ StepHeap \cap Bufs(chain) = {}
      BY <1>1, LenProperties, NoBuffers
         DEF ChainsOK, MemoryInv, BuffersOwnedOnce, HeapAccounted
    <2>2. Distinct(p) /\ Distinct(q) /\ Apart(p, q) /\ Bufs(p) \cup Bufs(q) = Bufs(chain)
      BY <2>1, CutChain
    <2>3. undoclr = << >> /\ undoclr' = <<FrameStep>> /\ undostk' = undostk
      BY <1>5 DEF AsideFrame
    <2>4. FrameStep.chain = p /\ FrameStep.frame
      BY DEF FrameStep
    <2> HIDE DEF p, q
    <2>5. PICK c : /\ chain' = c /\ heap' = heap \cup Bufs(c)
                   /\ c \in IF last < Len(chain) THEN {q}
                            ELSE {<<b>> : b \in Buf \ heap}
      BY <1>5 DEF AsideFrame, q
    <2>6. /\ Distinct(c) /\ Bufs(c) \cap (StepHeap \cup Bufs(p)) = {}
          /\ heap' = Bufs(c) \cup Bufs(p) \cup StepHeap
      <3>1. CASE last < Len(chain)
        BY <3>1, <2>1, <2>2, <2>5 DEF Apart
      <3>2. CASE last = Len(chain)
        <4>1. PICK b \in Buf \ heap : c = <<b>>
          BY <2>1, <2>5, <3>2
        <4>2. Bufs(c) = {b} /\ Distinct(c)
          BY <4>1, OneBuffer
        <4>3. Bufs(q) = {}
          <5>1. q = << >>
            BY <2>1, <3>2 DEF q
          <5>2. QED
            BY <5>1, NoBuffers
        <4>4. QED
          BY <2>1, <2>2, <2>5, <4>1, <4>2, <4>3
      <3>3. QED
        BY <2>1, <3>1, <3>2
    <2>7. /\ StepBufs(undoclr') = Bufs(p) /\ StepsApart(undoclr')
          /\ Len(undoclr') = 1 /\ undoclr'[1].frame
      <3>1. Len(undoclr') = 1 /\ undoclr'[1].chain = p /\ undoclr'[1].frame
        BY <2>3, <2>4
      <3>2. StepBufs(undoclr') = Bufs(p)
        BY <3>1 DEF StepBufs
      <3>3. StepsApart(undoclr')
        BY <2>2, <3>1 DEF StepsApart
      <3>4. QED
        BY <3>1, <3>2, <3>3
    <2>8. StepBufs(undoclr) = {} /\ StepHeap = StepBufs(undostk) /\ Bufs(fore) = {}
      BY <1>1, <2>3, NoBuffers DEF StepHeap
    <2>9. StepHeap' = StepBufs(undostk) \cup Bufs(p)
      BY <2>3, <2>7 DEF StepHeap
    <2>10. /\ StepsApart(undostk) /\ Distinct(fore')
           /\ StepBufs(undostk) \cap Bufs(p) = {} /\ Bufs(fore') = {}
      BY <1>1, <2>1, <2>2, <2>8 DEF MemoryInv, BuffersOwnedOnce
    <2>11. BuffersOwnedOnce'
      BY <2>3, <2>5, <2>6, <2>7, <2>8, <2>9, <2>10 DEF BuffersOwnedOnce, Apart
    <2>12. HeapAccounted'
      BY <2>5, <2>6, <2>8, <2>9, <2>10 DEF HeapAccounted
    <2>13. StepKinds' /\ OneChain' /\ NoFrameStepsInDoubleBuffering'
      BY <1>1, <2>3, <2>7
         DEF MemoryInv, StepKinds, OneChain, NoFrameStepsInDoubleBuffering
    <2>14. QED
      BY <2>11, <2>12, <2>13 DEF MemoryInv
  <1>6. QED
    BY <1>2, <1>3, <1>4, <1>5 DEF FrameAside

LEMMA DrawMemory ==
  ASSUME TypeOK, MemoryInv, NEW p \in Prim, Draw(p)
  PROVE  MemoryInv'
  <1>1. dbmode' = dbmode
    BY DEF Draw, dbvars
  <1>2. CASE DrawInPlace(p)
    BY <1>1, <1>2, MemorySame DEF DrawInPlace, chainvars, undovars
  <1>3. CASE DrawInSpare(p)
    BY <1>1, <1>3, MemorySame DEF DrawInSpare, undovars
  <1>4. CASE DrawInNew(p)
    <2>1. PICK b \in Buf \ heap : chain' = Append(chain, b) /\ heap' = heap \cup {b}
      BY <1>4 DEF DrawInNew
    <2>2. UNCHANGED <<fore, undostk, undoclr>>
      BY <1>4 DEF DrawInNew, undovars
    <2>3. b \notin Bufs(chain) \cup Bufs(fore) \cup StepHeap
      BY DEF MemoryInv, HeapAccounted
    <2>4. Distinct(chain') /\ Bufs(chain') = Bufs(chain) \cup {b}
      BY <2>1, <2>3, GrowChain DEF TypeOK, ChainsOK, MemoryInv, BuffersOwnedOnce
    <2>5. StepHeap' = StepHeap
      BY <2>2 DEF StepHeap
    <2>6. BuffersOwnedOnce'
      BY <2>2, <2>3, <2>4, <2>5 DEF MemoryInv, BuffersOwnedOnce, Apart
    <2>7. HeapAccounted'
      BY <2>1, <2>2, <2>4, <2>5 DEF MemoryInv, HeapAccounted
    <2>8. QED
      BY <1>1, <2>2, <2>6, <2>7
         DEF MemoryInv, OneChain, StepKinds, NoFrameStepsInDoubleBuffering
  <1>5. CASE DrawNoMemory(p)
    <2>1. /\ chain' = << >> /\ fore' = fore /\ heap' = Bufs(fore)
          /\ undostk' = << >> /\ undoclr' = << >>
      BY <1>5, LiveIsChains DEF DrawNoMemory, BufferError, ForgetSteps
    <2>2. /\ Distinct(chain') /\ Bufs(chain') = {} /\ Distinct(fore')
          /\ Apart(chain', fore')
      BY <2>1, NoBuffers, LiveIsChains DEF Apart
    <2>3. ~dbmode' => fore' = << >>
      BY <1>1, <2>1 DEF MemoryInv, OneChain
    <2>4. QED
      BY <2>1, <2>2, <2>3, Forgotten
  <1>6. QED
    BY <1>2, <1>3, <1>4, <1>5 DEF Draw

(* A step set aside and not kept is freed.                                 *)
LEMMA DropAside ==
  ASSUME MemoryInv, undoclr' = << >>, heap' = heap \ StepBufs(undoclr),
         UNCHANGED <<chain, fore, dbmode, undostk>>
  PROVE  MemoryInv'
  <1>1. StepBufs(undoclr') = {} /\ StepsApart(undoclr') /\ Len(undoclr') = 0
    BY NoBuffers
  <1>2. StepHeap' = StepBufs(undostk)
    BY <1>1 DEF StepHeap
  <1>3. BuffersOwnedOnce' /\ HeapAccounted'
    BY <1>1, <1>2 DEF MemoryInv, BuffersOwnedOnce, HeapAccounted, StepHeap, Apart
  <1>4. QED
    BY <1>1, <1>3 DEF MemoryInv, OneChain, StepKinds, NoFrameStepsInDoubleBuffering

LEMMA OneChainSame ==
  ASSUME OneChain, UNCHANGED <<fore, dbmode>>
  PROVE  OneChain'
  BY DEF OneChain

(* A step kept takes over the frame set aside; the oldest is freed if need *)
(* be.                                                                     *)
LEMMA PushMemory ==
  ASSUME MetaAssumption, TypeOK, MemoryInv, undolim >= 1,
         NEW s \in Step, PushStep(s), undoclr' = << >>,
         Distinct(s.chain), Bufs(s.chain) = StepBufs(undoclr),
         ~s.frame => s.chain = << >>, dbmode => ~s.frame,
         UNCHANGED <<chain, fore, dbmode>>
  PROVE  MemoryInv'
  <1> USE DEF TypeOK
  <1> DEFINE full == Len(undostk) = undolim
  <1> DEFINE old == IF full THEN Tail(undostk) ELSE undostk
  <1> DEFINE gone == IF full THEN Bufs(undostk[1].chain) ELSE {}
  <1>1. /\ undostk \in Seq(Step) /\ Len(undostk) \in Nat /\ undolim \in Nat
        /\ StepsApart(undostk) /\ StepBufs(undostk) \cap StepBufs(undoclr) = {}
        /\ heap = Bufs(chain) \cup Bufs(fore) \cup StepBufs(undostk) \cup StepBufs(undoclr)
        /\ (StepBufs(undostk) \cup StepBufs(undoclr)) \cap (Bufs(chain) \cup Bufs(fore)) = {}
    BY LenProperties
       DEF StacksOK, MetaAssumption, MemoryInv, BuffersOwnedOnce, HeapAccounted, StepHeap
  <1>2. /\ old \in Seq(Step) /\ StepsApart(old)
        /\ StepBufs(old) \cap gone = {} /\ StepBufs(undostk) = StepBufs(old) \cup gone
        /\ undostk' = Append(old, s) /\ heap' = heap \ gone
        /\ \A i \in 1 .. Len(old) : \E j \in 1 .. Len(undostk) : old[i] = undostk[j]
    <2>1. CASE full
      <3>1. undostk # << >>
        BY <1>1, <2>1, EmptySeq
      <3>2. /\ Tail(undostk) \in Seq(Step) /\ Len(Tail(undostk)) = Len(undostk) - 1
            /\ \A i \in 1 .. Len(Tail(undostk)) : Tail(undostk)[i] = undostk[i + 1]
        BY <1>1, <3>1, HeadTailProperties
      <3>3. /\ StepsApart(Tail(undostk))
            /\ StepBufs(Tail(undostk)) \cap Bufs(undostk[1].chain) = {}
            /\ StepBufs(undostk) = StepBufs(Tail(undostk)) \cup Bufs(undostk[1].chain)
        <4> DEFINE t == Tail(undostk)
        <4>1. t \in Seq(Step) /\ Len(t) = Len(undostk) - 1 /\ 1 \in {1, Len(undostk)}
              /\ \A i \in 1 .. Len(t) : t[i] = undostk[IF 1 = 1 THEN i + 1 ELSE i]
          BY <3>2
        <4> HIDE DEF t
        <4>2. StepsApart(t) /\ StepBufs(t) \cap Bufs(undostk[1].chain) = {}
              /\ StepBufs(undostk) = StepBufs(t) \cup Bufs(undostk[1].chain)
          BY <1>1, <3>1, <4>1, DropBufs
        <4>3. QED
          BY <4>2 DEF t
      <3>4. \A i \in 1 .. Len(Tail(undostk)) : i + 1 \in 1 .. Len(undostk)
        BY <1>1, <3>2
      <3>5. undostk' = Append(Tail(undostk), s) /\ heap' = heap \ Bufs(undostk[1].chain)
        BY <2>1 DEF PushStep
      <3>6. QED
        BY <2>1, <3>2, <3>3, <3>4, <3>5
    <2>2. CASE ~full
      BY <1>1, <2>2 DEF PushStep
    <2>3. QED
      BY <2>1, <2>2
  <1> HIDE DEF full, old, gone
  <1>3. /\ StepsApart(undostk')
        /\ StepBufs(undostk') = StepBufs(old) \cup Bufs(s.chain)
    BY <1>1, <1>2, PushBufs
  <1>4. StepBufs(undoclr') = {} /\ StepsApart(undoclr') /\ Len(undoclr') = 0
        /\ StepHeap' = StepBufs(undostk')
    BY NoBuffers DEF StepHeap
  <1>5. BuffersOwnedOnce'
    BY <1>1, <1>2, <1>3, <1>4 DEF MemoryInv, BuffersOwnedOnce
  <1>6. HeapAccounted'
    BY <1>1, <1>2, <1>3, <1>4 DEF HeapAccounted
  <1>7. \A i \in 1 .. Len(undostk') :
          undostk'[i] = s \/ \E j \in 1 .. Len(undostk) : undostk'[i] = undostk[j]
    <2> SUFFICES ASSUME NEW i \in 1 .. Len(undostk')
                 PROVE  undostk'[i] = s \/ \E j \in 1 .. Len(undostk) : undostk'[i] = undostk[j]
      OBVIOUS
    <2>1. /\ Len(old) \in Nat /\ Len(undostk') = Len(old) + 1
          /\ \A k \in 1 .. Len(old) : undostk'[k] = old[k]
          /\ undostk'[Len(old) + 1] = s
      BY <1>2, LenProperties, AppendProperties
    <2>2. CASE i = Len(old) + 1
      BY <2>1, <2>2
    <2>3. CASE i # Len(old) + 1
      <3>1. i \in 1 .. Len(old)
        BY <2>1, <2>3
      <3>2. QED
        BY <1>2, <2>1, <3>1
    <2>4. QED
      BY <2>2, <2>3
  <1>8. StepKinds' /\ NoFrameStepsInDoubleBuffering'
    <2>1. /\ \A j \in 1 .. Len(undostk) : ~undostk[j].frame => undostk[j].chain = << >>
          /\ dbmode => \A j \in 1 .. Len(undostk) : ~undostk[j].frame
      BY DEF MemoryInv, StepKinds, NoFrameStepsInDoubleBuffering
    <2>2. /\ \A i \in 1 .. Len(undostk') : ~undostk'[i].frame => undostk'[i].chain = << >>
          /\ dbmode => \A i \in 1 .. Len(undostk') : ~undostk'[i].frame
      BY <1>7, <2>1, Zenon
    <2>3. \A i \in 1 .. Len(undoclr') : undoclr'[i].frame
      BY <1>4
    <2>4. dbmode' = dbmode
      OBVIOUS
    <2>5. StepKinds'
      BY <2>2, <2>3 DEF StepKinds
    <2>6. QED
      BY <2>2, <2>4, <2>5 DEF NoFrameStepsInDoubleBuffering
  <1>9. OneChain'
    BY OneChainSame DEF MemoryInv
  <1>10. QED
    BY <1>5, <1>6, <1>8, <1>9 DEF MemoryInv

(* A command sets aside one frame. *)
LEMMA OneAside ==
  ASSUME StacksOK, undoclr # << >>
  PROVE  undoclr[1] \in Step /\ Len(undoclr) = 1
  <1>1. Len(undoclr) \in Nat /\ Len(undoclr) >= 1 /\ undoclr[1] \in Step
    BY FirstElement DEF StacksOK
  <1>2. Len(undoclr) <= 1
    BY DEF StacksOK
  <1>3. QED
    BY <1>1, <1>2

LEMMA EndMemory ==
  ASSUME MetaAssumption, TypeOK, MemoryInv, EndCommand
  PROVE  MemoryInv'
  <1> USE DEF TypeOK
  <1>1. UNCHANGED <<chain, fore, dbmode>> /\ undoclr' = << >>
    BY DEF EndCommand, chainvars, dbvars
  <1>2. CASE undopend = << >> \/ undolim < 1 \/ mbuferror
    BY <1>1, <1>2, DropAside DEF EndCommand
  <1> SUFFICES ASSUME ~(undopend = << >> \/ undolim < 1 \/ mbuferror)
               PROVE  MemoryInv'
    BY <1>2
  <1>3. undolim >= 1
    BY DEF StacksOK, MetaAssumption
  <1>4. CASE undoclr # << >>
    <2>1. undoclr[1] \in Step /\ Len(undoclr) = 1
      BY <1>4, OneAside
    <2>2. /\ Bufs(undoclr[1].chain) = StepBufs(undoclr) /\ Distinct(undoclr[1].chain)
          /\ undoclr[1].frame /\ ~dbmode
      BY <1>4, <2>1 DEF StepBufs, StepsApart, MemoryInv, BuffersOwnedOnce, StepKinds,
                        NoFrameStepsInDoubleBuffering
    <2>3. PushStep(undoclr[1])
      BY <1>4 DEF EndCommand
    <2>4. QED
      BY <1>1, <1>3, <2>1, <2>2, <2>3, PushMemory
  <1>5. CASE undoclr = << >> /\ Usable(undopend[1]) /\ EndMark # undopend[1]
    <2>1. undopend[1] \in Mark
      BY FirstElement DEF StacksOK
    <2> DEFINE s == DrewStep(undopend[1])
    <2>2. s \in Step /\ s.chain = << >> /\ ~s.frame
      <3>1. undopend[1].gen \in Nat /\ << >> \in Seq(Buf)
        BY <2>1, EmptySeq DEF Mark
      <3>2. QED
        BY <2>1, <3>1 DEF DrewStep, Step
    <2>3. Bufs(s.chain) = StepBufs(undoclr) /\ Distinct(s.chain)
      BY <1>5, <2>2, NoBuffers
    <2>4. PushStep(s)
      BY <1>5 DEF EndCommand
    <2> HIDE DEF s
    <2>5. QED
      BY <1>1, <1>3, <2>2, <2>3, <2>4, PushMemory
  <1>6. CASE undoclr = << >> /\ ~(Usable(undopend[1]) /\ EndMark # undopend[1])
    BY <1>1, <1>6, MemorySame DEF EndCommand
  <1>7. QED
    BY <1>4, <1>5, <1>6

(* Undo takes a frame's buffers back into the chain.                       *)
LEMMA UndoMemory ==
  ASSUME MetaAssumption, TypeOK, MemoryInv, Undo
  PROVE  MemoryInv'
  <1> USE DEF TypeOK
  <1>1. UNCHANGED <<fore, dbmode>> /\ undostk # << >>
    BY DEF Undo, dbvars
  <1> DEFINE t == SubSeq(undostk, 1, Len(undostk) - 1)
  <1> DEFINE n == Len(undostk)
  <1>2. /\ undostk \in Seq(Step) /\ n \in Nat /\ n >= 1 /\ TopStep = undostk[n]
        /\ StepsApart(undostk) /\ StepBufs(undostk) \cap StepBufs(undoclr) = {}
        /\ heap = Bufs(chain) \cup Bufs(fore) \cup StepBufs(undostk) \cup StepBufs(undoclr)
        /\ (StepBufs(undostk) \cup StepBufs(undoclr)) \cap (Bufs(chain) \cup Bufs(fore)) = {}
    BY <1>1, FirstElement DEF StacksOK, MemoryInv, BuffersOwnedOnce, HeapAccounted,
                              StepHeap, TopStep
  <1>3. t \in Seq(Step) /\ Len(t) = n - 1 /\ \A i \in 1 .. Len(t) : t[i] = undostk[i]
    BY <1>1, PopOK
  <1> HIDE DEF t
  <1>4. /\ StepsApart(t) /\ Distinct(TopStep.chain)
        /\ StepBufs(t) \cap Bufs(TopStep.chain) = {}
        /\ StepBufs(undostk) = StepBufs(t) \cup Bufs(TopStep.chain)
    <2>1. \A i \in 1 .. Len(t) : t[i] = undostk[IF n = 1 THEN i + 1 ELSE i]
      <3> HIDE DEF n
      <3>1. n \in Nat /\ Len(t) = n - 1 /\ \A i \in 1 .. Len(t) : t[i] = undostk[i]
        BY <1>2, <1>3
      <3>2. n = 1 => 1 .. Len(t) = {}
        BY <3>1
      <3>3. QED
        BY <3>1, <3>2
    <2>2. n \in {1, n} /\ undostk # << >>
      BY <1>1
    <2>3. QED
      BY <1>2, <1>3, <2>1, <2>2, DropBufs
  <1>5. TopStep \in Step /\ TopStep.chain \in Seq(Buf)
    BY <1>2, StepTyped
  <1>6. \A i \in 1 .. Len(t) : i \in 1 .. n /\ t[i] = undostk[i]
    BY <1>2, <1>3
  <1>7. CASE UndoFrame
    <2>1. /\ chain' = TopStep.chain \o chain /\ undostk' = t
          /\ UNCHANGED <<heap, undoclr>>
      BY <1>7 DEF UndoFrame, t
    <2>2. Apart(TopStep.chain, chain)
      BY <1>2, <1>4 DEF Apart
    <2>3. Distinct(chain') /\ Bufs(chain') = Bufs(TopStep.chain) \cup Bufs(chain)
      BY <1>4, <1>5, <2>1, <2>2, JoinChains
         DEF ChainsOK, MemoryInv, BuffersOwnedOnce
    <2>4. BuffersOwnedOnce'
      BY <1>1, <1>2, <1>4, <2>1, <2>3 DEF MemoryInv, BuffersOwnedOnce, StepHeap, Apart
    <2>5. HeapAccounted'
      BY <1>1, <1>2, <1>4, <2>1, <2>3 DEF HeapAccounted, StepHeap
    <2>6. StepKinds' /\ NoFrameStepsInDoubleBuffering' /\ OneChain'
      BY <1>1, <1>6, <2>1
         DEF MemoryInv, OneChain, StepKinds, NoFrameStepsInDoubleBuffering
    <2>7. QED
      BY <2>4, <2>5, <2>6 DEF MemoryInv
  <1>8. CASE UndoDraw
    <2>1. undostk' = t /\ UNCHANGED <<chain, heap, undoclr>>
      BY <1>8 DEF UndoDraw, t
    <2>2. Bufs(TopStep.chain) = {}
      BY <1>2, <1>8, NoBuffers DEF UndoDraw, MemoryInv, StepKinds
    <2>3. BuffersOwnedOnce' /\ HeapAccounted'
      BY <1>1, <1>2, <1>4, <2>1, <2>2
         DEF MemoryInv, BuffersOwnedOnce, HeapAccounted, StepHeap
    <2>4. StepKinds' /\ NoFrameStepsInDoubleBuffering' /\ OneChain'
      BY <1>1, <1>6, <2>1
         DEF MemoryInv, OneChain, StepKinds, NoFrameStepsInDoubleBuffering
    <2>5. QED
      BY <2>3, <2>4 DEF MemoryInv
  <1>9. CASE UndoStale
    BY <1>1, <1>9, LiveIsChains, Forgotten DEF UndoStale, ForgetSteps, MemoryInv, OneChain
  <1>10. QED
    BY <1>7, <1>8, <1>9 DEF Undo

LEMMA MemoryAlways == Spec => []MemoryInv
  <1> USE MetaAssumption
  <1>1. Init => MemoryInv
    <2> SUFFICES ASSUME Init PROVE MemoryInv
      OBVIOUS
    <2>1. /\ Distinct(chain) /\ fore = << >> /\ heap = Bufs(chain)
          /\ undostk = << >> /\ undoclr = << >> /\ ~dbmode
      BY NewChainMemory DEF Init
    <2>2. Len(undostk) = 0 /\ Len(undoclr) = 0 /\ Bufs(fore) = {} /\ Distinct(fore)
          /\ StepBufs(undostk) = {} /\ StepBufs(undoclr) = {} /\ StepHeap = {}
          /\ StepsApart(undostk) /\ StepsApart(undoclr)
      BY <2>1, NoBuffers DEF StepHeap
    <2>3. BuffersOwnedOnce /\ HeapAccounted
      BY <2>1, <2>2 DEF BuffersOwnedOnce, HeapAccounted, Apart
    <2>4. QED
      BY <2>1, <2>2, <2>3 DEF MemoryInv, OneChain, StepKinds, NoFrameStepsInDoubleBuffering
  <1>2. TypeOK /\ MemoryInv /\ [Next]_vars => MemoryInv'
    <2> SUFFICES ASSUME TypeOK, MemoryInv, [Next]_vars PROVE MemoryInv'
      OBVIOUS
    <2>1. CASE BeginCommand
      BY <2>1, DropAside DEF BeginCommand, chainvars, dbvars
    <2>2. ASSUME NEW p \in Prim, Draw(p) PROVE MemoryInv'
      BY <2>2, DrawMemory
    <2>3. CASE Clear
      BY <2>3, FrameAsideMemory, FrameNewMemory DEF Clear, Undoable
    <2>4. CASE ClearHbuff
      BY <2>4, FrameNewMemory DEF ClearHbuff
    <2>5. CASE ClearEvents
      BY <2>5, MemorySame DEF ClearEvents, chainvars, undovars
    <2>6. CASE Reset
      BY <2>6, FrameNewMemory DEF Reset
    <2>7. CASE SetDbuffOn
      BY <2>7, FrameNextMemory DEF SetDbuffOn
    <2>8. CASE SetDbuffOff
      BY <2>8, FrameNewMemory DEF SetDbuffOff
    <2>9. CASE Swap
      BY <2>9, FrameNextMemory DEF Swap
    <2>10. CASE AnimFrame
      BY <2>10, FrameNextMemory DEF AnimFrame
    <2>11. ASSUME NEW n \in 0 .. MaxLim, SetUndo(n) PROVE MemoryInv'
      BY <2>11, LiveIsChains, Forgotten
         DEF SetUndo, ForgetSteps, chainvars, dbvars, MemoryInv, OneChain
    <2>12. CASE Undo
      BY <2>12, UndoMemory
    <2>13. CASE EndCommand
      BY <2>13, EndMemory
    <2>14. CASE UNCHANGED vars
      BY <2>14, MemorySame DEF vars, chainvars, dbvars, undovars
    <2>15. QED
      BY <2>1, <2>2, <2>3, <2>4, <2>5, <2>6, <2>7, <2>8, <2>9, <2>10, <2>11, <2>12,
         <2>13, <2>14 DEF Next
  <1>3. QED
    BY <1>1, <1>2, TypeCorrect, PTL DEF Spec

(* No buffer is ever in two places, lost, or used after it was freed, and  *)
(* undo keeps no frame in double buffering: the frames gxhfrm swaps, sets  *)
(* aside, drops and puts back stay apart, however the commands come and    *)
(* whenever the allocator fails.                                           *)
THEOREM MemorySafe ==
  Spec => [](BuffersOwnedOnce /\ HeapAccounted /\ NoFrameStepsInDoubleBuffering)
  <1>1. MemoryInv => BuffersOwnedOnce /\ HeapAccounted /\ NoFrameStepsInDoubleBuffering
    BY DEF MemoryInv
  <1>2. QED
    BY <1>1, MemoryAlways, PTL

(* A buffer is in one chain or one kept step, and there only once, so that *)
(* mbufrel and dropping a step never free it twice: BuffersOwnedOnce.      *)
THEOREM OneOwner == Spec => []BuffersOwnedOnce
  BY MemorySafe, PTL

(* Double buffering, whose swap moves the chains itself, keeps no frames   *)
(* for undo (gxmundokeep): NoFrameStepsInDoubleBuffering.                  *)
THEOREM NoFramesKeptInDoubleBuffering == Spec => []NoFrameStepsInDoubleBuffering
  BY MemorySafe, PTL

-----------------------------------------------------------------------------
(* Memory enough: then there is always a buffer to draw in.                *)

ReadyInv == ~mbuferror /\ last # 0 /\ (dbmode => forelast # 0)

(* A chain that has a buffer starts at it.                                 *)
LEMMA HeadOfChain ==
  ASSUME NEW c \in Seq(Buf), c # << >>
  PROVE  Head1(c) # 0
  BY DEF Head1

LEMMA NewChainReady ==
  ASSUME AllocMayFail = FALSE, NEW h, NEW c \in NewChain(h)
  PROVE  c # << >> /\ Head1(c) = 1
  <1>1. \E b \in Buf \ h : c = <<b>>
    BY DEF NewChain
  <1>2. QED
    BY <1>1 DEF Head1

LEMMA NonEmptyChain ==
  ASSUME TypeOK
  PROVE  /\ last # 0 => chain # << >>
         /\ forelast # 0 => fore # << >>
  BY EmptySeq DEF TypeOK, ChainsOK

LEMMA FrameReady ==
  ASSUME AllocMayFail = FALSE, TypeOK, ReadyInv,
         (\E t : FrameNew(t)) \/ FrameNext \/ FrameAside
  PROVE  ReadyInv'
  <1>1. chain # << >> /\ Head1(chain) = 1 /\ ~mbuferror /\ last # 0
        /\ (dbmode => fore # << >> /\ Head1(fore) = 1)
    BY NonEmptyChain DEF Head1, ReadyInv
  <1>2. ASSUME NEW t, FrameReset(t) PROVE ReadyInv'
    <2>1. last' = 1 /\ mbuferror' = FALSE /\ ~dbmode /\ dbmode' = dbmode
      BY <1>1, <1>2 DEF FrameReset
    <2>2. QED
      BY <2>1 DEF ReadyInv
  <1>3. ASSUME NEW t, FrameSingle(t) PROVE ReadyInv'
    BY <1>1, <1>3 DEF FrameSingle, ReadyInv
  <1>4. CASE FrameDouble
    <2>1. mbuferror' = mbuferror
      BY <1>4 DEF FrameDouble
    <2>2. \E c \in {chain} : \E f \in NewChain(LiveHeap \cup Bufs(c)) :
            last' = Head1(c) /\ forelast' = Head1(f)
      BY <1>1, <1>4 DEF FrameDouble
    <2>3. last' = 1 /\ forelast' = 1
      BY <1>1, <2>2, NewChainReady
    <2>4. QED
      BY <1>1, <2>1, <2>3 DEF ReadyInv
  <1>5. CASE FrameSwap
    BY <1>1, <1>5 DEF FrameSwap, ReadyInv
  <1>6. CASE FrameAside
    <2>1. last' = 1 /\ mbuferror' = FALSE
      BY <1>1, <1>6 DEF FrameAside, AsideNull, AsideNothing, AsideFrame, AsideNoMemory
    <2>2. UNCHANGED <<forelast, dbmode>>
      BY <1>6 DEF FrameAside
    <2>3. dbmode' => forelast' # 0
      BY <2>2 DEF ReadyInv
    <2>4. QED
      BY <2>1, <2>3 DEF ReadyInv
  <1>7. QED
    BY <1>2, <1>3, <1>4, <1>5, <1>6 DEF FrameNew, FrameNext

LEMMA DrawReady ==
  ASSUME AllocMayFail = FALSE, TypeOK, ReadyInv, NEW p \in Prim, Draw(p)
  PROVE  ReadyInv'
  <1>1. last \in Nat
    BY LenProperties DEF TypeOK, ChainsOK
  <1>2. DrawInPlace(p) \/ DrawInSpare(p) \/ DrawInNew(p)
    BY DEF Draw, DrawNoMemory
  <1>3. UNCHANGED <<dbmode, mbuferror, forelast>> /\ last' \in {last, last + 1}
    BY <1>2 DEF Draw, DrawInPlace, DrawInSpare, DrawInNew, dbvars, chainvars
  <1>4. last' # 0
    BY <1>1, <1>3 DEF ReadyInv
  <1>5. QED
    BY <1>3, <1>4 DEF ReadyInv

LEMMA UndoReady ==
  ASSUME MetaAssumption, TypeOK, ReadyInv, Undo
  PROVE  ReadyInv'
  <1>1. UNCHANGED <<forelast, mbuferror, dbmode>>
    BY DEF Undo, dbvars
  <1>2. chain # << >> /\ Head1(chain) = 1
    BY NonEmptyChain DEF ReadyInv, Head1
  <1>3. last' # 0
    <2>1. CASE UndoFrame
      <3>1. CASE TopStep.chain = << >>
        BY <1>2, <2>1, <3>1 DEF UndoFrame
      <3>2. CASE TopStep.chain # << >>
        <4>1. Len(undostk) \in 1 .. Len(undostk) /\ undostk \in Seq(Step)
          BY FirstElement DEF Undo, TypeOK, StacksOK
        <4>2. TopStep.chain \in Seq(Buf)
          BY <4>1, StepTyped DEF TopStep
        <4>3. Len(TopStep.chain) >= 1 /\ Len(TopStep.chain) \in Nat
          BY <3>2, <4>2, FirstElement
        <4>4. last' = Len(TopStep.chain)
          BY <2>1, <3>2 DEF UndoFrame
        <4>5. QED
          BY <4>3, <4>4
      <3>3. QED
        BY <3>1, <3>2
    <2>2. CASE UndoDraw
      <3>1. CASE TopStep.mark.buf = NoBuf
        BY <1>2, <2>2, <3>1 DEF UndoDraw
      <3>2. CASE TopStep.mark.buf # NoBuf
        <4>1. \E i \in 1 .. last : chain[i] = TopStep.mark.buf
          BY <2>2, <3>2 DEF UndoDraw, Usable
        <4>2. last' = CHOOSE i \in 1 .. last : chain[i] = TopStep.mark.buf
          BY <2>2, <3>2 DEF UndoDraw
        <4>3. last' \in 1 .. last
          BY <4>1, <4>2
        <4>4. QED
          BY <4>3
      <3>3. QED
        BY <3>1, <3>2
    <2>3. CASE UndoStale
      BY <2>3 DEF UndoStale, ReadyInv
    <2>4. QED
      BY <2>1, <2>2, <2>3 DEF Undo
  <1>4. QED
    BY <1>1, <1>3 DEF ReadyInv

(* While the allocator gives what it is asked for there is a buffer to     *)
(* draw in, after every frame, swap and undo; what the nomemory run shows  *)
(* happens only when galloc fails.                                         *)
THEOREM ReadyWithMemory ==
  ASSUME AllocMayFail = FALSE
  PROVE  Spec => []BufferReady
  <1> USE MetaAssumption
  <1>1. Init => ReadyInv
    <2> SUFFICES ASSUME Init PROVE ReadyInv
      OBVIOUS
    <2>1. chain # << >> /\ last = 1
      BY NewChainReady DEF Init
    <2>2. QED
      BY <2>1 DEF Init, ReadyInv
  <1>2. TypeOK /\ ReadyInv /\ [Next]_vars => ReadyInv'
    <2> SUFFICES ASSUME TypeOK, ReadyInv, [Next]_vars PROVE ReadyInv'
      OBVIOUS
    <2>1. ASSUME NEW p \in Prim, Draw(p) PROVE ReadyInv'
      BY <2>1, DrawReady
    <2>2. CASE Clear \/ ClearHbuff \/ Reset \/ SetDbuffOff
      BY <2>2, FrameReady DEF Clear, ClearHbuff, Reset, SetDbuffOff
    <2>3. CASE SetDbuffOn \/ Swap \/ AnimFrame
      BY <2>3, FrameReady DEF SetDbuffOn, Swap, AnimFrame
    <2>4. CASE Undo
      BY <2>4, UndoReady
    <2>5. CASE BeginCommand \/ ClearEvents \/ EndCommand \/ UNCHANGED vars
               \/ \E n \in 0 .. MaxLim : SetUndo(n)
      <3>1. UNCHANGED <<last, forelast, mbuferror, dbmode>>
        BY <2>5 DEF BeginCommand, ClearEvents, EndCommand, SetUndo, vars, chainvars, dbvars
      <3>2. QED
        BY <3>1 DEF ReadyInv
    <2>6. QED
      BY <2>1, <2>2, <2>3, <2>4, <2>5 DEF Next
  <1>3. ReadyInv => BufferReady
    BY DEF ReadyInv, BufferReady
  <1>4. QED
    BY <1>1, <1>2, <1>3, TypeCorrect, PTL DEF Spec

-----------------------------------------------------------------------------
(* The display under double buffering.                                     *)

(* Whatever the commands, and whatever fails: while the meta buffer keeps  *)
(* a background chain, the display draws on its background (gxfrme).       *)
THEOREM DisplayFollowsBuffer == Spec => []BackgroundHasSurface
  <1>1. Init => BackgroundHasSurface
    BY DEF Init, BackgroundHasSurface
  <1>2. BackgroundHasSurface /\ [Next]_vars => BackgroundHasSurface'
    <2> SUFFICES ASSUME BackgroundHasSurface, [Next]_vars
                 PROVE  BackgroundHasSurface'
      OBVIOUS
    <2> USE DEF BackgroundHasSurface
    <2>1. CASE Clear
      <3>1. CASE Undoable
        BY <2>1, <3>1 DEF Clear, Undoable, FrameAside
      <3>2. CASE ~Undoable
        BY <2>1, <3>2 DEF Clear, FrameNew, FrameReset, FrameSingle
      <3>3. QED
        BY <3>1, <3>2
    <2>2. CASE ClearHbuff \/ Reset \/ SetDbuffOff
      BY <2>2 DEF ClearHbuff, Reset, SetDbuffOff, FrameNew, FrameReset, FrameSingle
    <2>3. CASE SetDbuffOn \/ Swap \/ AnimFrame
      BY <2>3 DEF SetDbuffOn, Swap, AnimFrame
    <2>4. ASSUME NEW p \in Prim, Draw(p) PROVE BackgroundHasSurface'
      BY <2>4 DEF Draw, dbvars
    <2>5. CASE Undo
      BY <2>5 DEF Undo, dbvars
    <2>6. CASE BeginCommand \/ ClearEvents \/ EndCommand \/ UNCHANGED vars
               \/ \E n \in 0 .. MaxLim : SetUndo(n)
      BY <2>6 DEF BeginCommand, ClearEvents, EndCommand, SetUndo, vars, dbvars
    <2>7. QED
      BY <2>1, <2>2, <2>3, <2>4, <2>5, <2>6 DEF Next
  <1>3. QED
    BY <1>1, <1>2, PTL DEF Spec

-----------------------------------------------------------------------------
(* The swap.                                                               *)

(* What the chain up to its last buffer replays.                           *)
LEMMA PageIs ==
  ASSUME TypeOK
  PROVE  Page = [i \in 1 .. last |-> text[chain[i]]]
  <1>1. chain \in Seq(Buf) /\ last \in 0 .. Len(chain) /\ Len(chain) \in Nat
    BY LenProperties DEF TypeOK, ChainsOK
  <1>2. Len(SubSeq(chain, 1, last)) = last
        /\ \A i \in 1 .. last : SubSeq(chain, 1, last)[i] = chain[i]
    BY <1>1, Piece
  <1>3. QED
    BY <1>2 DEF Page, Replay

(* The frame shown after a swap is the page drawn in the background: the   *)
(* reset that gxhfrm does next touches the other chain only, as the two    *)
(* chains share no buffer.                                                 *)
THEOREM SwapShowsWhatWasDrawn == Spec => SwapShowsBackground
  <1> DEFINE A == dbmode /\ dbmode' /\ fore' # fore =>
                    [i \in 1 .. forelast' |-> text'[fore'[i]]] = Page
  <1>1. TypeOK /\ MemoryInv /\ [Next]_vars => [A]_vars
    <2> SUFFICES ASSUME TypeOK, MemoryInv, Next, dbmode, dbmode', fore' # fore
                 PROVE  [i \in 1 .. forelast' |-> text'[fore'[i]]] = Page
      OBVIOUS
    <2>1. FrameSwap
      BY DEF Next, BeginCommand, Draw, DrawInPlace, DrawInSpare, DrawInNew, DrawNoMemory,
             BufferError, Clear, Undoable, FrameNew, FrameReset, FrameSingle, FrameAside,
             ClearHbuff, ClearEvents, Reset, SetDbuffOn, SetDbuffOff, Swap, AnimFrame,
             FrameNext, FrameDouble, SetUndo, Undo, EndCommand, chainvars
    <2>2. /\ fore' = chain /\ forelast' = last
          /\ text' = Restart(fore, IF mbuferror THEN << >> ELSE Backdrop)
      BY <2>1 DEF FrameSwap
    <2>3. ASSUME NEW i \in 1 .. last PROVE text'[chain[i]] = text[chain[i]]
      <3>1. i \in 1 .. Len(chain) /\ chain[i] \in Bufs(chain) /\ chain[i] \in Buf
        BY ElementOfSeq, LenProperties DEF TypeOK, ChainsOK, Bufs
      <3>2. fore # << >> => fore[1] \in Bufs(fore)
        BY FirstElement DEF TypeOK, ChainsOK, Bufs
      <3>3. fore # << >> => fore[1] # chain[i]
        BY <3>1, <3>2 DEF MemoryInv, BuffersOwnedOnce, Apart
      <3>4. QED
        BY <2>2, <3>1, <3>3 DEF Restart, TypeOK, BuffersOK
    <2>4. QED
      BY <2>2, <2>3, PageIs
  <1>2. QED
    BY <1>1, TypeCorrect, MemoryAlways, PTL DEF Spec, SwapShowsBackground

-----------------------------------------------------------------------------
(* The steps kept, and the chain each goes back into.                      *)

(* The next frame above step i; if there is none, the place above them all.*)
NextFrame(stk, i, k) == /\ k \in i + 1 .. Len(stk) + 1
                        /\ k <= Len(stk) => stk[k].frame
                        /\ \A j \in i + 1 .. k - 1 : ~stk[j].frame
Above(stk, i) == CHOOSE k : NextFrame(stk, i, k)

(* The chain and the generation step i goes back into, c and g being those *)
(* above all steps.                                                        *)
Host(stk, c, i) == IF Above(stk, i) <= Len(stk) THEN stk[Above(stk, i)].chain ELSE c
HostGen(stk, g, i) == IF Above(stk, i) <= Len(stk) THEN stk[Above(stk, i)].gen ELSE g

(* The position m is in chain c, and m comes no later in it than n.        *)
Within(m, c, tx) == \E x \in 1 .. Len(c) : c[x] = m.buf /\ m.used <= Len(tx[m.buf])
InOrder(m, n, c) == \A x, y \in 1 .. Len(c) :
                      c[x] = m.buf /\ c[y] = n.buf => x < y \/ (x = y /\ m.used <= n.used)

(* What replays of a chain, and of one cut at m.                           *)
FullPage(c, tx) == [x \in 1 .. Len(c) |-> tx[c[x]]]
CutPage(c, tx, m) ==
  IF m.buf = NoBuf THEN IF c = << >> THEN << >> ELSE << << >> >>
  ELSE IF m.buf \notin Bufs(c) THEN NoPage
  ELSE LET n == CHOOSE x \in 1 .. Len(c) : c[x] = m.buf
       IN  [x \in 1 .. n |-> IF x = n THEN SubSeq(tx[m.buf], 1, m.used) ELSE tx[c[x]]]
PageOf(stk, c, tx, i) == IF stk[i].frame THEN FullPage(stk[i].chain, tx)
                         ELSE CutPage(Host(stk, c, i), tx, stk[i].mark)

(* Every position is in the chain it goes back into, of its generation;    *)
(* those in the same chain are in the order of their steps.                *)
Placed(stk, c, g, tx) ==
  \A i \in 1 .. Len(stk) : ~stk[i].frame =>
    Within(stk[i].mark, Host(stk, c, i), tx) /\ stk[i].mark.gen = HostGen(stk, g, i)
Ordered(stk, c) ==
  \A i, j \in 1 .. Len(stk) :
    i < j /\ ~stk[i].frame /\ ~stk[j].frame /\ Above(stk, i) = Above(stk, j)
      => InOrder(stk[i].mark, stk[j].mark, Host(stk, c, j))

(* The steps that go back into the chain above them all.                   *)
OnTop(stk) == {i \in 1 .. Len(stk) : ~stk[i].frame /\ Above(stk, i) = Len(stk) + 1}

LEMMA NextFrameOne ==
  ASSUME NEW stk \in Seq(Step), NEW i \in Nat \ {0}, NEW k, NEW l,
         NextFrame(stk, i, k), NextFrame(stk, i, l)
  PROVE  k = l
  <1>1. k \in Int /\ l \in Int /\ Len(stk) \in Nat
    BY LenProperties DEF NextFrame
  <1>2. ~(k < l)
    <2>1. SUFFICES ASSUME k < l PROVE FALSE
      OBVIOUS
    <2>2. k \in i + 1 .. l - 1 /\ k <= Len(stk)
      BY <1>1, <2>1 DEF NextFrame
    <2>3. QED
      BY <2>2 DEF NextFrame
  <1>3. ~(l < k)
    <2>1. SUFFICES ASSUME l < k PROVE FALSE
      OBVIOUS
    <2>2. l \in i + 1 .. k - 1 /\ l <= Len(stk)
      BY <1>1, <2>1 DEF NextFrame
    <2>3. QED
      BY <2>2 DEF NextFrame
  <1>4. QED
    BY <1>1, <1>2, <1>3

LEMMA AboveIs ==
  ASSUME NEW stk \in Seq(Step), NEW i \in 1 .. Len(stk)
  PROVE  /\ NextFrame(stk, i, Above(stk, i))
         /\ \A k : NextFrame(stk, i, k) => k = Above(stk, i)
         /\ Above(stk, i) \in i + 1 .. Len(stk) + 1
  <1> DEFINE T == {k \in i + 1 .. Len(stk) + 1 : k <= Len(stk) => stk[k].frame}
  <1>1. Len(stk) \in Nat /\ T \in SUBSET Nat /\ T # {}
    <2>1. Len(stk) \in Nat
      BY LenProperties
    <2>2. Len(stk) + 1 \in T
      BY <2>1
    <2>3. QED
      BY <2>1, <2>2
  <1>2. PICK k \in T : \A l \in T : k <= l
    BY <1>1, NatLeast
  <1>3. \A j \in i + 1 .. k - 1 : ~stk[j].frame
    <2>1. SUFFICES ASSUME NEW j \in i + 1 .. k - 1, stk[j].frame PROVE FALSE
      OBVIOUS
    <2>2. j \in T
      BY <1>1, <1>2, <2>1
    <2>3. QED
      BY <1>1, <1>2, <2>2
  <1>4. NextFrame(stk, i, k)
    BY <1>2, <1>3 DEF NextFrame
  <1>5. NextFrame(stk, i, Above(stk, i))
    BY <1>4 DEF Above
  <1>6. i \in Nat \ {0}
    BY <1>1
  <1>7. QED
    BY <1>5, <1>6, NextFrameOne DEF NextFrame

(* The step pushed is a frame: it is what was above the others.            *)
LEMMA AbovePushed ==
  ASSUME NEW stk \in Seq(Step), NEW s \in Step, NEW i \in 1 .. Len(stk)
  PROVE  /\ Above(stk, i) <= Len(stk) => Above(Append(stk, s), i) = Above(stk, i)
         /\ Above(stk, i) = Len(stk) + 1 =>
              Above(Append(stk, s), i) = IF s.frame THEN Len(stk) + 1 ELSE Len(stk) + 2
  <1> DEFINE t == Append(stk, s)
             n == Len(stk)
             k == Above(stk, i)
  <1>1. /\ n \in Nat /\ t \in Seq(Step) /\ Len(t) = n + 1
        /\ \A j \in 1 .. n : t[j] = stk[j]
        /\ t[n + 1] = s
    BY LenProperties, AppendProperties
  <1>2. NextFrame(stk, i, k)
    BY AboveIs
  <1> HIDE DEF t, n, k
  <1>3. i \in 1 .. n /\ i \in 1 .. Len(t) /\ i \in Nat /\ k \in i + 1 .. n + 1
    BY <1>1, <1>2 DEF n, NextFrame
  <1>4. \A j \in i + 1 .. k - 1 : ~t[j].frame
    <2>1. SUFFICES ASSUME NEW j \in i + 1 .. k - 1 PROVE ~t[j].frame
      OBVIOUS
    <2>2. j \in 1 .. n
      BY <1>1, <1>3
    <2>3. QED
      BY <1>1, <1>2, <2>2 DEF NextFrame
  <1>5. CASE k <= n
    <2>1. t[k].frame
      BY <1>1, <1>2, <1>3, <1>5 DEF NextFrame, n
    <2>2. NextFrame(t, i, k)
      BY <1>1, <1>3, <1>4, <2>1 DEF NextFrame
    <2>3. Above(t, i) = k
      BY <1>1, <1>3, <2>2, AboveIs
    <2>4. QED
      BY <1>1, <1>5, <2>3 DEF t, n, k
  <1>6. CASE k = n + 1 /\ s.frame
    <2>1. NextFrame(t, i, n + 1)
      BY <1>1, <1>3, <1>4, <1>6 DEF NextFrame
    <2>2. Above(t, i) = n + 1
      BY <1>1, <1>3, <2>1, AboveIs
    <2>3. QED
      BY <1>1, <1>6, <2>2 DEF t, n, k
  <1>7. CASE k = n + 1 /\ ~s.frame
    <2>1. \A j \in i + 1 .. n + 1 : ~t[j].frame
      <3>1. SUFFICES ASSUME NEW j \in i + 1 .. n + 1 PROVE ~t[j].frame
        OBVIOUS
      <3>2. CASE j = n + 1
        BY <1>1, <1>7, <3>2
      <3>3. CASE j # n + 1
        <4>1. j \in i + 1 .. k - 1
          BY <1>1, <1>3, <1>7, <3>3
        <4>2. QED
          BY <1>4, <4>1
      <3>4. QED
        BY <3>2, <3>3
    <2>2. NextFrame(t, i, n + 2)
      BY <1>1, <1>3, <1>7, <2>1 DEF NextFrame
    <2>3. Above(t, i) = n + 2
      BY <1>1, <1>3, <2>2, AboveIs
    <2>4. QED
      BY <1>1, <1>7, <2>3 DEF t, n, k
  <1>8. QED
    BY <1>1, <1>3, <1>5, <1>6, <1>7 DEF n, k

LEMMA AboveTop ==
  ASSUME NEW stk \in Seq(Step), NEW s \in Step
  PROVE  Above(Append(stk, s), Len(stk) + 1) = Len(stk) + 2
  <1> DEFINE t == Append(stk, s)
             n == Len(stk)
  <1>1. n \in Nat /\ t \in Seq(Step) /\ Len(t) = n + 1
    BY LenProperties, AppendProperties
  <1> HIDE DEF t, n
  <1>2. n + 1 \in 1 .. Len(t) /\ NextFrame(t, n + 1, n + 2)
    BY <1>1 DEF NextFrame
  <1>3. Above(t, n + 1) = n + 2
    BY <1>1, <1>2, AboveIs
  <1>4. QED
    BY <1>3 DEF t, n

(* The chain and the page of a step below the one pushed.                  *)
LEMMA HostPushed ==
  ASSUME NEW stk \in Seq(Step), NEW s \in Step, NEW c, NEW g, NEW i \in 1 .. Len(stk)
  PROVE  LET t == Append(stk, s)
             d == IF s.frame THEN s.chain ELSE c
             h == IF s.frame THEN s.gen ELSE g
         IN  /\ t[i] = stk[i] /\ Host(t, c, i) = Host(stk, d, i)
             /\ HostGen(t, g, i) = HostGen(stk, h, i)
  <1> DEFINE t == Append(stk, s)
             n == Len(stk)
             d == IF s.frame THEN s.chain ELSE c
             h == IF s.frame THEN s.gen ELSE g
             k == Above(stk, i)
  <1>1. /\ n \in Nat /\ t \in Seq(Step) /\ Len(t) = n + 1
        /\ \A j \in 1 .. n : t[j] = stk[j]
        /\ t[n + 1] = s
    BY LenProperties, AppendProperties
  <1>2. k \in i + 1 .. n + 1 /\ (k <= n => Above(t, i) = k)
        /\ (k = n + 1 => Above(t, i) = IF s.frame THEN n + 1 ELSE n + 2)
    BY AboveIs, AbovePushed
  <1> HIDE DEF t, n, k
  <1>3. i \in 1 .. n /\ k \in Nat
    BY <1>1, <1>2 DEF n
  <1>4. CASE k <= n
    <2>1. k \in 1 .. n /\ Above(t, i) = k /\ t[k] = stk[k] /\ k <= Len(t)
      BY <1>1, <1>2, <1>3, <1>4
    <2>2. QED
      BY <1>1, <1>3, <1>4, <2>1 DEF Host, HostGen, t, n, k
  <1>5. CASE k = n + 1 /\ s.frame
    <2>1. Above(t, i) = n + 1 /\ t[n + 1] = s /\ n + 1 <= Len(t) /\ ~(n + 1 <= n)
      BY <1>1, <1>2, <1>5
    <2>2. QED
      BY <1>1, <1>3, <1>5, <2>1 DEF Host, HostGen, t, n, k
  <1>6. CASE k = n + 1 /\ ~s.frame
    <2>1. Above(t, i) = n + 2 /\ ~(n + 2 <= Len(t)) /\ ~(n + 1 <= n)
      BY <1>1, <1>2, <1>6
    <2>2. QED
      BY <1>1, <1>3, <1>6, <2>1 DEF Host, HostGen, t, n, k
  <1>7. QED
    BY <1>1, <1>2, <1>3, <1>4, <1>5, <1>6

(* A step pushed, or popped: the others are as they were under it.         *)
LEMMA PushFrame ==
  ASSUME NEW stk \in Seq(Step), NEW s \in Step, s.frame, NEW c, NEW g, NEW tx
  PROVE  LET t == Append(stk, s)
         IN  /\ Placed(t, c, g, tx) <=> Placed(stk, s.chain, s.gen, tx)
             /\ Ordered(t, c) <=> Ordered(stk, s.chain)
             /\ \A i \in 1 .. Len(stk) : PageOf(t, c, tx, i) = PageOf(stk, s.chain, tx, i)
             /\ PageOf(t, c, tx, Len(stk) + 1) = FullPage(s.chain, tx)
             /\ OnTop(t) = {}
  <1> DEFINE t == Append(stk, s)
             n == Len(stk)
             d == s.chain
             h == s.gen
  <1>1. /\ n \in Nat /\ t \in Seq(Step) /\ Len(t) = n + 1
        /\ \A j \in 1 .. n : t[j] = stk[j]
        /\ t[n + 1] = s
    BY LenProperties, AppendProperties
  <1>2. \A i \in 1 .. n : t[i] = stk[i] /\ Host(t, c, i) = Host(stk, d, i)
                          /\ HostGen(t, g, i) = HostGen(stk, h, i)
    BY HostPushed
  <1>3. \A i \in 1 .. n : Above(stk, i) \in 1 .. n + 1 /\ Above(t, i) = Above(stk, i)
    <2>1. SUFFICES ASSUME NEW i \in 1 .. n
                   PROVE  Above(stk, i) \in 1 .. n + 1 /\ Above(t, i) = Above(stk, i)
      OBVIOUS
    <2>2. Above(stk, i) \in i + 1 .. n + 1
      BY AboveIs
    <2>3. (Above(stk, i) <= n => Above(t, i) = Above(stk, i))
          /\ (Above(stk, i) = n + 1 => Above(t, i) = n + 1)
      BY AbovePushed
    <2> HIDE DEF t, n
    <2>4. QED
      BY <1>1, <2>1, <2>2, <2>3
  <1> HIDE DEF t, n, d, h
  <1>4. \A i \in 1 .. n + 1 : i \in 1 .. n \/ i = n + 1
    BY <1>1
  <1>5. 1 .. n \subseteq 1 .. n + 1 /\ n + 1 \in 1 .. n + 1
    BY <1>1
  <1>6. \A i \in 1 .. n + 1 : ~t[i].frame => i \in 1 .. n /\ ~stk[i].frame
    BY <1>1, <1>4
  <1>7. Placed(t, c, g, tx) <=> Placed(stk, d, h, tx)
    BY <1>1, <1>2, <1>5, <1>6 DEF Placed, n
  <1>8. Ordered(t, c) <=> Ordered(stk, d)
    BY <1>1, <1>2, <1>3, <1>5, <1>6 DEF Ordered, n
  <1>9. \A i \in 1 .. n : PageOf(t, c, tx, i) = PageOf(stk, d, tx, i)
    BY <1>2 DEF PageOf
  <1>10. PageOf(t, c, tx, n + 1) = FullPage(d, tx)
    BY <1>1 DEF PageOf, d
  <1>11. OnTop(t) = {}
    <2>1. SUFFICES ASSUME NEW i \in 1 .. n + 1, ~t[i].frame, Above(t, i) = n + 2 PROVE FALSE
      BY <1>1 DEF OnTop
    <2>2. i \in 1 .. n
      BY <1>6, <2>1
    <2>3. QED
      BY <1>1, <1>3, <2>1, <2>2
  <1>12. QED
    BY <1>7, <1>8, <1>9, <1>10, <1>11 DEF t, n, d, h

LEMMA PushDraw ==
  ASSUME NEW stk \in Seq(Step), NEW s \in Step, ~s.frame, NEW c, NEW g, NEW tx
  PROVE  LET t == Append(stk, s)
         IN  /\ Placed(t, c, g, tx) <=> /\ Placed(stk, c, g, tx)
                                        /\ Within(s.mark, c, tx) /\ s.mark.gen = g
             /\ Ordered(t, c) <=> /\ Ordered(stk, c)
                                  /\ \A i \in OnTop(stk) : InOrder(stk[i].mark, s.mark, c)
             /\ \A i \in 1 .. Len(stk) : PageOf(t, c, tx, i) = PageOf(stk, c, tx, i)
             /\ PageOf(t, c, tx, Len(stk) + 1) = CutPage(c, tx, s.mark)
             /\ OnTop(t) = OnTop(stk) \cup {Len(stk) + 1}
  <1> DEFINE t == Append(stk, s)
             n == Len(stk)
  <1>1. /\ n \in Nat /\ t \in Seq(Step) /\ Len(t) = n + 1
        /\ \A j \in 1 .. n : t[j] = stk[j]
        /\ t[n + 1] = s
    BY LenProperties, AppendProperties
  <1>2. \A i \in 1 .. n : t[i] = stk[i] /\ Host(t, c, i) = Host(stk, c, i)
                          /\ HostGen(t, g, i) = HostGen(stk, g, i)
    BY HostPushed
  <1>3. Above(t, n + 1) = n + 2
    BY AboveTop
  <1>4. \A i \in 1 .. n : /\ Above(stk, i) \in 1 .. n + 1
                          /\ Above(stk, i) <= n => Above(t, i) = Above(stk, i)
                          /\ Above(stk, i) = n + 1 => Above(t, i) = n + 2
    <2>1. SUFFICES ASSUME NEW i \in 1 .. n
                   PROVE  /\ Above(stk, i) \in 1 .. n + 1
                          /\ Above(stk, i) <= n => Above(t, i) = Above(stk, i)
                          /\ Above(stk, i) = n + 1 => Above(t, i) = n + 2
      OBVIOUS
    <2>2. Above(stk, i) \in i + 1 .. n + 1
      BY AboveIs
    <2>3. (Above(stk, i) <= n => Above(t, i) = Above(stk, i))
          /\ (Above(stk, i) = n + 1 => Above(t, i) = n + 2)
      BY AbovePushed
    <2> HIDE DEF t, n
    <2>4. QED
      BY <1>1, <2>1, <2>2, <2>3
  <1>5. Host(t, c, n + 1) = c /\ HostGen(t, g, n + 1) = g
    <2>1. ~(n + 2 <= n + 1)
      BY <1>1
    <2> HIDE DEF t, n
    <2>2. QED
      BY <1>1, <1>3, <2>1 DEF Host, HostGen
  <1> HIDE DEF t, n
  <1>6. \A i \in 1 .. n + 1 : i \in 1 .. n \/ i = n + 1
    BY <1>1
  <1>7. 1 .. n \subseteq 1 .. n + 1 /\ n + 1 \in 1 .. n + 1
    BY <1>1
  <1>8. Placed(t, c, g, tx) <=> /\ Placed(stk, c, g, tx)
                                /\ Within(s.mark, c, tx) /\ s.mark.gen = g
    <2>1. ASSUME Placed(t, c, g, tx)
          PROVE  Placed(stk, c, g, tx) /\ Within(s.mark, c, tx) /\ s.mark.gen = g
      BY <1>1, <1>2, <1>5, <1>7, <2>1 DEF Placed, n
    <2>2. ASSUME Placed(stk, c, g, tx), Within(s.mark, c, tx), s.mark.gen = g
          PROVE  Placed(t, c, g, tx)
      <3>1. SUFFICES ASSUME NEW i \in 1 .. n + 1, ~t[i].frame
                     PROVE  Within(t[i].mark, Host(t, c, i), tx) /\ t[i].mark.gen = HostGen(t, g, i)
        BY <1>1 DEF Placed
      <3>2. CASE i \in 1 .. n
        BY <1>2, <2>2, <3>1, <3>2 DEF Placed, n
      <3>3. CASE i = n + 1
        BY <1>1, <1>5, <2>2, <3>3
      <3>4. QED
        BY <1>6, <3>2, <3>3
    <2>3. QED
      BY <2>1, <2>2
  <1>9. Ordered(t, c) <=> /\ Ordered(stk, c)
                          /\ \A i \in OnTop(stk) : InOrder(stk[i].mark, s.mark, c)
    <2>1. ASSUME Ordered(t, c)
          PROVE  /\ Ordered(stk, c)
                 /\ \A i \in OnTop(stk) : InOrder(stk[i].mark, s.mark, c)
      <3>1. ASSUME NEW i \in 1 .. n, NEW j \in 1 .. n, i < j, ~stk[i].frame, ~stk[j].frame,
                   Above(stk, i) = Above(stk, j)
            PROVE  InOrder(stk[i].mark, stk[j].mark, Host(stk, c, j))
        <4>1. Above(t, i) = Above(t, j)
          BY <1>1, <1>4, <3>1
        <4>2. QED
          BY <1>1, <1>2, <1>7, <2>1, <3>1, <4>1 DEF Ordered
      <3>2. ASSUME NEW i \in OnTop(stk) PROVE InOrder(stk[i].mark, s.mark, c)
        <4>1. i \in 1 .. n /\ ~stk[i].frame /\ Above(stk, i) = n + 1
          BY <3>2 DEF OnTop, n
        <4>2. i < n + 1 /\ Above(t, i) = Above(t, n + 1)
          BY <1>1, <1>3, <1>4, <4>1
        <4>3. QED
          BY <1>1, <1>2, <1>5, <1>7, <2>1, <4>1, <4>2 DEF Ordered
      <3>3. QED
        BY <3>1, <3>2 DEF Ordered, n
    <2>2. ASSUME Ordered(stk, c), \A i \in OnTop(stk) : InOrder(stk[i].mark, s.mark, c)
          PROVE  Ordered(t, c)
      <3>1. SUFFICES ASSUME NEW i \in 1 .. n + 1, NEW j \in 1 .. n + 1, i < j,
                            ~t[i].frame, ~t[j].frame, Above(t, i) = Above(t, j)
                     PROVE  InOrder(t[i].mark, t[j].mark, Host(t, c, j))
        BY <1>1 DEF Ordered
      <3>2. i \in 1 .. n
        BY <1>1, <3>1
      <3>3. CASE j \in 1 .. n
        <4>1. Above(stk, i) = Above(stk, j)
          BY <1>1, <1>4, <3>1, <3>2, <3>3
        <4>2. QED
          BY <1>2, <2>2, <3>1, <3>2, <3>3, <4>1 DEF Ordered, n
      <3>4. CASE j = n + 1
        <4>1. Above(stk, i) = n + 1
          BY <1>1, <1>3, <1>4, <3>1, <3>2, <3>4
        <4>2. i \in OnTop(stk)
          BY <1>2, <3>1, <3>2, <4>1 DEF OnTop, n
        <4>3. QED
          BY <1>1, <1>2, <1>5, <2>2, <3>2, <3>4, <4>2
      <3>5. QED
        BY <1>6, <3>3, <3>4
    <2>3. QED
      BY <2>1, <2>2
  <1>10. \A i \in 1 .. n : PageOf(t, c, tx, i) = PageOf(stk, c, tx, i)
    BY <1>2 DEF PageOf
  <1>11. PageOf(t, c, tx, n + 1) = CutPage(c, tx, s.mark)
    BY <1>1, <1>5 DEF PageOf
  <1>12. OnTop(t) = OnTop(stk) \cup {n + 1}
    <2>1. ASSUME NEW i \in 1 .. n + 1 PROVE i \in OnTop(t) <=> i \in OnTop(stk) \/ i = n + 1
      <3>1. CASE i \in 1 .. n
        <4>1. Above(t, i) = n + 2 <=> Above(stk, i) = n + 1
          BY <1>1, <1>4, <3>1
        <4>2. i # n + 1 /\ (n + 1) + 1 = n + 2
          BY <1>1, <3>1
        <4>3. QED
          BY <1>1, <1>2, <3>1, <4>1, <4>2 DEF OnTop, n
      <3>2. CASE i = n + 1
        <4>1. (n + 1) + 1 = n + 2
          BY <1>1
        <4>2. QED
          BY <1>1, <1>3, <1>7, <3>2, <4>1 DEF OnTop
      <3>3. QED
        BY <1>6, <3>1, <3>2
    <2>2. OnTop(t) \subseteq 1 .. n + 1 /\ OnTop(stk) \subseteq 1 .. n + 1
      BY <1>1, <1>7 DEF OnTop, n
    <2>3. QED
      BY <1>7, <2>1, <2>2
  <1>13. QED
    BY <1>8, <1>9, <1>10, <1>11, <1>12 DEF t, n

(* The oldest step dropped. *)
LEMMA DropOldest ==
  ASSUME NEW stk \in Seq(Step), stk # << >>, NEW c, NEW g, NEW tx
  PROVE  LET t == Tail(stk)
         IN  /\ t \in Seq(Step) /\ Len(t) = Len(stk) - 1
             /\ \A i \in 1 .. Len(t) : t[i] = stk[i + 1]
             /\ Placed(stk, c, g, tx) => Placed(t, c, g, tx)
             /\ Ordered(stk, c) => Ordered(t, c)
             /\ \A i \in 1 .. Len(t) : PageOf(t, c, tx, i) = PageOf(stk, c, tx, i + 1)
             /\ \A i \in OnTop(t) : i + 1 \in OnTop(stk)
  <1> DEFINE t == Tail(stk)
             n == Len(t)
  <1>1. /\ n \in Nat /\ t \in Seq(Step) /\ Len(stk) = n + 1
        /\ \A j \in 1 .. n : t[j] = stk[j + 1]
    BY LenProperties, HeadTailProperties
  <1> HIDE DEF t
  <1>2. ASSUME NEW i \in 1 .. n
        PROVE  Above(stk, i + 1) = Above(t, i) + 1 /\ Above(t, i) \in i + 1 .. n + 1
               /\ i + 1 \in 1 .. Len(stk)
    <2> DEFINE k == Above(t, i)
    <2>1. NextFrame(t, i, k) /\ k \in i + 1 .. n + 1
      BY <1>1, AboveIs
    <2> HIDE DEF k
    <2>2. \A j \in i + 2 .. k : ~stk[j].frame
      <3>1. SUFFICES ASSUME NEW j \in i + 2 .. k PROVE ~stk[j].frame
        OBVIOUS
      <3>2. j - 1 \in i + 1 .. k - 1 /\ j - 1 \in 1 .. n /\ (j - 1) + 1 = j
        BY <1>1, <2>1
      <3>3. QED
        BY <1>1, <2>1, <3>2 DEF NextFrame
    <2>3. k + 1 <= n + 1 => stk[k + 1].frame
      BY <1>1, <2>1 DEF NextFrame
    <2>4. NextFrame(stk, i + 1, k + 1)
      BY <1>1, <2>1, <2>2, <2>3 DEF NextFrame
    <2>5. i + 1 \in 1 .. Len(stk)
      BY <1>1
    <2>6. Above(stk, i + 1) = k + 1
      BY <2>4, <2>5, AboveIs
    <2>7. QED
      BY <2>1, <2>5, <2>6 DEF k
  <1>3. ASSUME NEW i \in 1 .. n
        PROVE  t[i] = stk[i + 1] /\ Host(t, c, i) = Host(stk, c, i + 1)
               /\ HostGen(t, g, i) = HostGen(stk, g, i + 1)
    <2>1. Above(stk, i + 1) = Above(t, i) + 1 /\ Above(t, i) \in i + 1 .. n + 1
      BY <1>2
    <2>2. CASE Above(t, i) <= n
      <3>1. Above(t, i) \in 1 .. n /\ Above(t, i) + 1 <= n + 1
        BY <1>1, <2>1, <2>2
      <3>2. t[Above(t, i)] = stk[Above(t, i) + 1]
        BY <1>1, <3>1
      <3>3. QED
        BY <1>1, <2>1, <2>2, <3>1, <3>2 DEF Host, HostGen
    <2>3. CASE ~(Above(t, i) <= n)
      <3>1. ~(Above(t, i) + 1 <= n + 1)
        BY <1>1, <2>1, <2>3
      <3>2. QED
        BY <1>1, <2>1, <2>3, <3>1 DEF Host, HostGen
    <2>4. QED
      BY <2>2, <2>3
  <1> HIDE DEF n
  <1>4. ASSUME Placed(stk, c, g, tx) PROVE Placed(t, c, g, tx)
    BY <1>2, <1>3, <1>4 DEF Placed, n
  <1>5. ASSUME Ordered(stk, c) PROVE Ordered(t, c)
    <2>1. SUFFICES ASSUME NEW i \in 1 .. n, NEW j \in 1 .. n, i < j, ~t[i].frame, ~t[j].frame,
                          Above(t, i) = Above(t, j)
                   PROVE  InOrder(t[i].mark, t[j].mark, Host(t, c, j))
      BY DEF Ordered, n
    <2>2. i + 1 < j + 1 /\ Above(stk, i + 1) = Above(stk, j + 1)
          /\ i + 1 \in 1 .. Len(stk) /\ j + 1 \in 1 .. Len(stk)
      BY <1>1, <1>2, <2>1
    <2>3. QED
      BY <1>3, <1>5, <2>1, <2>2 DEF Ordered
  <1>6. \A i \in 1 .. n : PageOf(t, c, tx, i) = PageOf(stk, c, tx, i + 1)
    BY <1>3 DEF PageOf
  <1>7. ASSUME NEW i \in OnTop(t) PROVE i + 1 \in OnTop(stk)
    <2>1. i \in 1 .. n /\ ~t[i].frame /\ Above(t, i) = n + 1
      BY DEF OnTop, n
    <2>2. i + 1 \in 1 .. Len(stk) /\ ~stk[i + 1].frame /\ Above(stk, i + 1) = Len(stk) + 1
      BY <1>1, <1>2, <1>3, <2>1
    <2>3. QED
      BY <2>2 DEF OnTop
  <1>8. n = Len(stk) - 1
    BY <1>1
  <1>9. QED
    BY <1>1, <1>4, <1>5, <1>6, <1>7, <1>8 DEF t, n

-----------------------------------------------------------------------------
(* What a change of the chain and of the texts leaves of a position.       *)

(* Chain c and texts tx become d and ux: all that replays up to m stays.   *)
Keep(c, tx, d, ux, m) ==
  \E x \in 1 .. Len(c) :
    /\ x <= Len(d) /\ c[x] = m.buf
    /\ \A y \in 1 .. x : d[y] = c[y]
    /\ \A y \in 1 .. x - 1 : ux[c[y]] = tx[c[y]]
    /\ m.used <= Len(tx[m.buf]) /\ m.used <= Len(ux[m.buf])
    /\ SubSeq(ux[m.buf], 1, m.used) = SubSeq(tx[m.buf], 1, m.used)

(* A chain cut at its x-th buffer. *)
LEMMA CutAt ==
  ASSUME MetaAssumption, NEW c \in Seq(Buf), Distinct(c), NEW tx, NEW m,
         NEW x \in 1 .. Len(c), c[x] = m.buf
  PROVE  /\ CutPage(c, tx, m) = [y \in 1 .. x |-> IF y = x THEN SubSeq(tx[m.buf], 1, m.used)
                                                  ELSE tx[c[y]]]
         /\ m.buf # NoBuf
  <1>1. m.buf \in Buf /\ m.buf \in Bufs(c)
    BY ElementOfSeq, LenProperties DEF Bufs
  <1>2. m.buf # NoBuf
    BY <1>1 DEF MetaAssumption
  <1>3. (CHOOSE n \in 1 .. Len(c) : c[n] = m.buf) = x
    BY DEF Distinct
  <1>4. QED
    BY <1>1, <1>2, <1>3 DEF CutPage

LEMMA KeptPage ==
  ASSUME MetaAssumption, NEW c \in Seq(Buf), NEW d \in Seq(Buf), Distinct(c), Distinct(d),
         NEW tx, NEW ux, NEW m, Keep(c, tx, d, ux, m)
  PROVE  Within(m, d, ux) /\ CutPage(d, ux, m) = CutPage(c, tx, m)
  <1>1. PICK x \in 1 .. Len(c) :
          /\ x <= Len(d) /\ c[x] = m.buf
          /\ \A y \in 1 .. x : d[y] = c[y]
          /\ \A y \in 1 .. x - 1 : ux[c[y]] = tx[c[y]]
          /\ m.used <= Len(tx[m.buf]) /\ m.used <= Len(ux[m.buf])
          /\ SubSeq(ux[m.buf], 1, m.used) = SubSeq(tx[m.buf], 1, m.used)
    BY DEF Keep
  <1>2. x \in 1 .. Len(d) /\ d[x] = m.buf /\ x \in Nat
    BY <1>1, LenProperties
  <1>3. Within(m, d, ux)
    BY <1>1, <1>2 DEF Within
  <1> DEFINE P(e, vx) == [y \in 1 .. x |-> IF y = x THEN SubSeq(vx[m.buf], 1, m.used)
                                           ELSE vx[e[y]]]
  <1>4. ASSUME NEW e \in Seq(Buf), Distinct(e), NEW vx, x \in 1 .. Len(e), e[x] = m.buf
        PROVE  CutPage(e, vx, m) = P(e, vx)
    BY <1>4, CutAt
  <1>5. \A y \in 1 .. x : y # x => ux[d[y]] = tx[c[y]]
    <2>1. \A y \in 1 .. x : y # x => y \in 1 .. x - 1
      BY <1>2
    <2>2. QED
      BY <1>1, <2>1
  <1>6. P(c, tx) = P(d, ux)
    BY <1>1, <1>5
  <1> HIDE DEF P
  <1>7. CutPage(c, tx, m) = P(c, tx) /\ CutPage(d, ux, m) = P(d, ux)
    BY <1>1, <1>2, <1>4
  <1>8. QED
    BY <1>3, <1>6, <1>7

LEMMA KeptOrder ==
  ASSUME NEW c \in Seq(Buf), NEW d \in Seq(Buf), Distinct(d), NEW tx, NEW ux, NEW m, NEW n,
         Keep(c, tx, d, ux, m), Keep(c, tx, d, ux, n), InOrder(m, n, c)
  PROVE  InOrder(m, n, d)
  <1>1. PICK x \in 1 .. Len(c) : x <= Len(d) /\ c[x] = m.buf /\ \A y \in 1 .. x : d[y] = c[y]
    BY DEF Keep
  <1>2. PICK z \in 1 .. Len(c) : z <= Len(d) /\ c[z] = n.buf /\ \A y \in 1 .. z : d[y] = c[y]
    BY DEF Keep
  <1>3. x \in 1 .. Len(d) /\ z \in 1 .. Len(d) /\ d[x] = m.buf /\ d[z] = n.buf
    BY <1>1, <1>2, LenProperties
  <1>4. x < z \/ (x = z /\ m.used <= n.used)
    BY <1>1, <1>2 DEF InOrder
  <1>5. \A i, j \in 1 .. Len(d) : d[i] = m.buf /\ d[j] = n.buf => i = x /\ j = z
    BY <1>3 DEF Distinct
  <1>6. QED
    BY <1>4, <1>5 DEF InOrder

(* The steps carried over such a change: none moves, and none shows another*)
(* page.                                                                   *)
Carries(stk, c, g, tx, d, ux) ==
  /\ stk \in Seq(Step) /\ c \in Seq(Buf) /\ d \in Seq(Buf) /\ Distinct(c) /\ Distinct(d)
  /\ \A b \in StepBufs(stk) : ux[b] = tx[b]
  /\ \A i \in OnTop(stk) : Keep(c, tx, d, ux, stk[i].mark)
  /\ Placed(stk, c, g, tx) /\ Ordered(stk, c)

LEMMA Carried ==
  ASSUME MetaAssumption, NEW stk, NEW c, NEW g, NEW tx, NEW d, NEW ux,
         Carries(stk, c, g, tx, d, ux)
  PROVE  /\ Placed(stk, d, g, ux) /\ Ordered(stk, d)
         /\ \A i \in 1 .. Len(stk) : PageOf(stk, d, ux, i) = PageOf(stk, c, tx, i)
  <1>0. /\ stk \in Seq(Step) /\ c \in Seq(Buf) /\ d \in Seq(Buf) /\ Distinct(c) /\ Distinct(d)
        /\ \A b \in StepBufs(stk) : ux[b] = tx[b]
        /\ \A i \in OnTop(stk) : Keep(c, tx, d, ux, stk[i].mark)
        /\ Placed(stk, c, g, tx) /\ Ordered(stk, c)
    BY DEF Carries
  <1> USE <1>0
  <1> DEFINE n == Len(stk)
  <1>1. n \in Nat
    BY LenProperties
  <1>2. \A i \in 1 .. n : stk[i].chain \in Seq(Buf)
    BY StepTyped
  <1>3. \A i \in 1 .. n : \A x \in 1 .. Len(stk[i].chain) :
          ux[stk[i].chain[x]] = tx[stk[i].chain[x]]
    <2>1. ASSUME NEW i \in 1 .. n, NEW x \in 1 .. Len(stk[i].chain)
          PROVE  ux[stk[i].chain[x]] = tx[stk[i].chain[x]]
      <3>1. stk[i].chain[x] \in Bufs(stk[i].chain)
        BY DEF Bufs
      <3>2. stk[i].chain[x] \in StepBufs(stk)
        BY <3>1 DEF StepBufs
      <3>3. QED
        BY <3>2
    <2>2. QED
      BY <2>1
  <1>4. ASSUME NEW i \in 1 .. n, ~stk[i].frame, i \notin OnTop(stk)
        PROVE  /\ Above(stk, i) \in 1 .. n
               /\ \A e : Host(stk, e, i) = stk[Above(stk, i)].chain
               /\ \A e : HostGen(stk, e, i) = stk[Above(stk, i)].gen
    <2> DEFINE k == Above(stk, i)
    <2>1. k \in i + 1 .. n + 1 /\ k # n + 1
      BY <1>4, AboveIs DEF OnTop
    <2> HIDE DEF k, n
    <2>2. k \in 1 .. n /\ k <= n
      BY <1>1, <2>1
    <2>3. QED
      BY <2>2 DEF Host, HostGen, k, n
  <1>5. ASSUME NEW i \in OnTop(stk)
        PROVE  /\ i \in 1 .. n /\ ~stk[i].frame /\ Above(stk, i) = n + 1
               /\ \A e : Host(stk, e, i) = e /\ HostGen(stk, e, i) = e
               /\ Within(stk[i].mark, d, ux)
               /\ CutPage(d, ux, stk[i].mark) = CutPage(c, tx, stk[i].mark)
    <2>1. i \in 1 .. n /\ ~stk[i].frame /\ Above(stk, i) = n + 1
      BY DEF OnTop
    <2> HIDE DEF n
    <2>2. ~(Above(stk, i) <= n)
      BY <1>1, <2>1
    <2>3. \A e : Host(stk, e, i) = e /\ HostGen(stk, e, i) = e
      BY <2>2 DEF Host, HostGen, n
    <2>4. QED
      BY <2>1, <2>3, KeptPage
  <1> HIDE DEF n
  <1>6. Placed(stk, d, g, ux)
    <2>1. SUFFICES ASSUME NEW i \in 1 .. n, ~stk[i].frame
                   PROVE  Within(stk[i].mark, Host(stk, d, i), ux)
                          /\ stk[i].mark.gen = HostGen(stk, g, i)
      BY DEF Placed, n
    <2>2. /\ Within(stk[i].mark, Host(stk, c, i), tx)
          /\ stk[i].mark.gen = HostGen(stk, g, i)
      BY <2>1 DEF Placed, n
    <2>3. CASE i \in OnTop(stk)
      BY <1>5, <2>2, <2>3
    <2>4. CASE i \notin OnTop(stk)
      <3>1. Above(stk, i) \in 1 .. n /\ Host(stk, c, i) = stk[Above(stk, i)].chain
            /\ Host(stk, d, i) = stk[Above(stk, i)].chain
        BY <1>4, <2>1, <2>4
      <3>2. Within(stk[i].mark, stk[Above(stk, i)].chain, ux)
        <4>1. PICK x \in 1 .. Len(stk[Above(stk, i)].chain) :
                stk[Above(stk, i)].chain[x] = stk[i].mark.buf
                /\ stk[i].mark.used <= Len(tx[stk[i].mark.buf])
          BY <2>2, <3>1 DEF Within
        <4>2. ux[stk[i].mark.buf] = tx[stk[i].mark.buf]
          BY <1>3, <3>1, <4>1, SMTT(30)
        <4>3. QED
          BY <4>1, <4>2 DEF Within
      <3>3. QED
        BY <2>2, <3>1, <3>2
    <2>5. QED
      BY <2>3, <2>4
  <1>7. Ordered(stk, d)
    <2>1. SUFFICES ASSUME NEW i \in 1 .. n, NEW j \in 1 .. n, i < j, ~stk[i].frame,
                          ~stk[j].frame, Above(stk, i) = Above(stk, j)
                   PROVE  InOrder(stk[i].mark, stk[j].mark, Host(stk, d, j))
      BY DEF Ordered, n
    <2>2. InOrder(stk[i].mark, stk[j].mark, Host(stk, c, j))
      BY <2>1 DEF Ordered, n
    <2>3. CASE j \in OnTop(stk)
      <3>1. i \in OnTop(stk)
        BY <2>1, <2>3 DEF OnTop, n
      <3>2. InOrder(stk[i].mark, stk[j].mark, c)
        BY <1>5, <2>2, <2>3
      <3>3. InOrder(stk[i].mark, stk[j].mark, d)
        BY <2>3, <3>1, <3>2, KeptOrder
      <3>4. QED
        BY <1>5, <2>3, <3>3
    <2>4. CASE j \notin OnTop(stk)
      BY <1>4, <2>1, <2>2, <2>4
    <2>5. QED
      BY <2>3, <2>4
  <1>8. ASSUME NEW i \in 1 .. n PROVE PageOf(stk, d, ux, i) = PageOf(stk, c, tx, i)
    <2>1. CASE stk[i].frame
      BY <1>3, <2>1 DEF PageOf, FullPage
    <2>2. CASE i \in OnTop(stk)
      BY <1>5, <2>2 DEF PageOf
    <2>3. CASE ~stk[i].frame /\ i \notin OnTop(stk)
      <3> DEFINE e == stk[Above(stk, i)].chain
      <3>1. Above(stk, i) \in 1 .. n /\ Host(stk, c, i) = e /\ Host(stk, d, i) = e
        BY <1>4, <2>3
      <3>2. \A x \in 1 .. Len(e) : ux[e[x]] = tx[e[x]]
        BY <1>3, <3>1
      <3>3. e \in Seq(Buf) /\ Len(e) \in Nat
        BY <1>2, <3>1, LenProperties
      <3> HIDE DEF e
      <3>4. Within(stk[i].mark, e, tx)
        BY <2>3, <3>1 DEF Placed, n
      <3>5. CutPage(e, ux, stk[i].mark) = CutPage(e, tx, stk[i].mark)
        <4> DEFINE m == stk[i].mark
                   x == CHOOSE y \in 1 .. Len(e) : e[y] = m.buf
        <4>1. x \in 1 .. Len(e) /\ e[x] = m.buf
          BY <3>4 DEF Within
        <4> HIDE DEF x, m
        <4>2. \A y \in 1 .. x : ux[e[y]] = tx[e[y]]
          BY <3>2, <3>3, <4>1
        <4>3. ux[m.buf] = tx[m.buf]
          BY <3>2, <4>1
        <4> DEFINE P(vx) == [y \in 1 .. x |-> IF y = x THEN SubSeq(vx[m.buf], 1, m.used)
                                              ELSE vx[e[y]]]
        <4>4. P(ux) = P(tx)
          BY <4>2, <4>3
        <4>5. CutPage(e, ux, m) = CutPage(e, tx, m)
          BY <4>4 DEF CutPage, x
        <4>6. QED
          BY <4>5 DEF m
      <3>6. QED
        BY <2>3, <3>1, <3>5 DEF PageOf
    <2>4. QED
      BY <2>1, <2>2, <2>3 DEF OnTop
  <1>9. QED
    BY <1>6, <1>7, <1>8 DEF n

(* A text begins as before when words are added at its end, or cut off it. *)
LEMMA StartKept ==
  ASSUME NEW S, NEW s \in Seq(S), NEW r \in Seq(S), NEW u \in 0 .. Len(s), u <= Len(r),
         \A k \in 1 .. u : r[k] = s[k]
  PROVE  SubSeq(r, 1, u) = SubSeq(s, 1, u)
  <1>1. u \in Nat /\ u \in 0 .. Len(r) /\ Len(s) \in Nat /\ Len(r) \in Nat
    BY LenProperties
  <1> DEFINE a == SubSeq(s, 1, u)
             b == SubSeq(r, 1, u)
  <1>2. /\ a \in Seq(S) /\ Len(a) = IF 1 <= u THEN u - 1 + 1 ELSE 0
        /\ \A i \in 1 .. u - 1 + 1 : a[i] = s[1 + i - 1]
    BY <1>1, Piece
  <1>3. /\ b \in Seq(S) /\ Len(b) = IF 1 <= u THEN u - 1 + 1 ELSE 0
        /\ \A i \in 1 .. u - 1 + 1 : b[i] = r[1 + i - 1]
    BY <1>1, Piece
  <1> HIDE DEF a, b
  <1>4. Len(a) = u /\ Len(b) = u /\ \A i \in 1 .. u : a[i] = b[i]
    BY <1>1, <1>2, <1>3
  <1>5. a = b
    BY <1>2, <1>3, <1>4, SeqEqual
  <1>6. QED
    BY <1>5 DEF a, b

(* The chain goes on, its last buffer or the next one with more in it.     *)
LEMMA KeepGrow ==
  ASSUME NEW c \in Seq(Buf), NEW d \in Seq(Buf), Len(c) <= Len(d),
         \A y \in 1 .. Len(c) : d[y] = c[y],
         NEW tx \in [Buf -> Seq(Word)], NEW ux,
         \A y \in 1 .. Len(c) - 1 : ux[c[y]] = tx[c[y]],
         \A y \in 1 .. Len(c) : \E w \in Seq(Word) : ux[c[y]] = tx[c[y]] \o w,
         NEW m, m.used \in Nat, Within(m, c, tx)
  PROVE  Keep(c, tx, d, ux, m)
  <1>1. PICK x \in 1 .. Len(c) : c[x] = m.buf /\ m.used <= Len(tx[m.buf])
    BY DEF Within
  <1>2. PICK w \in Seq(Word) : ux[m.buf] = tx[m.buf] \o w
    BY <1>1
  <1>3. m.buf \in Buf /\ Len(c) \in Nat /\ x \in Nat /\ Len(d) \in Nat
    BY <1>1, ElementOfSeq, LenProperties
  <1>4. tx[m.buf] \in Seq(Word)
    BY <1>3
  <1> DEFINE s == tx[m.buf]
             r == ux[m.buf]
             u == m.used
  <1>5. /\ u \in Nat /\ u <= Len(s)
        /\ s \in Seq(Word) /\ r \in Seq(Word) /\ Len(s) \in Nat /\ Len(w) \in Nat
        /\ Len(r) = Len(s) + Len(w) /\ \A k \in 1 .. Len(s) : r[k] = s[k]
    BY <1>1, <1>2, <1>4, ConcatProperties, LenProperties
  <1> HIDE DEF s, r, u
  <1>6. u \in 0 .. Len(s) /\ u <= Len(r) /\ \A k \in 1 .. u : r[k] = s[k]
    <2>1. u \in 0 .. Len(s)
      BY <1>5
    <2>2. u <= Len(r)
      BY <1>5
    <2>3. \A k \in 1 .. u : k \in 1 .. Len(s)
      BY <2>1
    <2>4. QED
      BY <1>5, <2>1, <2>2, <2>3
  <1>7. SubSeq(r, 1, u) = SubSeq(s, 1, u)
    BY <1>5, <1>6, StartKept
  <1>8. \A y \in 1 .. x : d[y] = c[y]
    <2>1. \A y \in 1 .. x : y \in 1 .. Len(c)
      BY <1>3
    <2>2. QED
      BY <2>1, Zenon
  <1>9. \A y \in 1 .. x - 1 : ux[c[y]] = tx[c[y]]
    <2>1. \A y \in 1 .. x - 1 : y \in 1 .. Len(c) - 1
      BY <1>3
    <2>2. QED
      BY <2>1, Zenon
  <1>10. x <= Len(d)
    BY <1>3
  <1>11. QED
    BY <1>1, <1>6, <1>7, <1>8, <1>9, <1>10 DEF Keep, s, r, u

(* Nothing changes but what comes after the chain.                         *)
LEMMA KeepSame ==
  ASSUME NEW c \in Seq(Buf), NEW tx, NEW ux, \A b \in Bufs(c) : ux[b] = tx[b],
         NEW m, Within(m, c, tx)
  PROVE  Keep(c, tx, c, ux, m)
  <1>1. PICK x \in 1 .. Len(c) : c[x] = m.buf /\ m.used <= Len(tx[m.buf])
    BY DEF Within
  <1>2. Len(c) \in Nat /\ x \in Nat /\ x <= Len(c)
    BY LenProperties
  <1>3. \A y \in 1 .. Len(c) : ux[c[y]] = tx[c[y]]
    BY DEF Bufs
  <1>4. \A y \in 1 .. x - 1 : ux[c[y]] = tx[c[y]]
    BY <1>2, <1>3
  <1>5. ux[m.buf] = tx[m.buf]
    BY <1>1, <1>3
  <1>6. QED
    BY <1>1, <1>2, <1>4, <1>5 DEF Keep

(* The chain is cut at position e, and m is no later.                      *)
LEMMA KeepCut ==
  ASSUME NEW c \in Seq(Buf), Distinct(c), NEW n \in 1 .. Len(c), NEW d, Len(d) = n,
         \A y \in 1 .. n : d[y] = c[y],
         NEW tx \in [Buf -> Seq(Word)], NEW e, e.buf = c[n], e.used \in Nat,
         e.used <= Len(tx[c[n]]), NEW ux,
         ux = [tx EXCEPT ![c[n]] = SubSeq(tx[c[n]], 1, e.used)],
         NEW m, m.used \in Nat, Within(m, c, tx), InOrder(m, e, c)
  PROVE  Keep(c, tx, d, ux, m)
  <1>1. PICK x \in 1 .. Len(c) : c[x] = m.buf /\ m.used <= Len(tx[m.buf])
    BY DEF Within
  <1>2. x < n \/ (x = n /\ m.used <= e.used)
    BY <1>1 DEF InOrder
  <1>3. Len(c) \in Nat /\ x \in Nat /\ n \in Nat /\ x <= n /\ x <= Len(d)
    BY <1>2, LenProperties
  <1>4. \A y \in 1 .. n - 1 : y \in 1 .. Len(c) /\ y # n
    BY <1>3
  <1>5. \A y \in 1 .. Len(c) : y # n => c[y] # c[n] /\ c[y] \in Buf
    BY ElementOfSeq DEF Distinct
  <1>6. \A y \in 1 .. n - 1 : ux[c[y]] = tx[c[y]]
    BY <1>4, <1>5
  <1>7. \A y \in 1 .. x : d[y] = c[y]
    BY <1>3
  <1>8. \A y \in 1 .. x - 1 : ux[c[y]] = tx[c[y]]
    <2>1. \A y \in 1 .. x - 1 : y \in 1 .. n - 1
      BY <1>3
    <2>2. QED
      BY <1>6, <2>1
  <1>9. m.used <= Len(ux[m.buf]) /\ SubSeq(ux[m.buf], 1, m.used) = SubSeq(tx[m.buf], 1, m.used)
    <2>1. CASE x # n
      <3>1. x \in 1 .. n - 1
        BY <1>3, <2>1
      <3>2. ux[m.buf] = tx[m.buf]
        BY <1>1, <1>6, <3>1
      <3>3. QED
        BY <1>1, <3>2
    <2>2. CASE x = n
      <3> DEFINE s == tx[m.buf]
                 r == ux[m.buf]
                 u == m.used
                 v == e.used
      <3>1. c[n] \in Buf /\ m.buf = c[n] /\ u \in Nat /\ v \in Nat /\ u <= v
        BY <1>1, <1>2, <1>3, <2>2, ElementOfSeq
      <3>2. s \in Seq(Word) /\ r = SubSeq(s, 1, v) /\ v <= Len(s) /\ Len(s) \in Nat
        BY <3>1, LenProperties
      <3> HIDE DEF s, r, u, v
      <3>3. v \in 0 .. Len(s)
        BY <3>1, <3>2
      <3>4. /\ r \in Seq(Word) /\ Len(r) = IF 1 <= v THEN v - 1 + 1 ELSE 0
            /\ \A i \in 1 .. v - 1 + 1 : r[i] = s[1 + i - 1]
        BY <3>2, <3>3, Piece
      <3>5. Len(r) = v /\ \A i \in 1 .. u : r[i] = s[i]
        BY <3>1, <3>4
      <3>6. u \in 0 .. Len(s) /\ u <= Len(r)
        BY <3>1, <3>2, <3>5
      <3>7. SubSeq(r, 1, u) = SubSeq(s, 1, u)
        BY <3>2, <3>4, <3>5, <3>6, StartKept
      <3>8. QED
        BY <3>6, <3>7 DEF s, r, u
    <2>3. QED
      BY <2>1, <2>2
  <1>10. QED
    BY <1>1, <1>3, <1>7, <1>8, <1>9 DEF Keep

-----------------------------------------------------------------------------
(* The pages of the steps, as a sequence.                                  *)

Pages(stk, c, tx) == [i \in 1 .. Len(stk) |-> PageOf(stk, c, tx, i)]

(* What step s, pushed below chain c, leaves to those under it, and shows. *)
Under(s, c) == IF s.frame THEN s.chain ELSE c
UnderGen(s, g) == IF s.frame THEN s.gen ELSE g
Shown(s, c, tx) == IF s.frame THEN FullPage(s.chain, tx) ELSE CutPage(c, tx, s.mark)

LEMMA PagesPushed ==
  ASSUME NEW stk \in Seq(Step), NEW s \in Step, NEW c, NEW tx
  PROVE  Pages(Append(stk, s), c, tx) = Append(Pages(stk, Under(s, c), tx), Shown(s, c, tx))
  <1> DEFINE t == Append(stk, s)
             n == Len(stk)
             S == {PageOf(t, c, tx, i) : i \in 1 .. n + 1}
             f == Pages(t, c, tx)
             h == Pages(stk, Under(s, c), tx)
             p == Shown(s, c, tx)
  <1>1. n \in Nat /\ Len(t) = n + 1
    BY LenProperties, AppendProperties
  <1> HIDE DEF S, f, h
  <1>2. /\ \A i \in 1 .. n : PageOf(t, c, tx, i) = PageOf(stk, Under(s, c), tx, i)
        /\ PageOf(t, c, tx, n + 1) = p
    <2>1. CASE s.frame
      <3>1. Placed(t, c, 0, tx) <=> Placed(stk, s.chain, s.gen, tx)
        BY <2>1, PushFrame
      <3>2. \A i \in 1 .. n : PageOf(t, c, tx, i) = PageOf(stk, s.chain, tx, i)
        BY <2>1, <3>1, PushFrame
      <3>3. PageOf(t, c, tx, n + 1) = FullPage(s.chain, tx)
        BY <2>1, <3>1, PushFrame
      <3>4. QED
        BY <2>1, <3>2, <3>3 DEF Under, Shown
    <2>2. CASE ~s.frame
      <3>1. Placed(t, c, 0, tx) <=> /\ Placed(stk, c, 0, tx)
                                    /\ Within(s.mark, c, tx) /\ s.mark.gen = 0
        BY <2>2, PushDraw
      <3>2. \A i \in 1 .. n : PageOf(t, c, tx, i) = PageOf(stk, c, tx, i)
        BY <2>2, <3>1, PushDraw
      <3>3. PageOf(t, c, tx, n + 1) = CutPage(c, tx, s.mark)
        BY <2>2, <3>1, PushDraw
      <3>4. QED
        BY <2>2, <3>2, <3>3 DEF Under, Shown
    <2>3. QED
      BY <2>1, <2>2
  <1> HIDE DEF n, p
  <1>3. f = [i \in 1 .. n + 1 |-> PageOf(t, c, tx, i)]
    BY <1>1 DEF Pages, f
  <1>4. h = [i \in 1 .. n |-> PageOf(t, c, tx, i)]
    BY <1>2 DEF Pages, n, h
  <1> HIDE DEF t
  <1>5. f \in [1 .. n + 1 -> S] /\ h \in [1 .. n -> S] /\ p \in S
    <2>1. 1 .. n \subseteq 1 .. n + 1 /\ n + 1 \in 1 .. n + 1
      BY <1>1
    <2>2. QED
      BY <1>2, <1>3, <1>4, <2>1 DEF S
  <1>6. f \in Seq(S) /\ Len(f) = n + 1 /\ h \in Seq(S) /\ Len(h) = n
    BY <1>1, <1>5, SeqDef
  <1> DEFINE a == Append(h, p)
  <1>7. /\ a \in Seq(S) /\ Len(a) = n + 1 /\ \A i \in 1 .. n : a[i] = h[i]
        /\ a[n + 1] = p
    BY <1>5, <1>6, AppendProperties
  <1> HIDE DEF a
  <1>8. \A i \in 1 .. n + 1 : f[i] = a[i]
    <2>1. ASSUME NEW i \in 1 .. n PROVE f[i] = a[i]
      <3>1. i \in 1 .. n + 1
        BY <1>1
      <3>2. QED
        BY <1>3, <1>4, <1>7, <3>1
    <2>2. f[n + 1] = a[n + 1]
      BY <1>1, <1>2, <1>3, <1>7
    <2>3. QED
      BY <1>1, <2>1, <2>2
  <1>9. f = a
    BY <1>6, <1>7, <1>8, SeqEqual
  <1>10. QED
    BY <1>9 DEF f, a, h, p, t

LEMMA PagesDropped ==
  ASSUME NEW stk \in Seq(Step), stk # << >>, NEW c, NEW tx
  PROVE  Pages(Tail(stk), c, tx) = Tail(Pages(stk, c, tx))
  <1> DEFINE t == Tail(stk)
             n == Len(t)
             S == {PageOf(stk, c, tx, i) : i \in 1 .. n + 1}
             f == Pages(t, c, tx)
             h == Pages(stk, c, tx)
  <1>1. n \in Nat /\ Len(stk) = n + 1
    BY LenProperties, HeadTailProperties
  <1> HIDE DEF S, f, h
  <1>2. \A i \in 1 .. n : PageOf(t, c, tx, i) = PageOf(stk, c, tx, i + 1)
    <2>1. Placed(stk, c, 0, tx) => Placed(t, c, 0, tx)
      BY DropOldest
    <2>2. QED
      BY <2>1, DropOldest
  <1>3. f = [i \in 1 .. n |-> PageOf(stk, c, tx, i + 1)]
    BY <1>2 DEF Pages, f
  <1>4. h = [i \in 1 .. n + 1 |-> PageOf(stk, c, tx, i)]
    BY <1>1 DEF Pages, h
  <1> HIDE DEF n, t
  <1>5. f \in [1 .. n -> S] /\ h \in [1 .. n + 1 -> S]
    <2>1. \A i \in 1 .. n : i + 1 \in 1 .. n + 1
      BY <1>1
    <2>2. QED
      BY <1>3, <1>4, <2>1 DEF S
  <1>6. f \in Seq(S) /\ Len(f) = n /\ h \in Seq(S) /\ Len(h) = n + 1
    BY <1>1, <1>5, SeqDef
  <1>7. h # << >>
    BY <1>1, <1>6
  <1> DEFINE a == Tail(h)
  <1>8. a \in Seq(S) /\ Len(a) = n /\ \A i \in 1 .. n : a[i] = h[i + 1]
    BY <1>1, <1>6, <1>7, HeadTailProperties
  <1> HIDE DEF a
  <1>9. \A i \in 1 .. n : f[i] = a[i]
    <2>1. \A i \in 1 .. n : i + 1 \in 1 .. n + 1
      BY <1>1
    <2>2. QED
      BY <1>3, <1>4, <1>8, <2>1
  <1>10. f = a
    BY <1>6, <1>8, <1>9, SeqEqual
  <1>11. QED
    BY <1>10 DEF f, a, h, t

LEMMA PagesLen ==
  ASSUME NEW stk \in Seq(Step), NEW c, NEW tx
  PROVE  Len(Pages(stk, c, tx)) = Len(stk)
  BY LenProperties DEF Pages

(* A step fits on the stack c, g, tx are above.                            *)
Fits(stk, s, c, g, tx) ==
  /\ Placed(stk, Under(s, c), UnderGen(s, g), tx) /\ Ordered(stk, Under(s, c))
  /\ ~s.frame => /\ Within(s.mark, c, tx) /\ s.mark.gen = g
                 /\ \A i \in OnTop(stk) : InOrder(stk[i].mark, s.mark, c)

LEMMA FitsIs ==
  ASSUME NEW stk \in Seq(Step), NEW s \in Step, NEW c, NEW g, NEW tx
  PROVE  Placed(Append(stk, s), c, g, tx) /\ Ordered(Append(stk, s), c)
           <=> Fits(stk, s, c, g, tx)
  <1>1. CASE s.frame
    BY <1>1, PushFrame DEF Fits, Under, UnderGen
  <1>2. CASE ~s.frame
    BY <1>2, PushDraw DEF Fits, Under, UnderGen
  <1>3. QED
    BY <1>1, <1>2

LEMMA FitsWithoutOldest ==
  ASSUME NEW stk \in Seq(Step), stk # << >>, NEW s \in Step, NEW c, NEW g, NEW tx,
         Fits(stk, s, c, g, tx)
  PROVE  Fits(Tail(stk), s, c, g, tx)
  <1> DEFINE t == Tail(stk)
             d == Under(s, c)
             h == UnderGen(s, g)
  <1>1. Placed(stk, d, h, tx) /\ Ordered(stk, d)
    BY DEF Fits
  <1>2. Placed(t, d, h, tx) /\ Ordered(t, d)
    <2> HIDE DEF d, h
    <2>1. QED
      BY <1>1, DropOldest
  <1>3. \A i \in OnTop(t) : i + 1 \in OnTop(stk) /\ t[i] = stk[i + 1]
    <2>1. ASSUME NEW i \in OnTop(t) PROVE i + 1 \in OnTop(stk) /\ t[i] = stk[i + 1]
      <3>1. i \in 1 .. Len(t)
        BY DEF OnTop
      <3>2. QED
        BY <3>1, DropOldest
    <2>2. QED
      BY <2>1
  <1>4. ASSUME ~s.frame, NEW i \in OnTop(t) PROVE InOrder(t[i].mark, s.mark, c)
    BY <1>3, <1>4 DEF Fits
  <1>5. QED
    BY <1>2, <1>4 DEF Fits

-----------------------------------------------------------------------------
(* The undo stack in a state.                                              *)

(* What is above all steps: the frame the running command set aside, or    *)
(* the current chain up to mbuflast; and its generation.                   *)
TopChain == IF undoclr # << >> THEN undoclr[1].chain ELSE SubSeq(chain, 1, last)
TopGen == IF undoclr # << >> THEN undoclr[1].gen ELSE undogen
Past == Pages(undostk, TopChain, text)

HeadInv == chain = << >> <=> last = 0
IdleInv == ~running => undopend = << >> /\ undoclr = << >>

(* A position is noted, a frame set aside, only where undo can use it.     *)
NotedInv ==
  /\ undopend # << >> => undolim >= 1 /\ ~mbuferror
  /\ undoclr # << >> => undopend # << >> /\ undoclr[1].chain # << >>
  /\ \A i \in 1 .. Len(undostk) : undostk[i].frame => undostk[i].chain # << >>

(* The position noted for the running command, until it clears: in the     *)
(* chain, and no earlier than that of any step that goes back into it.     *)
PendInv ==
  undopend # << >> /\ undoclr = << >> =>
    /\ undopend[1].gen = undogen
    /\ last = 0 => undopend[1] = EndMark
    /\ last # 0 => /\ Within(undopend[1], TopChain, text)
                   /\ \A i \in OnTop(undostk) :
                        InOrder(undostk[i].mark, undopend[1], TopChain)

StepsPlaced == Placed(undostk, TopChain, TopGen, text) /\ Ordered(undostk, TopChain)

UndoInv == HeadInv /\ IdleInv /\ NotedInv /\ PendInv /\ StepsPlaced

(* The chain above all steps shares no buffer with them.                   *)
TopFacts ==
  /\ TopChain \in Seq(Buf) /\ Distinct(TopChain)
  /\ Bufs(TopChain) \cap StepBufs(undostk) = {}
  /\ undoclr = << >> => /\ Len(TopChain) = last
                        /\ \A y \in 1 .. last : TopChain[y] = chain[y]
                        /\ Bufs(TopChain) \subseteq Bufs(chain)
  /\ undoclr # << >> => Bufs(TopChain) \subseteq StepHeap
  /\ undostk \in Seq(Step) /\ text \in [Buf -> Seq(Word)]

LEMMA TopOK == TypeOK /\ MemoryInv => TopFacts
  <1> SUFFICES ASSUME TypeOK, MemoryInv PROVE TopFacts
    OBVIOUS
  <1>1. /\ chain \in Seq(Buf) /\ last \in 0 .. Len(chain) /\ Len(chain) \in Nat
        /\ undostk \in Seq(Step) /\ undoclr \in Seq(Step) /\ text \in [Buf -> Seq(Word)]
        /\ Distinct(chain) /\ StepsApart(undoclr)
        /\ StepBufs(undostk) \cap StepBufs(undoclr) = {}
        /\ StepHeap = StepBufs(undostk) \cup StepBufs(undoclr)
        /\ StepHeap \cap Bufs(chain) = {}
    BY LenProperties DEF TypeOK, ChainsOK, StacksOK, BuffersOK, MemoryInv, BuffersOwnedOnce,
                         StepHeap
  <1>2. CASE undoclr # << >>
    <2>1. 1 \in 1 .. Len(undoclr) /\ undoclr[1] \in Step
      BY <1>1, <1>2, FirstElement
    <2>2. undoclr[1].chain \in Seq(Buf) /\ Distinct(undoclr[1].chain)
      BY <1>1, <2>1, StepTyped DEF StepsApart
    <2>3. Bufs(undoclr[1].chain) \subseteq StepBufs(undoclr)
      BY <2>1 DEF StepBufs
    <2>4. QED
      BY <1>1, <1>2, <2>2, <2>3 DEF TopChain, TopFacts
  <1>3. CASE undoclr = << >>
    <2> DEFINE c == SubSeq(chain, 1, last)
    <2>1. /\ c \in Seq(Buf) /\ Len(c) = IF 1 <= last THEN last - 1 + 1 ELSE 0
          /\ \A i \in 1 .. last - 1 + 1 : c[i] = chain[1 + i - 1]
      BY <1>1, Piece
    <2>2. Distinct(c) /\ Bufs(c) \subseteq Bufs(chain)
      BY <1>1, CutChain
    <2> HIDE DEF c
    <2>3. Len(c) = last /\ \A i \in 1 .. last : c[i] = chain[i]
      BY <1>1, <2>1
    <2>4. TopChain = c
      BY <1>3 DEF TopChain, c
    <2>5. Bufs(c) \cap StepBufs(undostk) = {}
      BY <1>1, <2>2
    <2>6. QED
      BY <1>1, <1>3, <2>1, <2>2, <2>3, <2>4, <2>5 DEF TopFacts
  <1>4. QED
    BY <1>2, <1>3

LEMMA TopNextOK == TypeOK' /\ MemoryInv' => TopFacts'
  BY TopOK, PTL

(* The pages of the steps, as the properties of MetaBuffer say it.         *)
LEMMA StepPageIs ==
  ASSUME TypeOK, NEW i \in 1 .. Len(undostk)
  PROVE  /\ HostChain(i) = Host(undostk, TopChain, i)
         /\ StepPage(i) = PageOf(undostk, TopChain, text, i)
         /\ (IF {j \in i + 1 .. Len(undostk) : undostk[j].frame} # {}
             THEN undostk[CHOOSE j \in {j \in i + 1 .. Len(undostk) : undostk[j].frame} :
                            \A k \in {h \in i + 1 .. Len(undostk) : undostk[h].frame} : j <= k].gen
             ELSE IF undoclr # << >> THEN undoclr[1].gen ELSE undogen)
              = HostGen(undostk, TopGen, i)
  <1> DEFINE T == {j \in i + 1 .. Len(undostk) : undostk[j].frame}
             l == CHOOSE j \in T : \A k \in T : j <= k
             a == Above(undostk, i)
  <1>1. undostk \in Seq(Step) /\ Len(undostk) \in Nat
    BY LenProperties DEF TypeOK, StacksOK
  <1>2. NextFrame(undostk, i, a) /\ a \in i + 1 .. Len(undostk) + 1
    BY <1>1, AboveIs
  <1>3. (T # {} <=> a <= Len(undostk)) /\ (T # {} => l = a)
    <2> HIDE DEF a
    <2>1. CASE a <= Len(undostk)
      <3>1. a \in T
        BY <1>1, <1>2, <2>1 DEF NextFrame
      <3>2. \A k \in T : a <= k
        <4>1. SUFFICES ASSUME NEW k \in T, ~(a <= k) PROVE FALSE
          OBVIOUS
        <4>2. k \in i + 1 .. a - 1
          BY <1>1, <1>2, <4>1
        <4>3. QED
          BY <1>2, <4>1, <4>2 DEF NextFrame
      <3>3. \A k \in T : k \in Int
        BY <1>1
      <3> HIDE DEF T
      <3>4. \A k \in T : (\A j \in T : k <= j) => k = a
        BY <3>1, <3>2, <3>3
      <3>5. l = a
        BY <3>1, <3>2, <3>4
      <3>6. QED
        BY <2>1, <3>1, <3>5
    <2>2. CASE ~(a <= Len(undostk))
      <3>1. ASSUME NEW j \in T PROVE FALSE
        <4>1. j \in i + 1 .. a - 1
          BY <1>1, <1>2, <2>2
        <4>2. QED
          BY <1>2, <4>1 DEF NextFrame
      <3>2. QED
        BY <2>2, <3>1
    <2>3. QED
      BY <2>1, <2>2
  <1>4. HostChain(i) = IF T # {} THEN undostk[l].chain ELSE TopChain
    BY DEF HostChain, TopChain
  <1> HIDE DEF T, l, a
  <1>5. HostChain(i) = Host(undostk, TopChain, i)
    BY <1>3, <1>4 DEF Host, a
  <1>6. (IF T # {} THEN undostk[l].gen ELSE TopGen) = HostGen(undostk, TopGen, i)
    BY <1>3 DEF HostGen, a
  <1>7. StepPage(i) = PageOf(undostk, TopChain, text, i)
    BY <1>5 DEF StepPage, PageOf, Replay, FullPage, ReplayTo, CutPage
  <1>8. QED
    BY <1>5, <1>6, <1>7 DEF TopGen, T, l

(* Nothing kept, nothing noted: nothing to hold.                           *)
LEMMA ForgetUndo ==
  ASSUME undostk = << >>, undopend = << >>, undoclr = << >>, HeadInv
  PROVE  UndoInv /\ Past = << >> /\ BeforePage = NoPage
  <1>1. Len(undostk) = 0 /\ 1 .. 0 = {}
    OBVIOUS
  <1>2. Past = << >>
    BY <1>1 DEF Past, Pages
  <1>3. QED
    BY <1>1, <1>2 DEF UndoInv, IdleInv, NotedInv, PendInv, StepsPlaced, Placed, Ordered,
                      BeforePage

(* What gxhdrw replays now is the chain up to mbuflast, whole.             *)
LEMMA PageFull ==
  ASSUME TypeOK, MemoryInv, undoclr = << >>
  PROVE  Page = FullPage(TopChain, text)
  BY DEF Page, TopChain, FullPage, Replay

(* The page noted is the chain above the steps up to the position noted.   *)
BeforeFacts ==
  undopend # << >> =>
    BeforePage = IF undoclr # << >> THEN FullPage(undoclr[1].chain, text)
                 ELSE CutPage(TopChain, text, undopend[1])

LEMMA ReplayIs ==
  ASSUME NEW c, NEW m
  PROVE  ReplayTo(c, m) = CutPage(c, text, m)
  BY DEF ReplayTo, CutPage

LEMMA BeforeIs == BeforeFacts
  <1>1. CASE undopend # << >> /\ undoclr = << >>
    <2>1. BeforePage = ReplayTo(SubSeq(chain, 1, last), undopend[1])
      BY <1>1 DEF BeforePage
    <2>2. TopChain = SubSeq(chain, 1, last)
      BY <1>1 DEF TopChain
    <2>3. QED
      BY <1>1, <2>1, <2>2, ReplayIs DEF BeforeFacts
  <1>2. CASE undopend # << >> /\ undoclr # << >>
    BY <1>2 DEF BeforePage, Replay, FullPage, BeforeFacts
  <1>3. QED
    BY <1>1, <1>2 DEF BeforeFacts

LEMMA BeforeNextIs == BeforeFacts'
  BY BeforeIs, PTL

(* The chain grows, or what is in it stays: steps and pages are kept.      *)
LEMMA StepsCarried ==
  ASSUME MetaAssumption, TypeOK, MemoryInv, TypeOK', MemoryInv', StepsPlaced,
         undostk' = undostk, TopGen' = TopGen,
         \A b \in StepBufs(undostk) : text'[b] = text[b],
         \A m \in Mark : Within(m, TopChain, text)
           => Keep(TopChain, text, TopChain', text', m)
  PROVE  StepsPlaced' /\ Past' = Past
  <1> DEFINE c == TopChain
             d == TopChain'
             ux == text'
             stk == undostk
             g == TopGen
  <1>1. c \in Seq(Buf) /\ Distinct(c) /\ stk \in Seq(Step)
    BY TopOK DEF TopFacts
  <1>2. d \in Seq(Buf) /\ Distinct(d)
    BY TopNextOK DEF TopFacts
  <1>3. Placed(stk, c, g, text) /\ Ordered(stk, c)
    BY DEF StepsPlaced
  <1>4. ASSUME NEW i \in OnTop(stk) PROVE Keep(c, text, d, ux, stk[i].mark)
    <2>1. i \in 1 .. Len(stk) /\ ~stk[i].frame /\ ~(Above(stk, i) <= Len(stk))
      BY <1>1, LenProperties DEF OnTop
    <2>2. Within(stk[i].mark, c, text)
      BY <1>3, <2>1 DEF Placed, Host
    <2>3. stk[i].mark \in Mark
      BY <1>1, <2>1, StepTyped
    <2>4. QED
      BY <2>2, <2>3
  <1>5. /\ Placed(stk, d, g, ux) /\ Ordered(stk, d)
        /\ \A i \in 1 .. Len(stk) : PageOf(stk, d, ux, i) = PageOf(stk, c, text, i)
    <2>1. \A b \in StepBufs(stk) : ux[b] = text[b]
      OBVIOUS
    <2>2. \A i \in OnTop(stk) : Keep(c, text, d, ux, stk[i].mark)
      BY <1>4
    <2>3. Carries(stk, c, g, text, d, ux)
      <3> HIDE DEF c, d, ux, stk, g
      <3>1. QED
        BY <1>1, <1>2, <1>3, <2>1, <2>2 DEF Carries
    <2> HIDE DEF c, d, ux, stk, g
    <2>4. QED
      BY <2>3, Carried
  <1>6. StepsPlaced'
    BY <1>5 DEF StepsPlaced
  <1>7. Past' = Past
    BY <1>5 DEF Past, Pages
  <1>8. QED
    BY <1>6, <1>7

(* Drawing, and the clear of a page that may not be kept: the steps' own   *)
(* buffers are left alone, and the chain above them, when it is the        *)
(* current one, goes on from where it was.                                 *)
GrowStep ==
  /\ UNCHANGED <<undostk, undopend, undoclr>>
  /\ \A b \in StepHeap : text'[b] = text[b]
  /\ undoclr = << >> =>
       /\ last # 0 /\ last <= last' /\ undogen' = undogen
       /\ \A y \in 1 .. last : chain'[y] = chain[y]
       /\ \A y \in 1 .. last - 1 : text'[chain[y]] = text[chain[y]]
       /\ \A y \in 1 .. last : \E w \in Seq(Word) : text'[chain[y]] = text[chain[y]] \o w

LEMMA GrowKeep ==
  ASSUME MetaAssumption, TypeOK, MemoryInv, TypeOK', MemoryInv', GrowStep,
         NEW m \in Mark, Within(m, TopChain, text)
  PROVE  Keep(TopChain, text, TopChain', text', m)
  <1> DEFINE c == TopChain
             d == TopChain'
             ux == text'
  <1>1. m.used \in Nat /\ c \in Seq(Buf) /\ text \in [Buf -> Seq(Word)]
    BY TopOK DEF Mark, TopFacts
  <1>2. CASE undoclr # << >>
    <2>1. d = c
      BY <1>2 DEF GrowStep, TopChain
    <2>2. \A b \in Bufs(c) : ux[b] = text[b]
      BY <1>2, TopOK DEF GrowStep, TopFacts
    <2> HIDE DEF c, d, ux
    <2>3. Keep(c, text, c, ux, m)
      BY <1>1, <2>2, KeepSame DEF c
    <2>4. QED
      BY <2>1, <2>3 DEF c, d, ux
  <1>3. CASE undoclr = << >>
    <2> DEFINE n == last
               k == last'
    <2>1. /\ Len(c) = n /\ \A y \in 1 .. n : c[y] = chain[y]
      BY <1>3, TopOK DEF TopFacts
    <2>2. undoclr' = << >>
      BY <1>3 DEF GrowStep
    <2>3. /\ d \in Seq(Buf) /\ Len(d) = k /\ \A y \in 1 .. k : d[y] = chain'[y]
      BY <2>2, TopNextOK DEF TopFacts
    <2>4. n \in Nat /\ k \in Nat /\ n <= k
      BY <1>3, LenProperties DEF GrowStep, TypeOK, ChainsOK
    <2>5. /\ \A y \in 1 .. n : chain'[y] = chain[y]
          /\ \A y \in 1 .. n - 1 : ux[chain[y]] = text[chain[y]]
          /\ \A y \in 1 .. n : \E w \in Seq(Word) : ux[chain[y]] = text[chain[y]] \o w
      BY <1>3 DEF GrowStep
    <2> HIDE DEF c, d, ux, n, k
    <2>6. Len(c) <= Len(d) /\ \A y \in 1 .. Len(c) : d[y] = c[y]
      <3>1. \A y \in 1 .. n : y \in 1 .. k
        BY <2>4
      <3>2. QED
        BY <2>1, <2>3, <2>4, <2>5, <3>1
    <2>7. \A y \in 1 .. Len(c) - 1 : ux[c[y]] = text[c[y]]
      <3>1. \A y \in 1 .. n - 1 : y \in 1 .. n
        BY <2>4
      <3>2. QED
        BY <2>1, <2>5, <3>1
    <2>8. \A y \in 1 .. Len(c) : \E w \in Seq(Word) : ux[c[y]] = text[c[y]] \o w
      <3>1. SUFFICES ASSUME NEW y \in 1 .. Len(c)
                     PROVE  \E w \in Seq(Word) : ux[c[y]] = text[c[y]] \o w
        OBVIOUS
      <3>2. y \in 1 .. n /\ c[y] = chain[y]
        BY <2>1
      <3>3. PICK w \in Seq(Word) : ux[chain[y]] = text[chain[y]] \o w
        BY <2>5, <3>2
      <3>4. QED
        BY <3>2, <3>3
    <2>9. Keep(c, text, d, ux, m)
      BY <1>1, <2>3, <2>6, <2>7, <2>8, KeepGrow DEF c
    <2>10. QED
      BY <2>9 DEF c, d, ux
  <1>4. QED
    BY <1>2, <1>3

LEMMA GrowKeeps ==
  ASSUME MetaAssumption, TypeOK, MemoryInv, TypeOK', MemoryInv', PendInv, StepsPlaced, GrowStep
  PROVE  StepsPlaced' /\ PendInv' /\ Past' = Past /\ BeforePage' = BeforePage
  <1>1. \A m \in Mark : Within(m, TopChain, text) => Keep(TopChain, text, TopChain', text', m)
    BY GrowKeep
  <1>2. StepsPlaced' /\ Past' = Past
    <2>1. undostk' = undostk /\ TopGen' = TopGen
      BY DEF GrowStep, TopGen
    <2>2. \A b \in StepBufs(undostk) : text'[b] = text[b]
      BY DEF GrowStep, StepHeap
    <2>3. QED
      BY <1>1, <2>1, <2>2, StepsCarried
  <1>3. CASE undopend = << >>
    BY <1>2, <1>3 DEF GrowStep, PendInv, BeforePage
  <1>4. CASE undopend # << >> /\ undoclr # << >>
    <2>1. undopend' # << >> /\ undoclr' # << >> /\ undoclr' = undoclr
      BY <1>4 DEF GrowStep
    <2>2. undoclr[1].chain \in Seq(Buf) /\ Bufs(undoclr[1].chain) \subseteq StepHeap
      BY <1>4, TopOK DEF TopChain, TopFacts
    <2>3. \A y \in 1 .. Len(undoclr[1].chain) :
            text'[undoclr[1].chain[y]] = text[undoclr[1].chain[y]]
      BY <2>2 DEF GrowStep, Bufs
    <2>4. Replay(undoclr[1].chain)' = Replay(undoclr[1].chain)
      BY <2>1, <2>3 DEF Replay
    <2>5. QED
      BY <1>2, <1>4, <2>1, <2>4 DEF PendInv, BeforePage
  <1>5. CASE undopend # << >> /\ undoclr = << >>
    <2> DEFINE m == undopend[1]
               c == TopChain
               d == TopChain'
               ux == text'
               stk == undostk
    <2>1. /\ undopend' = undopend /\ undoclr' = << >> /\ undostk' = undostk
          /\ undogen' = undogen /\ last # 0 /\ last <= last'
      BY <1>5 DEF GrowStep
    <2>2. /\ m.gen = undogen /\ Within(m, c, text)
          /\ \A i \in OnTop(stk) : InOrder(stk[i].mark, m, c)
      BY <1>5, <2>1 DEF PendInv
    <2>3. m \in Mark
      BY <1>5, FirstElement DEF TypeOK, StacksOK
    <2>4. Keep(c, text, d, ux, m)
      BY <1>1, <2>2, <2>3
    <2>5. /\ c \in Seq(Buf) /\ Distinct(c) /\ d \in Seq(Buf) /\ Distinct(d) /\ stk \in Seq(Step)
      <3>1. d \in Seq(Buf) /\ Distinct(d)
        BY TopNextOK DEF TopFacts
      <3>2. QED
        BY <3>1, TopOK DEF TopFacts
    <2>6. ASSUME NEW i \in OnTop(stk)
          PROVE  Keep(c, text, d, ux, stk[i].mark)
      <3>1. i \in 1 .. Len(stk) /\ ~stk[i].frame /\ ~(Above(stk, i) <= Len(stk))
        BY <2>5, LenProperties DEF OnTop
      <3>2. Within(stk[i].mark, c, text)
        BY <3>1 DEF Placed, Host, StepsPlaced
      <3>3. stk[i].mark \in Mark
        BY <2>5, <3>1, StepTyped
      <3>4. QED
        BY <1>1, <3>2, <3>3
    <2>7. /\ Within(m, d, ux) /\ CutPage(d, ux, m) = CutPage(c, text, m)
          /\ \A i \in OnTop(stk) : InOrder(stk[i].mark, m, d)
      <3> HIDE DEF m, c, d, ux, stk
      <3>1. QED
        BY <2>2, <2>4, <2>5, <2>6, KeptPage, KeptOrder
    <2>8. PendInv'
      <3>1. last' # 0
        BY <2>1, LenProperties DEF TypeOK, ChainsOK
      <3>2. QED
        BY <2>1, <2>2, <2>7, <3>1 DEF PendInv
    <2>9. BeforePage = CutPage(c, text, m) /\ BeforePage' = CutPage(d, ux, m)
      BY <1>5, <2>1, BeforeIs, BeforeNextIs DEF BeforeFacts
    <2>10. QED
      BY <1>2, <2>7, <2>8, <2>9
  <1>6. QED
    BY <1>3, <1>4, <1>5

(* One buffer written, none of a step; if it is in the chain, its end.     *)
Touches(b, t) ==
  /\ b \in Buf /\ b \notin StepHeap
  /\ text' = [text EXCEPT ![b] = t] /\ UNCHANGED <<undostk, undopend, undoclr>>
  /\ undoclr = << >> => /\ last # 0 /\ last <= last' /\ undogen' = undogen
                        /\ \A y \in 1 .. last : chain'[y] = chain[y]
                        /\ \A y \in 1 .. last : chain[y] = b
                             => y = last /\ \E w \in Seq(Word) : t = text[b] \o w

LEMMA Touched ==
  ASSUME TypeOK, MemoryInv, NEW b, NEW t, Touches(b, t)
  PROVE  GrowStep
  <1>0. /\ b \in Buf /\ b \notin StepHeap
        /\ text' = [text EXCEPT ![b] = t] /\ UNCHANGED <<undostk, undopend, undoclr>>
        /\ undoclr = << >> => /\ last # 0 /\ last <= last' /\ undogen' = undogen
                              /\ \A y \in 1 .. last : chain'[y] = chain[y]
                              /\ \A y \in 1 .. last : chain[y] = b
                                   => y = last /\ \E w \in Seq(Word) : t = text[b] \o w
    BY DEF Touches
  <1> USE <1>0
  <1>1. /\ text \in [Buf -> Seq(Word)] /\ chain \in Seq(Buf) /\ last \in 0 .. Len(chain)
        /\ Len(chain) \in Nat /\ StepHeap \subseteq Buf
    BY LenProperties DEF TypeOK, BuffersOK, ChainsOK, MemoryInv, HeapAccounted
  <1>2. \A a \in Buf : text'[a] = IF a = b THEN t ELSE text[a]
    BY <1>1
  <1>3. \A a \in StepHeap : text'[a] = text[a]
    BY <1>1, <1>2
  <1>4. ASSUME undoclr = << >>
        PROVE  /\ \A y \in 1 .. last - 1 : text'[chain[y]] = text[chain[y]]
               /\ \A y \in 1 .. last : \E w \in Seq(Word) : text'[chain[y]] = text[chain[y]] \o w
    <2>1. \A y \in 1 .. last : chain[y] \in Buf
      BY <1>1, ElementOfSeq
    <2>2. \A y \in 1 .. last - 1 : y \in 1 .. last /\ y # last
      BY <1>1
    <2>3. \A y \in 1 .. last - 1 : text'[chain[y]] = text[chain[y]]
      BY <1>2, <1>4, <2>1, <2>2
    <2>4. ASSUME NEW y \in 1 .. last
          PROVE  \E w \in Seq(Word) : text'[chain[y]] = text[chain[y]] \o w
      <3>1. CASE chain[y] = b
        BY <1>2, <1>4, <2>1, <3>1
      <3>2. CASE chain[y] # b
        <4>1. text'[chain[y]] = text[chain[y]] /\ text[chain[y]] \in Seq(Word)
          BY <1>1, <1>2, <2>1, <3>2
        <4>2. << >> \in Seq(Word) /\ text[chain[y]] \o << >> = text[chain[y]]
          BY <4>1, EmptySeq, ConcatEmptySeq
        <4>3. QED
          BY <4>1, <4>2
      <3>3. QED
        BY <3>1, <3>2
    <2>5. QED
      BY <2>3, <2>4
  <1>5. QED
    BY <1>3, <1>4 DEF GrowStep

(* The buffers of the chain are buffers, in it once, and of no step.       *)
LEMMA ChainFacts ==
  ASSUME TypeOK, MemoryInv
  PROVE  /\ chain \in Seq(Buf) /\ Len(chain) \in Nat /\ last \in 0 .. Len(chain)
         /\ \A y \in 1 .. Len(chain) : chain[y] \in Buf /\ chain[y] \notin StepHeap
                                       /\ chain[y] \in heap
         /\ \A y, z \in 1 .. Len(chain) : chain[y] = chain[z] => y = z
         /\ StepHeap \subseteq heap /\ heap \subseteq Buf
  <1>1. chain \in Seq(Buf) /\ Len(chain) \in Nat /\ last \in 0 .. Len(chain) /\ heap \subseteq Buf
    BY LenProperties DEF TypeOK, ChainsOK
  <1>2. \A y \in 1 .. Len(chain) : chain[y] \in Bufs(chain)
    BY DEF Bufs
  <1>3. /\ Distinct(chain) /\ StepHeap \cap (Bufs(chain) \cup Bufs(fore)) = {}
        /\ heap = Bufs(chain) \cup Bufs(fore) \cup StepHeap
    BY DEF MemoryInv, BuffersOwnedOnce, HeapAccounted
  <1>4. QED
    BY <1>1, <1>2, <1>3 DEF Distinct

LEMMA DrawGrows ==
  ASSUME MetaAssumption, TypeOK, MemoryInv, HeadInv, NEW p \in Prim, Draw(p), ~DrawNoMemory(p)
  PROVE  /\ GrowStep /\ HeadInv'
         /\ UNCHANGED <<running, undolim, mbuferror, undostk, undopend, undoclr>>
  <1>1. /\ last \in 1 .. Len(chain) /\ Len(chain) \in Nat
        /\ UNCHANGED <<running, undolim, mbuferror, undostk, undogen, undopend, undoclr>>
    BY ChainFacts DEF Draw, DrawInPlace, DrawInSpare, DrawInNew, undovars
  <1>2. PrimText(p) \in Seq(Word)
    BY PrimTextOK
  <1> DEFINE w == PrimText(p)
  <1>3. CASE DrawInPlace(p)
    <2>1. /\ text' = [text EXCEPT ![chain[last]] = text[chain[last]] \o w]
          /\ chain' = chain /\ last' = last
      BY <1>3 DEF DrawInPlace, chainvars
    <2>2. chain[last] \in Buf /\ chain[last] \notin StepHeap
      BY <1>1, ChainFacts
    <2>3. \A y \in 1 .. last : y \in 1 .. Len(chain)
      BY <1>1
    <2>4. \A y \in 1 .. last : chain[y] = chain[last] => y = last
      BY <1>1, <2>3, ChainFacts
    <2> HIDE DEF w
    <2>5. GrowStep
      <3>1. last <= last'
        BY <1>1, <2>1
      <3>0. \E v \in Seq(Word) : text[chain[last]] \o w = text[chain[last]] \o v
        BY <1>2 DEF w
      <3>2. /\ last # 0 /\ \A y \in 1 .. last : chain'[y] = chain[y]
            /\ \A y \in 1 .. last : chain[y] = chain[last] =>
                 y = last /\ \E v \in Seq(Word) : text[chain[last]] \o w = text[chain[last]] \o v
        <4>1. last # 0
          BY <1>1
        <4>2. \A y \in 1 .. last : chain'[y] = chain[y]
          BY <2>1
        <4>3. \A y \in 1 .. last : chain[y] = chain[last] =>
                 y = last /\ \E v \in Seq(Word) : text[chain[last]] \o w = text[chain[last]] \o v
          BY <2>4, <3>0, Zenon
        <4>4. QED
          BY <4>1, <4>2, <4>3
      <3>3. Touches(chain[last], text[chain[last]] \o w)
        BY <1>1, <2>1, <2>2, <3>1, <3>2 DEF Touches
      <3>4. QED
        BY <3>3, Touched
    <2>6. QED
      BY <1>1, <2>1, <2>5 DEF HeadInv
  <1>4. CASE DrawInSpare(p)
    <2> DEFINE b == chain[last + 1]
    <2>1. text' = [text EXCEPT ![b] = w] /\ chain' = chain /\ last' = last + 1 /\ last < Len(chain)
      BY <1>4 DEF DrawInSpare
    <2>2. b \in Buf /\ b \notin StepHeap /\ \A y \in 1 .. last : chain[y] # b
      <3>1. last + 1 \in 1 .. Len(chain)
        BY <1>1, <2>1
      <3>2. \A y \in 1 .. last : y \in 1 .. Len(chain) /\ y # last + 1
        BY <1>1
      <3>3. QED
        BY <3>1, <3>2, ChainFacts
    <2>3. last <= last' /\ last' # 0
      BY <1>1, <2>1
    <2> HIDE DEF w, b
    <2>4. GrowStep
      <3>1. Touches(b, w)
        BY <1>1, <2>1, <2>2, <2>3 DEF Touches
      <3>2. QED
        BY <3>1, Touched
    <2>5. QED
      BY <1>1, <2>1, <2>3, <2>4 DEF HeadInv
  <1>5. CASE DrawInNew(p)
    <2>1. PICK b \in Buf \ heap : chain' = Append(chain, b) /\ text' = [text EXCEPT ![b] = w]
      BY <1>5 DEF DrawInNew
    <2>2. last' = last + 1
      BY <1>5 DEF DrawInNew
    <2>3. b \notin StepHeap /\ \A y \in 1 .. last : y \in 1 .. Len(chain) /\ chain[y] # b
      BY <1>1, ChainFacts
    <2>4. Len(chain') = Len(chain) + 1 /\ \A y \in 1 .. Len(chain) : chain'[y] = chain[y]
      BY <2>1, ChainFacts, AppendProperties
    <2>5. last <= last' /\ last' # 0 /\ chain' # << >>
      BY <1>1, <2>2, <2>4
    <2> HIDE DEF w
    <2>6. GrowStep
      <3>1. Touches(b, w)
        BY <1>1, <2>1, <2>3, <2>4, <2>5 DEF Touches
      <3>2. QED
        BY <3>1, Touched
    <2>7. QED
      BY <1>1, <2>5, <2>6 DEF HeadInv
  <1>6. QED
    BY <1>3, <1>4, <1>5 DEF Draw

(* Clearing an empty page, or a second time.                               *)
LEMMA AsideNothingGrows ==
  ASSUME MetaAssumption, TypeOK, MemoryInv, chain # << >>, AsideNothing
  PROVE  GrowStep /\ HeadInv'
  <1>1. /\ chain' = chain /\ last' = 1 /\ UNCHANGED <<undostk, undopend, undoclr>>
        /\ text' = [text EXCEPT ![chain[1]] = Backdrop]
        /\ undoclr = << >> => last = 1 /\ text[chain[1]] = << >> /\ undogen' = undogen
    BY DEF AsideNothing, Restart
  <1>2. 1 \in 1 .. Len(chain)
    BY ChainFacts, FirstElement
  <1>3. chain[1] \in Buf /\ chain[1] \notin StepHeap
    BY <1>2, ChainFacts
  <1>4. Backdrop \in Seq(Word) /\ Backdrop = << >> \o Backdrop
    BY ConcatEmptySeq DEF MetaAssumption
  <1>5. GrowStep
    <2>1. Touches(chain[1], Backdrop)
      <3>1. undoclr = << >> =>
              /\ \A y \in 1 .. last : y = last /\ chain'[y] = chain[y]
              /\ \E v \in Seq(Word) : Backdrop = text[chain[1]] \o v
              /\ last <= last' /\ last # 0 /\ undogen' = undogen
        <4>1. \E v \in Seq(Word) : Backdrop = << >> \o v
          BY <1>4
        <4>2. ASSUME undoclr = << >>
              PROVE  /\ last = 1 /\ text[chain[1]] = << >> /\ last <= last' /\ undogen' = undogen
                     /\ \A y \in 1 .. last : y = last
          BY <1>1, <4>2
        <4>3. QED
          <5>1. ASSUME undoclr = << >> PROVE \E v \in Seq(Word) : Backdrop = text[chain[1]] \o v
            BY <4>1, <4>2, <5>1
          <5>2. chain' = chain
            BY <1>1
          <5>3. QED
            BY <4>2, <5>1, <5>2
      <3>2. /\ UNCHANGED <<undostk, undopend, undoclr>>
            /\ text' = [text EXCEPT ![chain[1]] = Backdrop]
        BY <1>1
      <3>3. undoclr = << >> =>
              /\ last # 0 /\ last <= last' /\ undogen' = undogen
              /\ \A y \in 1 .. last : chain'[y] = chain[y]
              /\ \A y \in 1 .. last : chain[y] = chain[1]
                   => y = last /\ \E v \in Seq(Word) : Backdrop = text[chain[1]] \o v
        BY <3>1, Zenon
      <3>4. QED
        BY <1>3, <3>2, <3>3, Zenon DEF Touches
    <2>2. QED
      BY <2>1, Touched
  <1>6. QED
    BY <1>1, <1>5 DEF HeadInv

(* The chain cut at its end is the chain.                                  *)
LEMMA EndPage ==
  ASSUME MetaAssumption, TypeOK, MemoryInv, HeadInv, undoclr = << >>
  PROVE  /\ CutPage(TopChain, text, EndMark) = Page
         /\ last # 0 => Within(EndMark, TopChain, text)
         /\ EndMark \in Mark /\ EndMark.gen = undogen
  <1> DEFINE c == TopChain
             m == EndMark
             n == last
  <1>1. /\ c \in Seq(Buf) /\ Distinct(c) /\ Len(c) = n /\ text \in [Buf -> Seq(Word)]
        /\ \A y \in 1 .. n : c[y] = chain[y]
    BY TopOK DEF TopFacts
  <1>2. n \in Nat /\ EndMark \in Mark /\ EndMark.gen = undogen
    BY EndMarkOK, LenProperties DEF TypeOK, ChainsOK
  <1>3. Page = FullPage(c, text)
    BY PageFull
  <1>4. CASE n = 0
    <2>1. m.buf = NoBuf
      BY <1>4 DEF EndMark
    <2> HIDE DEF c, m
    <2>2. c = << >>
      BY <1>1, <1>4, EmptySeq
    <2>3. CutPage(c, text, m) = << >>
      BY <2>1, <2>2 DEF CutPage
    <2>4. FullPage(c, text) = << >>
      <3>1. Len(c) = 0 /\ 1 .. 0 = {}
        BY <1>1, <1>4
      <3>2. QED
        BY <3>1 DEF FullPage
    <2>5. QED
      BY <1>2, <1>3, <1>4, <2>3, <2>4 DEF c, m
  <1>5. CASE n # 0
    <2>1. m.buf = chain[n] /\ m.used = Len(text[m.buf])
      BY <1>5 DEF EndMark
    <2> HIDE DEF c, m
    <2>2. n \in 1 .. Len(c) /\ c[n] = m.buf /\ n \in 1 .. n
      BY <1>1, <1>2, <1>5, <2>1
    <2>3. m.buf \in Buf /\ text[m.buf] \in Seq(Word)
      BY <1>1, <2>2, ElementOfSeq
    <2>4. SubSeq(text[m.buf], 1, m.used) = text[m.buf] /\ m.used <= Len(text[m.buf])
      BY <2>1, <2>3, SubSeqFull, LenProperties
    <2>5. Within(m, c, text)
      BY <2>2, <2>4 DEF Within
    <2>6. CutPage(c, text, m) = [y \in 1 .. n |-> IF y = n THEN SubSeq(text[m.buf], 1, m.used)
                                                  ELSE text[c[y]]]
      BY <1>1, <2>2, CutAt
    <2>7. CutPage(c, text, m) = FullPage(c, text)
      BY <1>1, <2>2, <2>4, <2>6 DEF FullPage
    <2>8. QED
      BY <1>2, <1>3, <2>5, <2>7 DEF c, m
  <1>6. QED
    BY <1>4, <1>5

(* A command starts: the position noted is the page as it is.              *)
LEMMA BeginNotes ==
  ASSUME MetaAssumption, TypeOK, MemoryInv, TypeOK', MemoryInv', UndoInv, BeginCommand
  PROVE  /\ UndoInv' /\ Past' = Past /\ Page' = Page /\ running'
         /\ undopend' = << >> => BeforePage' = NoPage
         /\ undopend' # << >> => BeforePage' = Page /\ undolim >= 1
  <1>1. /\ ~running /\ running' = TRUE /\ undopend = << >> /\ undoclr = << >> /\ undoclr' = << >>
        /\ undopend' = IF undolim < 1 \/ mbuferror THEN << >> ELSE <<EndMark>>
        /\ UNCHANGED <<chain, last, text, mbuferror, undolim, undostk, undogen>>
    BY DEF BeginCommand, UndoInv, IdleInv, chainvars
  <1>2. TopChain' = TopChain /\ TopGen' = TopGen /\ EndMark' = EndMark
    BY <1>1 DEF TopChain, TopGen, EndMark
  <1>3. Past' = Past /\ StepsPlaced' /\ Page' = Page
    BY <1>1, <1>2 DEF Past, UndoInv, StepsPlaced, Page, Replay
  <1>4. /\ CutPage(TopChain, text, EndMark) = Page
        /\ last # 0 => Within(EndMark, TopChain, text)
        /\ EndMark.gen = undogen
    BY <1>1, EndPage DEF UndoInv
  <1>5. ASSUME last # 0, NEW i \in OnTop(undostk)
        PROVE  InOrder(undostk[i].mark, EndMark, TopChain)
    <2> DEFINE m == undostk[i].mark
               e == EndMark
               c == TopChain
               n == last
    <2>1. /\ c \in Seq(Buf) /\ Distinct(c) /\ Len(c) = n
          /\ \A y \in 1 .. n : c[y] = chain[y]
      BY <1>1, TopOK DEF TopFacts
    <2>2. i \in 1 .. Len(undostk) /\ ~undostk[i].frame /\ ~(Above(undostk, i) <= Len(undostk))
      BY LenProperties DEF OnTop, TypeOK, StacksOK
    <2>3. Within(m, c, text)
      BY <2>2 DEF UndoInv, StepsPlaced, Placed, Host
    <2>4. e.buf = chain[n] /\ e.used = Len(text[e.buf]) /\ n \in Nat /\ n # 0
      BY <1>5, LenProperties DEF EndMark, TypeOK, ChainsOK
    <2> HIDE DEF m, e, c, n
    <2>5. n \in 1 .. Len(c) /\ c[n] = e.buf
      BY <2>1, <2>4
    <2>6. \A y \in 1 .. Len(c) : c[y] = e.buf => y = n
      BY <2>5, <2>1 DEF Distinct
    <2>7. m.used <= Len(text[m.buf])
      BY <2>3 DEF Within
    <2>8. \A x, y \in 1 .. Len(c) : c[x] = m.buf /\ c[y] = e.buf
            => x < y \/ (x = y /\ m.used <= e.used)
      <3>1. SUFFICES ASSUME NEW x \in 1 .. Len(c), NEW y \in 1 .. Len(c), c[x] = m.buf,
                            c[y] = e.buf
                     PROVE  x < y \/ (x = y /\ m.used <= e.used)
        OBVIOUS
      <3>2. y = n /\ x \in 1 .. n
        BY <2>1, <2>6, <3>1
      <3>3. CASE x = n
        BY <2>4, <2>5, <2>7, <3>1, <3>2, <3>3
      <3>4. CASE x # n
        BY <2>4, <3>2, <3>4
      <3>5. QED
        BY <3>3, <3>4
    <2>9. QED
      BY <2>8 DEF InOrder, m, e, c
  <1>6. PendInv'
    <2>1. CASE undopend' = << >>
      BY <2>1 DEF PendInv
    <2>2. CASE undopend' # << >>
      <3>1. undopend' = <<EndMark>>
        BY <1>1, <2>2
      <3>2. undopend'[1] = EndMark
        BY <3>1
      <3>3. QED
        BY <1>1, <1>2, <1>4, <1>5, <3>2 DEF PendInv
    <2>3. QED
      BY <2>1, <2>2
  <1>7. NotedInv' /\ HeadInv' /\ IdleInv'
    <2>1. undopend' # << >> => undolim >= 1 /\ ~mbuferror
      BY <1>1 DEF TypeOK, StacksOK, MetaAssumption
    <2>2. QED
      BY <1>1, <2>1 DEF UndoInv, NotedInv, HeadInv, IdleInv
  <1>8. undopend' # << >> => BeforePage' = Page /\ undolim >= 1
    <2>1. SUFFICES ASSUME undopend' # << >> PROVE BeforePage' = Page /\ undolim >= 1
      OBVIOUS
    <2>2. undopend' = <<EndMark>>
      BY <1>1, <2>1
    <2>3. undopend'[1] = EndMark
      BY <2>2
    <2>4. BeforePage' = CutPage(TopChain, text, EndMark)
      BY <1>1, <1>2, <2>1, <2>3, BeforeNextIs DEF BeforeFacts
    <2>5. QED
      BY <1>4, <1>7, <1>1, <2>1, <2>4 DEF NotedInv
  <1>9. undopend' = << >> => BeforePage' = NoPage
    BY DEF BeforePage
  <1>10. QED
    BY <1>1, <1>3, <1>6, <1>7, <1>8, <1>9 DEF UndoInv

(* A clear sets the page aside: it is the page from before the command if  *)
(* nothing was added since.                                                *)
LEMMA AsideKeeps ==
  ASSUME MetaAssumption, TypeOK, MemoryInv, TypeOK', MemoryInv', UndoInv,
         undopend # << >>, chain # << >>, AsideFrame
  PROVE  /\ StepsPlaced' /\ PendInv' /\ HeadInv' /\ Past' = Past /\ BeforePage' = Page
         /\ undoclr' # << >> /\ undoclr'[1].chain # << >>
         /\ UNCHANGED <<undostk, undopend>>
  <1>1. /\ undoclr = << >> /\ undoclr' = <<FrameStep>> /\ last' = 1
        /\ UNCHANGED <<undostk, undopend>>
    BY DEF AsideFrame
  <1>2. PICK c \in IF last < Len(chain) THEN {SubSeq(chain, last + 1, Len(chain))}
                   ELSE {<<b>> : b \in Buf \ heap} :
          chain' = c /\ text' = Restart(c, Backdrop)
    BY DEF AsideFrame
  <1>3. /\ chain \in Seq(Buf) /\ Len(chain) \in Nat /\ last \in 0 .. Len(chain) /\ last # 0
    BY ChainFacts DEF UndoInv, HeadInv
  <1>4. undoclr'[1] = FrameStep /\ undoclr' # << >>
    BY <1>1
  <1>5. TopChain' = TopChain /\ TopGen' = TopGen
    BY <1>1, <1>4 DEF TopChain, TopGen, FrameStep
  <1>6. /\ TopChain \in Seq(Buf) /\ Len(TopChain) = last /\ text \in [Buf -> Seq(Word)]
        /\ \A y \in 1 .. last : TopChain[y] = chain[y]
    BY <1>1, TopOK DEF TopFacts
  <1>7. c # << >> /\ c[1] \in Buf /\ c[1] \notin StepHeap /\ \A y \in 1 .. last : chain[y] # c[1]
    <2>1. CASE last < Len(chain)
      <3>1. c = SubSeq(chain, last + 1, Len(chain))
        BY <1>2, <2>1
      <3>2. last + 1 \in Nat \ {0} /\ Len(chain) \in 0 .. Len(chain)
        BY <1>3
      <3>3. /\ c \in Seq(Buf)
            /\ Len(c) = IF last + 1 <= Len(chain) THEN Len(chain) - (last + 1) + 1 ELSE 0
            /\ \A i \in 1 .. Len(chain) - (last + 1) + 1 : c[i] = chain[last + 1 + i - 1]
        BY <1>3, <3>1, <3>2, Piece
      <3>4. Len(c) >= 1 /\ c[1] = chain[last + 1] /\ last + 1 \in 1 .. Len(chain)
        BY <1>3, <2>1, <3>3
      <3>5. c # << >>
        BY <3>3, <3>4
      <3>6. \A y \in 1 .. last : y \in 1 .. Len(chain) /\ y # last + 1
        BY <1>3
      <3>7. QED
        BY <3>4, <3>5, <3>6, ChainFacts
    <2>2. CASE ~(last < Len(chain))
      <3>1. PICK b \in Buf \ heap : c = <<b>>
        BY <1>2, <2>2
      <3>2. \A y \in 1 .. last : y \in 1 .. Len(chain)
        BY <1>3
      <3>3. QED
        BY <3>1, <3>2, ChainFacts
    <2>3. QED
      BY <2>1, <2>2
  <1>8. text' = [text EXCEPT ![c[1]] = Backdrop]
    BY <1>2, <1>7 DEF Restart
  <1>9. /\ \A b \in StepHeap : text'[b] = text[b]
        /\ \A y \in 1 .. last : text'[chain[y]] = text[chain[y]]
    <2>1. StepHeap \subseteq Buf /\ \A y \in 1 .. last : chain[y] \in Buf
      <3>1. \A y \in 1 .. last : y \in 1 .. Len(chain)
        BY <1>3
      <3>2. QED
        BY <3>1, ChainFacts
    <2>2. QED
      BY <1>6, <1>7, <1>8, <2>1
  <1>10. \A b \in Bufs(TopChain) : text'[b] = text[b]
    <2>1. ASSUME NEW b \in Bufs(TopChain) PROVE text'[b] = text[b]
      <3>1. PICK y \in 1 .. Len(TopChain) : b = TopChain[y]
        BY DEF Bufs
      <3>2. QED
        BY <1>6, <1>9, <3>1
    <2>2. QED
      BY <2>1
  <1>11. \A m \in Mark : Within(m, TopChain, text) => Keep(TopChain, text, TopChain', text', m)
    <2>1. ASSUME NEW m \in Mark, Within(m, TopChain, text)
          PROVE  Keep(TopChain, text, TopChain, text', m)
      BY <1>6, <1>10, <2>1, KeepSame
    <2>2. QED
      BY <1>5, <2>1
  <1>12. StepsPlaced' /\ Past' = Past
    <2>1. \A b \in StepBufs(undostk) : text'[b] = text[b]
      BY <1>9 DEF StepHeap
    <2>2. QED
      BY <1>1, <1>5, <1>11, <2>1, StepsCarried DEF UndoInv
  <1>13. BeforePage' = Page
    <2>1. BeforePage' = FullPage(undoclr'[1].chain, text')
      BY <1>1, <1>4, BeforeNextIs DEF BeforeFacts
    <2>2. undoclr'[1].chain = TopChain
      BY <1>1, <1>4 DEF FrameStep, TopChain
    <2>3. BeforePage' = [y \in 1 .. Len(TopChain) |-> text'[TopChain[y]]]
      BY <2>1, <2>2 DEF FullPage
    <2>4. Page = [y \in 1 .. Len(TopChain) |-> text[TopChain[y]]]
      BY <1>1, PageFull DEF FullPage
    <2>5. QED
      BY <1>6, <1>9, <2>3, <2>4
  <1>14. undoclr'[1].chain # << >>
    <2>1. undoclr'[1].chain = TopChain
      BY <1>1, <1>4 DEF FrameStep, TopChain
    <2>2. QED
      BY <1>3, <1>6, <2>1
  <1>15. PendInv' /\ HeadInv'
    BY <1>1, <1>2, <1>4, <1>7 DEF PendInv, HeadInv
  <1>16. QED
    BY <1>1, <1>4, <1>12, <1>13, <1>14, <1>15

(* The history p with page q: the oldest page given up when it is full.    *)
KeptPages(p, q) == IF Len(p) = undolim THEN Append(Tail(p), q) ELSE Append(p, q)

(* Frames kept are not empty. *)
FramesHold(stk) == \A i \in 1 .. Len(stk) : stk[i].frame => stk[i].chain # << >>

LEMMA PushKeeps ==
  ASSUME MetaAssumption, TypeOK, undolim >= 1, NEW s \in Step, PushStep(s),
         NEW c, NEW g, Fits(undostk, s, c, g, text),
         FramesHold(undostk), s.frame => s.chain # << >>
  PROVE  /\ Placed(undostk', c, g, text) /\ Ordered(undostk', c)
         /\ Pages(undostk', c, text)
              = KeptPages(Pages(undostk, Under(s, c), text), Shown(s, c, text))
         /\ FramesHold(undostk')
  <1> DEFINE stk == undostk
             d == Under(s, c)
             p == Shown(s, c, text)
  <1>1. stk \in Seq(Step) /\ Len(stk) \in Nat /\ undolim \in Nat
        /\ Len(Pages(stk, d, text)) = Len(stk)
    <2>1. stk \in Seq(Step) /\ Len(stk) \in Nat /\ undolim \in Nat
      BY LenProperties DEF TypeOK, StacksOK, MetaAssumption
    <2> HIDE DEF stk, d, p
    <2>2. QED
      BY <2>1, PagesLen
  <1>2. CASE Len(stk) = undolim
    <2> DEFINE t == Tail(stk)
    <2>1. stk # << >> /\ undostk' = Append(t, s)
      BY <1>1, <1>2 DEF PushStep
    <2>2. t \in Seq(Step) /\ \A i \in 1 .. Len(t) : i + 1 \in 1 .. Len(stk) /\ t[i] = stk[i + 1]
      BY <1>1, <2>1, HeadTailProperties
    <2>3. Fits(t, s, c, g, text)
      BY <1>1, <2>1, FitsWithoutOldest
    <2> HIDE DEF t
    <2>4. Placed(undostk', c, g, text) /\ Ordered(undostk', c)
      BY <2>1, <2>2, <2>3, FitsIs
    <2>5. Pages(undostk', c, text) = Append(Pages(t, d, text), p)
      BY <2>1, <2>2, PagesPushed
    <2>6. Pages(t, d, text) = Tail(Pages(stk, d, text))
      <3> HIDE DEF d
      <3>1. QED
        BY <1>1, <2>1, PagesDropped DEF t
    <2>7. FramesHold(undostk')
      <3>1. /\ Len(undostk') = Len(t) + 1 /\ Len(t) \in Nat /\ undostk'[Len(t) + 1] = s
            /\ \A i \in 1 .. Len(t) : undostk'[i] = t[i]
        BY <2>1, <2>2, AppendProperties, LenProperties
      <3>2. \A i \in 1 .. Len(undostk') : i \in 1 .. Len(t) \/ i = Len(t) + 1
        BY <3>1
      <3>3. QED
        BY <2>2, <3>1, <3>2 DEF FramesHold
    <2>8. QED
      BY <1>1, <1>2, <2>4, <2>5, <2>6, <2>7 DEF KeptPages
  <1>3. CASE Len(stk) # undolim
    <2>1. undostk' = Append(stk, s)
      BY <1>3 DEF PushStep
    <2>2. Placed(undostk', c, g, text) /\ Ordered(undostk', c)
      BY <1>1, <2>1, FitsIs
    <2>3. Pages(undostk', c, text) = Append(Pages(stk, d, text), p)
      BY <1>1, <2>1, PagesPushed
    <2>4. FramesHold(undostk')
      <3>1. /\ Len(undostk') = Len(stk) + 1 /\ undostk'[Len(stk) + 1] = s
            /\ \A i \in 1 .. Len(stk) : undostk'[i] = stk[i]
        BY <1>1, <2>1, AppendProperties
      <3>2. \A i \in 1 .. Len(undostk') : i \in 1 .. Len(stk) \/ i = Len(stk) + 1
        BY <1>1, <3>1
      <3>3. QED
        BY <3>1, <3>2 DEF FramesHold
    <2>5. QED
      BY <1>1, <1>3, <2>2, <2>3, <2>4 DEF KeptPages
  <1>4. QED
    BY <1>2, <1>3

(* A command is over: one step, of the page from before it, if it changed  *)
(* the page.                                                               *)
LEMMA EndKeeps ==
  ASSUME MetaAssumption, TypeOK, MemoryInv, TypeOK', MemoryInv', UndoInv, EndCommand
  PROVE  /\ UndoInv' /\ Page' = Page /\ BeforePage' = NoPage /\ ~running'
         /\ \/ Past' = Past /\ (undopend = << >> \/ BeforePage = Page)
            \/ Past' = KeptPages(Past, BeforePage) /\ undopend # << >>
  <1>1. /\ running' = FALSE /\ undopend' = << >> /\ undoclr' = << >>
        /\ UNCHANGED <<chain, last, text, undogen, mbuferror, undolim>>
    BY DEF EndCommand, chainvars
  <1>2. /\ Page' = Page /\ BeforePage' = NoPage /\ HeadInv' /\ IdleInv' /\ PendInv'
        /\ TopChain' = SubSeq(chain, 1, last) /\ TopGen' = undogen
    BY <1>1 DEF Page, Replay, BeforePage, UndoInv, HeadInv, IdleInv, PendInv, TopChain, TopGen
  <1>3. FramesHold(undostk)
    BY DEF UndoInv, NotedInv, FramesHold
  <1>4. CASE undostk' = undostk /\ undoclr = << >>
             /\ (undopend = << >> \/ BeforePage = Page)
    <2>1. TopChain' = TopChain /\ TopGen' = TopGen
      BY <1>2, <1>4 DEF TopChain, TopGen
    <2>2. Past' = Past /\ StepsPlaced'
      BY <1>1, <1>4, <2>1 DEF Past, UndoInv, StepsPlaced
    <2>3. NotedInv'
      BY <1>1, <1>3, <1>4 DEF NotedInv, FramesHold
    <2>4. QED
      BY <1>1, <1>2, <1>4, <2>2, <2>3 DEF UndoInv
  <1>5. ASSUME NEW s \in Step, PushStep(s), undolim >= 1, undopend # << >>,
               Fits(undostk, s, TopChain', TopGen', text), s.frame => s.chain # << >>,
               Under(s, TopChain') = TopChain, Shown(s, TopChain', text) = BeforePage
        PROVE  UndoInv' /\ Past' = KeptPages(Past, BeforePage)
    <2> DEFINE c == TopChain'
               g == TopGen'
    <2>1. /\ Placed(undostk', c, g, text) /\ Ordered(undostk', c)
          /\ Pages(undostk', c, text)
               = KeptPages(Pages(undostk, Under(s, c), text), Shown(s, c, text))
          /\ FramesHold(undostk')
      <3> HIDE DEF c, g
      <3>1. Fits(undostk, s, c, g, text)
        BY <1>5 DEF c, g
      <3>2. QED
        BY <1>3, <1>5, <3>1, PushKeeps
    <2>2. StepsPlaced'
      BY <1>1, <2>1 DEF StepsPlaced
    <2>3. Past' = KeptPages(Past, BeforePage)
      BY <1>1, <1>5, <2>1 DEF Past
    <2>4. NotedInv'
      BY <1>1, <2>1 DEF NotedInv, FramesHold
    <2>5. QED
      BY <1>2, <2>2, <2>3, <2>4 DEF UndoInv
  <1>6. CASE undopend = << >>
    <2>1. undoclr = << >> /\ undostk' = undostk
      BY <1>6 DEF EndCommand, UndoInv, NotedInv
    <2>2. QED
      BY <1>4, <1>6, <2>1
  <1> SUFFICES ASSUME undopend # << >>
               PROVE  /\ UndoInv' /\ Page' = Page /\ BeforePage' = NoPage /\ ~running'
                      /\ \/ Past' = Past /\ (undopend = << >> \/ BeforePage = Page)
                         \/ Past' = KeptPages(Past, BeforePage) /\ undopend # << >>
    BY <1>6
  <1>7. undolim >= 1 /\ undolim \in Nat /\ ~mbuferror /\ ~(undolim < 1)
    BY DEF UndoInv, NotedInv, TypeOK, StacksOK, MetaAssumption
  <1>8. CASE undoclr # << >>
    <2> DEFINE s == undoclr[1]
    <2>1. 1 \in 1 .. Len(undoclr) /\ s \in Step
      BY <1>8, FirstElement DEF TypeOK, StacksOK
    <2>2. s.frame /\ s.chain # << >> /\ PushStep(s)
      BY <1>7, <1>8, <2>1 DEF EndCommand, MemoryInv, StepKinds, UndoInv, NotedInv
    <2>3. Under(s, TopChain') = TopChain /\ UnderGen(s, TopGen') = TopGen
      BY <1>8, <2>2 DEF Under, UnderGen, TopChain, TopGen
    <2>4. Fits(undostk, s, TopChain', TopGen', text)
      BY <2>2, <2>3 DEF Fits, UndoInv, StepsPlaced
    <2>5. Shown(s, TopChain', text) = BeforePage
      BY <1>8, <2>2, BeforeIs DEF Shown, BeforeFacts
    <2> HIDE DEF s
    <2>6. UndoInv' /\ Past' = KeptPages(Past, BeforePage)
      BY <1>5, <1>7, <2>1, <2>2, <2>3, <2>4, <2>5
    <2>7. QED
      BY <1>1, <1>2, <2>6
  <1>9. CASE undoclr = << >> /\ Usable(undopend[1]) /\ EndMark # undopend[1]
    <2> DEFINE m == undopend[1]
               s == DrewStep(m)
    <2>1. m \in Mark
      BY FirstElement DEF TypeOK, StacksOK
    <2>2. s \in Step /\ ~s.frame /\ s.mark = m
      BY <2>1 DEF DrewStep, Step, Mark
    <2>3. PushStep(s)
      BY <1>7, <1>9 DEF EndCommand
    <2>4. TopChain' = TopChain /\ TopGen' = TopGen /\ TopGen = undogen
      BY <1>2, <1>9 DEF TopChain, TopGen
    <2>5. /\ m.gen = undogen /\ Within(m, TopChain, text)
          /\ \A i \in OnTop(undostk) : InOrder(undostk[i].mark, m, TopChain)
      BY <1>9 DEF UndoInv, PendInv
    <2> HIDE DEF s, m
    <2>6. Under(s, TopChain') = TopChain /\ UnderGen(s, TopGen') = TopGen
      BY <2>2, <2>4 DEF Under, UnderGen
    <2>7. Fits(undostk, s, TopChain', TopGen', text)
      BY <2>2, <2>4, <2>5, <2>6 DEF Fits, UndoInv, StepsPlaced
    <2>8. Shown(s, TopChain', text) = BeforePage
      BY <1>9, <2>2, <2>4, BeforeIs DEF Shown, BeforeFacts, m
    <2>9. UndoInv' /\ Past' = KeptPages(Past, BeforePage)
      BY <1>5, <1>7, <2>2, <2>3, <2>6, <2>7, <2>8
    <2>10. QED
      BY <1>1, <1>2, <2>9
  <1>10. CASE undoclr = << >> /\ ~(Usable(undopend[1]) /\ EndMark # undopend[1])
    <2> DEFINE m == undopend[1]
    <2>1. undostk' = undostk
      BY <1>7, <1>10 DEF EndCommand
    <2>2. EndMark = m
      <3>1. SUFFICES ASSUME EndMark # m PROVE Usable(m)
        BY <1>10
      <3>2. last # 0 /\ m.gen = undogen /\ Within(m, TopChain, text)
        BY <1>10, <3>1 DEF UndoInv, PendInv
      <3>3. PICK x \in 1 .. Len(TopChain) : TopChain[x] = m.buf /\ m.used <= Len(text[m.buf])
        BY <3>2 DEF Within
      <3>4. x \in 1 .. last /\ chain[x] = m.buf
        BY <1>10, <3>3, TopOK DEF TopFacts
      <3>5. QED
        BY <3>2, <3>3, <3>4 DEF Usable
    <2>3. BeforePage = CutPage(TopChain, text, m)
      BY <1>10, BeforeIs DEF BeforeFacts
    <2>4. BeforePage = Page
      BY <1>10, <2>2, <2>3, EndPage DEF UndoInv
    <2>5. QED
      BY <1>4, <1>10, <2>1, <2>4
  <1>11. QED
    BY <1>8, <1>9, <1>10

(* The stack is its front and its top.                                     *)
LEMMA TopOnFront ==
  ASSUME MetaAssumption, StacksOK, undostk # << >>
  PROVE  LET stk == SubSeq(undostk, 1, Len(undostk) - 1)
         IN  /\ stk \in Seq(Step) /\ TopStep \in Step /\ undostk = Append(stk, TopStep)
             /\ Len(undostk) \in 1 .. Len(undostk) /\ TopStep = undostk[Len(undostk)]
  <1> DEFINE stk == SubSeq(undostk, 1, Len(undostk) - 1)
             n == Len(undostk)
  <1>1. /\ undostk \in Seq(Step) /\ n \in Nat /\ n >= 1
        /\ stk \in Seq(Step) /\ Len(stk) = n - 1 /\ \A i \in 1 .. Len(stk) : stk[i] = undostk[i]
    BY PopOK, FirstElement DEF StacksOK
  <1> HIDE DEF stk
  <1>2. TopStep \in Step /\ TopStep = undostk[n]
    BY <1>1, ElementOfSeq DEF TopStep
  <1> DEFINE a == Append(stk, TopStep)
  <1> HIDE DEF n
  <1>3. /\ a \in Seq(Step) /\ Len(a) = n /\ a[n] = TopStep
        /\ \A i \in 1 .. n - 1 : a[i] = stk[i]
    <2>1. Len(stk) + 1 = n
      BY <1>1
    <2>2. QED
      BY <1>1, <1>2, <2>1, AppendProperties
  <1> HIDE DEF a
  <1>4. \A i \in 1 .. n : a[i] = undostk[i]
    <2>1. \A i \in 1 .. n : i \in 1 .. n - 1 \/ i = n
      BY <1>1
    <2>2. QED
      BY <1>1, <1>2, <1>3, <2>1
  <1>5. a = undostk
    BY <1>1, <1>3, <1>4, SeqEqual DEF n
  <1>6. QED
    BY <1>1, <1>2, <1>5 DEF a, stk, n

(* An undo: the page is the newest one kept, and no other moves.           *)
LEMMA UndoPops ==
  ASSUME MetaAssumption, TypeOK, MemoryInv, TypeOK', MemoryInv', UndoInv, ~running, Undo
  PROVE  /\ UndoInv' /\ Past = Append(Past', Page') /\ Past # << >> /\ ~running'
         /\ UNCHANGED <<undopend, undoclr, undolim>> /\ undopend = << >>
         /\ BeforePage = NoPage /\ BeforePage' = NoPage
  <1> DEFINE front == SubSeq(undostk, 1, Len(undostk) - 1)
             s == TopStep
             c == TopChain
             g == TopGen
             m == TopStep.mark
  <1>1. /\ undostk # << >> /\ running' = running /\ undopend = << >> /\ undoclr = << >>
        /\ UNCHANGED <<undolim, mbuferror>>
    BY DEF Undo, UndoInv, IdleInv
  <1>2. /\ front \in Seq(Step) /\ s \in Step /\ undostk = Append(front, s)
        /\ Len(undostk) \in 1 .. Len(undostk) /\ s = undostk[Len(undostk)]
    BY <1>1, TopOnFront DEF TypeOK
  <1>3. Fits(front, s, c, g, text)
    <2>1. Placed(Append(front, s), c, g, text) /\ Ordered(Append(front, s), c)
      BY <1>2 DEF UndoInv, StepsPlaced
    <2> HIDE DEF front, s, c, g
    <2>2. QED
      BY <1>2, <2>1, FitsIs
  <1>4. Past = Append(Pages(front, Under(s, c), text), Shown(s, c, text))
    <2>1. Past = Pages(Append(front, s), c, text)
      BY <1>2 DEF Past
    <2> HIDE DEF front, s, c, g
    <2>2. QED
      BY <1>2, <2>1, PagesPushed
  <1>5. Past # << >>
    <2>1. undostk \in Seq(Step) /\ Len(undostk) # 0
      BY <1>1, FirstElement DEF TypeOK, StacksOK
    <2>2. Len(Pages(undostk, TopChain, text)) = Len(undostk)
      BY <2>1, PagesLen
    <2>3. QED
      BY <2>1, <2>2 DEF Past
  <1>6. /\ \A i \in 1 .. Len(front) : front[i] = undostk[i] /\ i \in 1 .. Len(undostk)
        /\ FramesHold(front) /\ (s.frame => s.chain # << >>)
    <2>1. \A i \in 1 .. Len(front) : front[i] = undostk[i] /\ i \in 1 .. Len(undostk)
      <3>1. /\ Len(front) = Len(undostk) - 1 /\ Len(undostk) \in Nat
            /\ \A i \in 1 .. Len(front) : front[i] = undostk[i]
        BY <1>1, PopOK, LenProperties DEF TypeOK, StacksOK
      <3> HIDE DEF front
      <3>2. QED
        BY <3>1
    <2>2. QED
      BY <1>2, <2>1 DEF FramesHold, UndoInv, NotedInv
  <1>7. BeforePage = NoPage /\ (undopend' = << >> => BeforePage' = NoPage)
    BY <1>1 DEF BeforePage
  <1>8. ASSUME undostk' = front, UNCHANGED <<undopend, undoclr>>, HeadInv', StepsPlaced',
               Past' = Pages(front, Under(s, c), text), Page' = Shown(s, c, text)
        PROVE  /\ UndoInv' /\ Past = Append(Past', Page') /\ Past # << >> /\ ~running'
               /\ UNCHANGED <<undopend, undoclr, undolim>> /\ undopend = << >>
               /\ BeforePage = NoPage /\ BeforePage' = NoPage
    <2>1. undopend' = << >> /\ undoclr' = << >>
      BY <1>1, <1>8
    <2>2. IdleInv' /\ PendInv' /\ NotedInv'
      BY <1>6, <1>8, <2>1 DEF IdleInv, PendInv, NotedInv, FramesHold
    <2>3. QED
      BY <1>1, <1>4, <1>5, <1>7, <1>8, <2>1, <2>2 DEF UndoInv
  <1>9. CASE UndoFrame
    <2>1. /\ s.frame /\ s.chain # << >> /\ chain' = s.chain \o chain /\ last' = Len(s.chain)
          /\ text' = text /\ undogen' = s.gen /\ undostk' = front
          /\ UNCHANGED <<undopend, undoclr>>
      BY <1>6, <1>9 DEF UndoFrame
    <2>2. s.chain \in Seq(Buf) /\ chain \in Seq(Buf) /\ Len(s.chain) \in Nat /\ Len(s.chain) >= 1
      BY <1>2, <2>1, FirstElement DEF Step, TypeOK, ChainsOK
    <2>3. TopChain' = s.chain /\ TopGen' = s.gen
      <3>1. TopChain' = SubSeq(chain', 1, last') /\ TopGen' = undogen'
        BY <1>1, <2>1 DEF TopChain, TopGen
      <3> DEFINE h == s.chain
                 e == SubSeq(h \o chain, 1, Len(h))
      <3>2. SubSeq(h \o chain, 1, Len(h)) = h
        <4>1. /\ h \o chain \in Seq(Buf) /\ Len(h \o chain) = Len(h) + Len(chain)
              /\ Len(chain) \in Nat
              /\ \A i \in 1 .. Len(h) + Len(chain) :
                   (h \o chain)[i] = IF i <= Len(h) THEN h[i] ELSE chain[i - Len(h)]
          BY <2>2, ConcatProperties, LenProperties
        <4>2. SubSeq(h, 1, Len(h)) = h
          BY <2>2, SubSeqFull
        <4>3. /\ Len(h) \in 0 .. Len(h) /\ Len(h) <= Len(h \o chain)
              /\ \A k \in 1 .. Len(h) : (h \o chain)[k] = h[k]
          BY <2>2, <4>1
        <4> HIDE DEF h
        <4>4. SubSeq(h \o chain, 1, Len(h)) = SubSeq(h, 1, Len(h))
          BY <2>2, <4>1, <4>3, StartKept DEF h
        <4>5. QED
          BY <4>2, <4>4
      <3>3. QED
        BY <2>1, <3>1, <3>2
    <2>4. Under(s, c) = s.chain /\ UnderGen(s, g) = s.gen /\ Shown(s, c, text) = FullPage(s.chain, text)
      BY <2>1 DEF Under, UnderGen, Shown
    <2>5. StepsPlaced' /\ Past' = Pages(front, Under(s, c), text)
      BY <1>3, <2>1, <2>3, <2>4 DEF Fits, StepsPlaced, Past
    <2>6. Page' = FullPage(s.chain, text)
      <3>1. Page' = FullPage(SubSeq(chain', 1, last'), text')
        BY DEF Page, Replay, FullPage
      <3>2. SubSeq(chain', 1, last') = s.chain
        BY <1>1, <2>1, <2>3 DEF TopChain
      <3>3. QED
        BY <2>1, <3>1, <3>2
    <2>7. HeadInv'
      <3>1. Len(chain') = Len(s.chain) + Len(chain) /\ Len(chain) \in Nat
        BY <2>1, <2>2, ConcatProperties, LenProperties
      <3>2. chain' # << >> /\ last' # 0
        BY <2>1, <2>2, <3>1
      <3>3. QED
        BY <3>2 DEF HeadInv
    <2>8. QED
      BY <1>8, <2>1, <2>4, <2>5, <2>6, <2>7
  <1>10. ASSUME ~s.frame
         PROVE  /\ Within(m, c, text) /\ m.gen = g /\ g = undogen
                /\ \A i \in OnTop(front) : InOrder(front[i].mark, m, c)
                /\ Under(s, c) = c /\ UnderGen(s, g) = g /\ Shown(s, c, text) = CutPage(c, text, m)
    BY <1>1, <1>3, <1>10 DEF Fits, Under, UnderGen, Shown, TopGen
  <1>11. CASE UndoDraw
    <2> DEFINE n == CHOOSE i \in 1 .. last : chain[i] = m.buf
               d == TopChain'
               ux == text'
    <2>1. /\ c \in Seq(Buf) /\ Distinct(c) /\ Len(c) = last
          /\ \A y \in 1 .. last : c[y] = chain[y]
          /\ Bufs(c) \cap StepBufs(undostk) = {} /\ text \in [Buf -> Seq(Word)]
      BY <1>1, TopOK DEF TopFacts
    <2>2. ~s.frame /\ Within(m, c, text)
      BY <1>10, <1>11 DEF UndoDraw
    <2>3. PICK x \in 1 .. Len(c) : c[x] = m.buf /\ m.used <= Len(text[m.buf])
      BY <2>2 DEF Within
    <2>4. x \in 1 .. last /\ chain[x] = m.buf
      BY <2>1, <2>3
    <2>5. n \in 1 .. last /\ chain[n] = m.buf
      BY <2>4
    <2>6. m.buf \in Buf /\ m.buf # NoBuf /\ m.used \in Nat
      <3>1. m.buf \in Buf
        BY <2>1, <2>3, ElementOfSeq
      <3>2. m.used \in Nat
        BY <1>2 DEF Step, Mark
      <3>3. QED
        BY <3>1, <3>2 DEF MetaAssumption
    <2>7. /\ last' = n /\ text' = [text EXCEPT ![m.buf] = SubSeq(text[m.buf], 1, m.used)]
          /\ undostk' = front /\ UNCHANGED <<chain, undogen, undopend, undoclr>>
      BY <1>11, <2>6 DEF UndoDraw
    <2>8. d = SubSeq(chain, 1, n) /\ TopGen' = undogen
      BY <1>1, <2>7 DEF TopChain, TopGen
    <2>9. d \in Seq(Buf) /\ Distinct(d)
      BY TopNextOK DEF TopFacts
    <2>10. Len(d) = n /\ \A y \in 1 .. n : d[y] = c[y]
      <3>1. undoclr' = << >> /\ last' = n /\ chain' = chain
        BY <1>1, <2>7
      <3>2. Len(TopChain') = last' /\ \A y \in 1 .. last' : TopChain'[y] = chain'[y]
        BY <3>1, TopNextOK DEF TopFacts
      <3>3. \A y \in 1 .. n : y \in 1 .. last
        BY <2>5, LenProperties, SMTT(30) DEF TypeOK, ChainsOK
      <3> HIDE DEF n, c
      <3>4. QED
        BY <2>1, <3>1, <3>2, <3>3
    <2> HIDE DEF n, d, ux, front, s, c, m
    <2>11. n \in 1 .. Len(c) /\ c[n] = m.buf /\ n \in Nat
      BY <2>1, <2>5, LenProperties, SMTT(30) DEF TypeOK, ChainsOK
    <2>12. ux = [text EXCEPT ![c[n]] = SubSeq(text[c[n]], 1, m.used)]
      BY <2>7, <2>11 DEF ux
    <2>13. Placed(front, c, g, text) /\ Ordered(front, c)
      BY <1>3, <1>10, <2>2 DEF Fits
    <2>14. ASSUME NEW i \in OnTop(front) PROVE Keep(c, text, d, ux, front[i].mark)
      <3>1. i \in 1 .. Len(front) /\ ~front[i].frame /\ ~(Above(front, i) <= Len(front))
        BY <1>2, LenProperties DEF OnTop
      <3>2. Within(front[i].mark, c, text)
        BY <2>13, <3>1 DEF Placed, Host
      <3>3. front[i].mark.used \in Nat
        BY <1>2, <3>1, StepTyped
      <3>4. InOrder(front[i].mark, m, c)
        BY <1>10, <2>2
      <3>5. m.used <= Len(text[c[n]]) /\ m.buf = c[n]
        BY <2>3, <2>11
      <3>6. QED
        BY <2>1, <2>6, <2>10, <2>11, <2>12, <3>2, <3>3, <3>4, <3>5, KeepCut
    <2>15. \A b \in StepBufs(front) : ux[b] = text[b]
      <3>1. StepBufs(front) \subseteq StepBufs(undostk)
        BY <1>6 DEF StepBufs
      <3>2. m.buf \in Bufs(c)
        BY <2>11 DEF Bufs
      <3>3. \A b \in StepBufs(front) : b # m.buf /\ b \in Buf
        <4>1. StepBufs(undostk) \subseteq Buf
          BY ChainFacts DEF StepHeap
        <4>2. QED
          BY <2>1, <3>1, <3>2, <4>1
      <3>4. QED
        BY <2>1, <2>7, <3>3 DEF ux
    <2>16. Carries(front, c, g, text, d, ux)
      BY <1>2, <2>1, <2>9, <2>13, <2>14, <2>15 DEF Carries
    <2>17. /\ Placed(front, d, g, ux) /\ Ordered(front, d)
           /\ \A i \in 1 .. Len(front) : PageOf(front, d, ux, i) = PageOf(front, c, text, i)
      BY <2>16, Carried
    <2>18. StepsPlaced' /\ Past' = Pages(front, c, text)
      <3>1. TopGen' = g
        BY <1>1, <2>8 DEF TopGen
      <3>2. StepsPlaced'
        BY <2>7, <2>17, <3>1 DEF StepsPlaced, d, ux
      <3>3. Past' = Pages(front, d, ux)
        BY <2>7 DEF Past, d, ux
      <3>4. QED
        BY <2>17, <3>2, <3>3 DEF Pages
    <2>19. Page' = Shown(s, c, text)
      <3>1. Page' = FullPage(d, ux)
        BY <1>1, <2>7, <2>8 DEF Page, Replay, FullPage, ux
      <3>2. CutPage(c, text, m) = [y \in 1 .. n |-> IF y = n THEN SubSeq(text[m.buf], 1, m.used)
                                                    ELSE text[c[y]]]
        <4>1. c \in Seq(Buf) /\ Distinct(c) /\ n \in 1 .. Len(c) /\ c[n] = m.buf
          BY <2>1, <2>11
        <4>2. ASSUME NEW e \in Seq(Buf), Distinct(e), NEW vx, NEW k, NEW z \in 1 .. Len(e),
                     e[z] = k.buf
              PROVE  CutPage(e, vx, k) = [y \in 1 .. z |-> IF y = z THEN SubSeq(vx[k.buf], 1, k.used)
                                                          ELSE vx[e[y]]]
          BY <4>2, CutAt
        <4>3. QED
          BY <4>1, <4>2
      <3>3. \A y \in 1 .. n : ux[d[y]] = IF y = n THEN SubSeq(text[m.buf], 1, m.used)
                                         ELSE text[c[y]]
        <4>1. SUFFICES ASSUME NEW y \in 1 .. n
                       PROVE  ux[c[y]] = IF y = n THEN SubSeq(text[m.buf], 1, m.used)
                                         ELSE text[c[y]]
          BY <2>10
        <4>2. y \in 1 .. Len(c) /\ c[y] \in Buf /\ (y # n => c[y] # c[n])
          <5>1. y \in 1 .. Len(c)
            BY <2>11, <2>1, LenProperties DEF TypeOK, ChainsOK
          <5>2. QED
            BY <2>1, <2>11, <5>1, ElementOfSeq DEF Distinct
        <4>3. QED
          BY <2>1, <2>11, <2>12, <4>2
      <3>4. FullPage(d, ux) = CutPage(c, text, m)
        BY <2>10, <3>2, <3>3 DEF FullPage
      <3>5. QED
        BY <1>10, <2>2, <3>1, <3>4
    <2>20. HeadInv'
      <3>1. last # 0 /\ last' # 0
        BY <2>5, <2>7, LenProperties DEF TypeOK, ChainsOK
      <3>2. QED
        BY <2>7, <3>1 DEF UndoInv, HeadInv
    <2>21. Past' = Pages(front, Under(s, c), text)
      BY <1>10, <2>2, <2>18
    <2>22. QED
      BY <1>8, <2>7, <2>18, <2>19, <2>20, <2>21
  <1>12. CASE UndoStale
    <2>1. ~s.frame /\ ~Usable(m)
      BY <1>12 DEF UndoStale
    <2>2. Within(m, c, text) /\ m.gen = undogen
      BY <1>10, <2>1
    <2>3. PICK x \in 1 .. Len(c) : c[x] = m.buf /\ m.used <= Len(text[m.buf])
      BY <2>2 DEF Within
    <2>4. x \in 1 .. last /\ chain[x] = m.buf
      BY <1>1, <2>3, TopOK DEF TopFacts
    <2>5. QED
      BY <2>1, <2>2, <2>3, <2>4 DEF Usable
  <1>13. QED
    BY <1>9, <1>11, <1>12 DEF Undo

-----------------------------------------------------------------------------
(* What every step does to the pages.                                      *)

(* Nothing kept, nothing noted, in the next state. *)
ForgottenFacts ==
  undostk = << >> /\ undopend = << >> /\ undoclr = << >> /\ HeadInv
    => UndoInv /\ Past = << >> /\ BeforePage = NoPage

LEMMA ForgottenIs == ForgottenFacts
  BY ForgetUndo DEF ForgottenFacts

LEMMA ForgottenNextIs == ForgottenFacts'
  BY ForgottenIs, PTL

(* The history of pages is kept; is the clear's; is forgotten.             *)
Stays == Past' = Past /\ BeforePage' = BeforePage
SetsAside == /\ Past' = Past /\ BeforePage' = Page
             /\ ClearAfterDraw \/ BeforePage' = BeforePage
Forgets == Past' = << >> /\ BeforePage' = NoPage /\ undopend' = << >>

LEMMA HeadOf ==
  ASSUME NEW c
  PROVE  c = << >> <=> Head1(c) = 0
  BY DEF Head1

(* The frames that are not to be undone. *)
LEMMA FramesForget ==
  ASSUME (\E t : FrameNew(t)) \/ FrameNext
  PROVE  UndoInv' /\ Forgets
  <1>1. undostk' = << >> /\ undopend' = << >> /\ undoclr' = << >>
    BY DEF FrameNew, FrameNext, FrameReset, FrameSingle, FrameDouble, FrameSwap, ForgetSteps
  <1>2. last' = Head1(chain')
    BY DEF FrameNew, FrameNext, FrameReset, FrameSingle, FrameDouble, FrameSwap
  <1>3. HeadInv'
    BY <1>2, HeadOf DEF HeadInv
  <1>4. QED
    BY <1>1, <1>3, ForgottenNextIs DEF ForgottenFacts, Forgets

LEMMA SetUndoForgets ==
  ASSUME UndoInv, NEW n, SetUndo(n)
  PROVE  UndoInv' /\ Forgets
  <1>1. undostk' = << >> /\ undopend' = << >> /\ undoclr' = << >>
        /\ chain' = chain /\ last' = last
    BY DEF SetUndo, ForgetSteps, chainvars
  <1>2. HeadInv'
    BY <1>1 DEF UndoInv, HeadInv
  <1>3. QED
    BY <1>1, <1>2, ForgottenNextIs DEF ForgottenFacts, Forgets

LEMMA NothingChanges ==
  ASSUME UndoInv, mbuferror' => mbuferror,
         UNCHANGED <<chain, last, text, undostk, undogen, undopend, undoclr, undolim, running>>
  PROVE  UndoInv' /\ Stays /\ Page' = Page
  <1>1. TopChain' = TopChain /\ TopGen' = TopGen /\ EndMark' = EndMark
    BY DEF TopChain, TopGen, EndMark
  <1>2. HeadInv' /\ IdleInv' /\ NotedInv'
    BY DEF UndoInv, HeadInv, IdleInv, NotedInv
  <1>3. StepsPlaced' /\ Past' = Past
    BY <1>1 DEF UndoInv, StepsPlaced, Past
  <1>4. PendInv'
    BY <1>1 DEF UndoInv, PendInv
  <1>5. BeforePage' = BeforePage /\ Page' = Page
    BY BeforeIs, BeforeNextIs, <1>1 DEF BeforeFacts, BeforePage, Page, Replay
  <1>6. QED
    BY <1>2, <1>3, <1>4, <1>5 DEF UndoInv, Stays

(* Drawing leaves the history alone, or forgets it with the chain. *)
LEMMA DrawStays ==
  ASSUME MetaAssumption, TypeOK, MemoryInv, TypeOK', MemoryInv', UndoInv,
         NEW p \in Prim, Draw(p)
  PROVE  /\ UndoInv' /\ running /\ running' /\ undolim' = undolim
         /\ (Stays /\ undopend' = undopend) \/ Forgets
  <1>1. running /\ running' = running
    BY DEF Draw
  <1>2. CASE DrawNoMemory(p)
    <2>1. undostk' = << >> /\ undopend' = << >> /\ undoclr' = << >>
          /\ chain' = << >> /\ last' = 0 /\ undolim' = undolim
      BY <1>2 DEF DrawNoMemory, BufferError, ForgetSteps
    <2>2. HeadInv'
      BY <2>1 DEF HeadInv
    <2>3. QED
      BY <1>1, <2>1, <2>2, ForgottenNextIs DEF ForgottenFacts, Forgets
  <1>3. CASE ~DrawNoMemory(p)
    <2>1. GrowStep /\ HeadInv' /\ UNCHANGED <<undolim, mbuferror, undostk, undopend, undoclr>>
      BY <1>3, DrawGrows DEF UndoInv
    <2>2. StepsPlaced' /\ PendInv' /\ Stays
      BY <2>1, GrowKeeps DEF UndoInv, Stays
    <2>3. IdleInv' /\ NotedInv'
      BY <1>1, <2>1 DEF UndoInv, IdleInv, NotedInv
    <2>4. QED
      BY <1>1, <2>1, <2>2, <2>3 DEF UndoInv
  <1>4. QED
    BY <1>2, <1>3

(* A clear that undo can take back. *)
LEMMA ClearStays ==
  ASSUME MetaAssumption, TypeOK, MemoryInv, TypeOK', MemoryInv', UndoInv,
         Undoable, FrameAside, running, running', ClearAfterDraw \/ Untouched
  PROVE  /\ UndoInv' /\ undolim' = undolim
         /\ \/ Stays /\ undopend' = undopend
            \/ SetsAside /\ undopend' # << >>
            \/ Forgets
  <1>1. undopend # << >> /\ ~mbuferror /\ mbuferror' = FALSE /\ undolim' = undolim
        /\ IdleInv'
    BY DEF Undoable, FrameAside, IdleInv
  <1>2. CASE AsideNull
    <2>1. UNCHANGED <<chain, last, text, undostk, undogen, undopend, undoclr, running>>
      BY <1>2 DEF AsideNull
    <2>2. QED
      BY <1>1, <2>1, NothingChanges
  <1>3. CASE chain # << >> /\ AsideNothing
    <2>1. GrowStep /\ HeadInv' /\ UNCHANGED <<undostk, undopend, undoclr>>
      BY <1>3, AsideNothingGrows DEF AsideNothing
    <2>2. StepsPlaced' /\ PendInv' /\ Stays
      BY <2>1, GrowKeeps DEF UndoInv, Stays
    <2>3. NotedInv'
      BY <1>1, <2>1 DEF UndoInv, NotedInv
    <2>4. QED
      BY <1>1, <2>1, <2>2, <2>3 DEF UndoInv
  <1>4. CASE chain # << >> /\ AsideFrame
    <2>1. /\ StepsPlaced' /\ PendInv' /\ HeadInv' /\ Past' = Past /\ BeforePage' = Page
          /\ undoclr' # << >> /\ undoclr'[1].chain # << >>
          /\ UNCHANGED <<undostk, undopend>>
      BY <1>1, <1>4, AsideKeeps
    <2>2. NotedInv'
      BY <1>1, <2>1 DEF UndoInv, NotedInv
    <2>3. ASSUME ~ClearAfterDraw PROVE BeforePage = Page
      <3>1. undoclr = << >> /\ undopend = <<EndMark>>
        BY <1>4, <2>3 DEF AsideFrame, Untouched
      <3>2. undopend[1] = EndMark
        BY <3>1
      <3>3. QED
        BY <1>1, <3>1, <3>2, BeforeIs, EndPage DEF BeforeFacts, UndoInv
    <2>4. QED
      BY <1>1, <2>1, <2>2, <2>3 DEF UndoInv, SetsAside
  <1>5. CASE AsideNoMemory
    <2>1. undostk' = << >> /\ undopend' = << >> /\ undoclr' = << >> /\ chain' = << >> /\ last' = 0
      BY <1>5 DEF AsideNoMemory
    <2>2. HeadInv'
      BY <2>1 DEF HeadInv
    <2>3. QED
      BY <1>1, <2>1, <2>2, ForgottenNextIs DEF ForgottenFacts, Forgets
  <1>6. QED
    BY <1>2, <1>3, <1>4, <1>5 DEF FrameAside

(* Each kind of step. *)
Starts == /\ ~running /\ running' /\ Past' = Past /\ Page' = Page /\ undolim' = undolim
          /\ undopend' = << >> => BeforePage' = NoPage
          /\ undopend' # << >> => BeforePage' = Page /\ undolim >= 1
Works  == /\ running /\ running'
          /\ \/ Stays /\ undopend' = undopend /\ undolim' = undolim
             \/ SetsAside /\ undopend' # << >> /\ undolim' = undolim
             \/ Forgets
Ends   == /\ running /\ ~running' /\ Page' = Page /\ BeforePage' = NoPage
          /\ undopend' = << >> /\ undolim' = undolim
          /\ \/ Past' = Past /\ (undopend = << >> \/ BeforePage = Page)
             \/ Past' = KeptPages(Past, BeforePage) /\ undopend # << >>
Undoes == /\ ~running /\ ~running' /\ Past = Append(Past', Page') /\ undolim' = undolim
          /\ Past # << >> /\ undopend = << >> /\ undopend' = << >>
          /\ BeforePage = NoPage /\ BeforePage' = NoPage
Rests  == Stays /\ Page' = Page /\ undopend' = undopend /\ running' = running /\ undolim' = undolim

LEMMA UndoStep ==
  ASSUME MetaAssumption, ~UndoInScript, TypeOK, MemoryInv, TypeOK', MemoryInv', UndoInv,
         [Next]_vars
  PROVE  UndoInv' /\ (Starts \/ Works \/ Ends \/ (Undo /\ Undoes) \/ Rests)
  <1>1. CASE BeginCommand
    <2>1. ~running /\ undolim' = undolim
      BY <1>1 DEF BeginCommand
    <2>2. QED
      BY <1>1, <2>1, BeginNotes DEF Starts
  <1>2. ASSUME NEW p \in Prim, Draw(p) PROVE UndoInv' /\ Works
    BY <1>2, DrawStays DEF Works
  <1>3. ASSUME running, running', (\E t : FrameNew(t)) \/ FrameNext PROVE UndoInv' /\ Works
    BY <1>3, FramesForget DEF Works
  <1>4. CASE Clear
    <2>1. running /\ running'
      BY <1>4 DEF Clear
    <2>2. CASE Undoable
      <3>1. FrameAside /\ (ClearAfterDraw \/ Untouched)
        BY <1>4, <2>2 DEF Clear
      <3>2. QED
        BY <2>1, <2>2, <3>1, ClearStays DEF Works
    <2>3. CASE ~Undoable
      BY <1>3, <1>4, <2>1, <2>3 DEF Clear
    <2>4. QED
      BY <2>2, <2>3
  <1>5. CASE ClearHbuff
    BY <1>3, <1>5 DEF ClearHbuff
  <1>6. CASE ClearEvents
    <2>1. /\ running /\ running' = running
          /\ UNCHANGED <<chain, last, text, undostk, undogen, undopend, undoclr, undolim, mbuferror>>
      BY <1>6 DEF ClearEvents, chainvars, undovars
    <2>2. QED
      BY <2>1, NothingChanges DEF Rests
  <1>7. CASE Reset
    BY <1>3, <1>7 DEF Reset
  <1>8. CASE SetDbuffOn
    BY <1>3, <1>8 DEF SetDbuffOn
  <1>9. CASE SetDbuffOff
    BY <1>3, <1>9 DEF SetDbuffOff
  <1>10. CASE Swap
    BY <1>3, <1>10 DEF Swap
  <1>11. CASE AnimFrame
    BY <1>3, <1>11 DEF AnimFrame
  <1>12. ASSUME NEW n \in 0 .. MaxLim, SetUndo(n) PROVE UndoInv' /\ Works
    <2>1. running /\ running'
      BY <1>12 DEF SetUndo
    <2>2. QED
      BY <1>12, <2>1, SetUndoForgets DEF Works
  <1>13. CASE Undo
    <2>1. ~running
      BY <1>13 DEF Undo
    <2>2. QED
      BY <1>13, <2>1, UndoPops DEF Undoes
  <1>14. CASE EndCommand
    <2>1. running /\ undolim' = undolim /\ undopend' = << >>
      BY <1>14 DEF EndCommand
    <2>2. QED
      BY <1>14, <2>1, EndKeeps DEF Ends
  <1>15. CASE UNCHANGED vars
    <2>1. UNCHANGED <<chain, last, text, undostk, undogen, undopend, undoclr, undolim,
                      mbuferror, running>>
      BY <1>15 DEF vars, chainvars, undovars
    <2>2. QED
      BY <2>1, NothingChanges DEF Rests
  <1>16. QED
    BY <1>1, <1>2, <1>4, <1>5, <1>6, <1>7, <1>8, <1>9, <1>10, <1>11, <1>12, <1>13, <1>14,
       <1>15 DEF Next

(* Initially nothing is kept. *)
LEMMA UndoInit ==
  ASSUME Init
  PROVE  UndoInv /\ Past = << >> /\ BeforePage = NoPage
  <1>1. HeadInv
    BY HeadOf DEF Init, HeadInv
  <1>2. QED
    BY <1>1, ForgetUndo DEF Init

LEMMA UndoAlways ==
  ASSUME ~UndoInScript
  PROVE  Spec => []UndoInv
  <1>1. TypeOK /\ MemoryInv /\ TypeOK' /\ MemoryInv' /\ UndoInv /\ [Next]_vars => UndoInv'
    BY MetaAssumption, UndoStep
  <1>2. Init => UndoInv
    BY UndoInit
  <1>3. QED
    BY <1>1, <1>2, TypeCorrect, MemoryAlways, PTL DEF Spec

(* An undo never meets a step it cannot use, when no undo is called from a *)
(* script: every position gxhundokeep pushed stays in the chain it will be *)
(* looked up in, and of its generation, whatever is drawn, cleared, set    *)
(* aside and put back in between: StepsStayUsable.                         *)
THEOREM StepsUsable ==
  ASSUME ~UndoInScript
  PROVE  Spec => []StepsStayUsable
  <1>1. TypeOK /\ UndoInv => StepsStayUsable
    <2>1. SUFFICES ASSUME TypeOK, UndoInv, NEW i \in 1 .. Len(undostk), ~undostk[i].frame
                   PROVE  /\ undostk[i].mark.buf \in Bufs(HostChain(i))
                          /\ undostk[i].mark.used <= Len(text[undostk[i].mark.buf])
                          /\ undostk[i].mark.gen
                               = IF {j \in i + 1 .. Len(undostk) : undostk[j].frame} # {}
                                 THEN undostk[CHOOSE j \in {j \in i + 1 .. Len(undostk) : undostk[j].frame} :
                                   \A k \in {h \in i + 1 .. Len(undostk) : undostk[h].frame} : j <= k].gen
                                 ELSE IF undoclr # << >> THEN undoclr[1].gen ELSE undogen
      BY Zenon DEF StepsStayUsable
    <2>2. /\ Within(undostk[i].mark, Host(undostk, TopChain, i), text)
          /\ undostk[i].mark.gen = HostGen(undostk, TopGen, i)
      BY <2>1 DEF UndoInv, StepsPlaced, Placed
    <2>3. HostChain(i) = Host(undostk, TopChain, i)
      BY <2>1, StepPageIs
    <2>4. /\ undostk[i].mark.buf \in Bufs(HostChain(i))
          /\ undostk[i].mark.used <= Len(text[undostk[i].mark.buf])
      BY <2>2, <2>3 DEF Within, Bufs
    <2>5. QED
      BY <2>1, <2>2, <2>4, StepPageIs
  <1>2. QED
    BY <1>1, TypeCorrect, UndoAlways, PTL

-----------------------------------------------------------------------------
(* Undo is a history of pages.                                             *)

(* The pages the steps go back to, one after the other, are Past. *)
PastFacts == TypeOK => [i \in 1 .. Len(undostk) |-> StepPage(i)] = Past

LEMMA PastIs == PastFacts
  BY StepPageIs DEF PastFacts, Past, Pages

LEMMA PastNextIs == PastFacts'
  BY PastIs, PTL

LEMMA PagesSeq ==
  ASSUME NEW stk \in Seq(Step), NEW c, NEW tx, NEW S,
         \A i \in 1 .. Len(stk) : PageOf(stk, c, tx, i) \in S
  PROVE  Pages(stk, c, tx) \in Seq(S)
  <1>1. Pages(stk, c, tx) \in [1 .. Len(stk) -> S]
    BY DEF Pages
  <1>2. Len(stk) \in Nat
    BY LenProperties
  <1>3. QED
    BY <1>1, <1>2, SeqDef

(* A sequence and its last element taken apart again. *)
LEMMA LastOff ==
  ASSUME NEW S, NEW p \in Seq(S), NEW x \in S
  PROVE  x = Append(p, x)[Len(Append(p, x))]
         /\ p = SubSeq(Append(p, x), 1, Len(Append(p, x)) - 1)
  <1> DEFINE a == Append(p, x)
             n == Len(p)
             q == SubSeq(a, 1, n)
  <1>1. /\ a \in Seq(S) /\ Len(a) = n + 1 /\ n \in Nat /\ a[n + 1] = x
        /\ \A i \in 1 .. n : a[i] = p[i]
    BY AppendProperties, LenProperties
  <1> HIDE DEF a, n
  <1>2. n \in 0 .. Len(a) /\ Len(a) - 1 = n
    BY <1>1
  <1>3. /\ q \in Seq(S) /\ Len(q) = IF 1 <= n THEN n - 1 + 1 ELSE 0
        /\ \A i \in 1 .. n - 1 + 1 : q[i] = a[1 + i - 1]
    BY <1>1, <1>2, Piece
  <1> HIDE DEF q
  <1>4. Len(q) = n /\ \A i \in 1 .. n : q[i] = p[i]
    BY <1>1, <1>3
  <1>5. q = p
    BY <1>3, <1>4, SeqEqual DEF n
  <1>6. QED
    BY <1>1, <1>2, <1>5 DEF a, q

(* The page noted is a page. *)
LEMMA NotedIsPage ==
  ASSUME MetaAssumption, TypeOK, MemoryInv, UndoInv, undopend # << >>
  PROVE  BeforePage \in Seq(Seq(Word))
  <1>1. ASSUME NEW c \in Seq(Buf) PROVE FullPage(c, text) \in Seq(Seq(Word))
    <2>1. Len(c) \in Nat /\ \A x \in 1 .. Len(c) : text[c[x]] \in Seq(Word)
      BY ElementOfSeq, LenProperties DEF TypeOK, BuffersOK
    <2>2. FullPage(c, text) \in [1 .. Len(c) -> Seq(Word)]
      BY <2>1 DEF FullPage
    <2>3. QED
      BY <2>1, <2>2, SeqDef, SMTT(30)
  <1>2. CASE undoclr # << >>
    <2>1. TopChain = undoclr[1].chain /\ TopChain \in Seq(Buf)
      BY <1>2, TopOK DEF TopFacts, TopChain
    <2>2. QED
      BY <1>1, <1>2, <2>1, BeforeIs DEF BeforeFacts
  <1>3. CASE undoclr = << >> /\ last = 0
    <2>1. undopend[1] = EndMark /\ BeforePage = CutPage(TopChain, text, undopend[1])
      BY <1>3, BeforeIs DEF BeforeFacts, UndoInv, PendInv
    <2>2. BeforePage = Page
      BY <1>3, <2>1, EndPage DEF UndoInv
    <2>3. Page = FullPage(TopChain, text) /\ TopChain \in Seq(Buf)
      BY <1>3, PageFull, TopOK DEF TopFacts
    <2>4. QED
      BY <1>1, <2>2, <2>3
  <1>4. CASE undoclr = << >> /\ last # 0
    <2> DEFINE c == TopChain
               m == undopend[1]
    <2>1. /\ BeforePage = CutPage(c, text, m) /\ Within(m, c, text)
          /\ c \in Seq(Buf) /\ Distinct(c)
      BY <1>4, BeforeIs, TopOK DEF BeforeFacts, UndoInv, PendInv, TopFacts
    <2>2. m.used \in Nat
      <3>1. undopend \in Seq(Mark)
        BY DEF TypeOK, StacksOK
      <3>2. m \in Mark
        BY <3>1, FirstElement
      <3>3. QED
        BY <3>2 DEF Mark
    <2> HIDE DEF c, m
    <2>3. PICK x \in 1 .. Len(c) : c[x] = m.buf /\ m.used <= Len(text[m.buf])
      BY <2>1 DEF Within
    <2> DEFINE f == [y \in 1 .. x |-> IF y = x THEN SubSeq(text[m.buf], 1, m.used)
                                      ELSE text[c[y]]]
    <2>4. CutPage(c, text, m) = f
      <3>1. ASSUME NEW e \in Seq(Buf), Distinct(e), NEW vx, NEW k, NEW z \in 1 .. Len(e),
                   e[z] = k.buf
            PROVE  CutPage(e, vx, k) = [y \in 1 .. z |-> IF y = z THEN SubSeq(vx[k.buf], 1, k.used)
                                                        ELSE vx[e[y]]]
        BY <3>1, CutAt
      <3>2. QED
        BY <2>1, <2>3, <3>1
    <2>5. Len(c) \in Nat /\ x \in Nat /\ \A y \in 1 .. x : y \in 1 .. Len(c) /\ c[y] \in Buf
      <3>1. Len(c) \in Nat /\ x \in Nat
        BY <2>1, LenProperties
      <3>2. \A y \in 1 .. x : y \in 1 .. Len(c)
        BY <3>1
      <3>3. QED
        BY <2>1, <3>1, <3>2, ElementOfSeq
    <2>6. \A y \in 1 .. x : text[c[y]] \in Seq(Word)
      BY <2>5 DEF TypeOK, BuffersOK
    <2>7. SubSeq(text[m.buf], 1, m.used) \in Seq(Word)
      <3>1. text[m.buf] \in Seq(Word) /\ Len(text[m.buf]) \in Nat
        BY <2>3, <2>5, <2>6, LenProperties
      <3>2. m.used \in 0 .. Len(text[m.buf])
        BY <2>2, <2>3, <3>1
      <3>3. QED
        BY <3>1, <3>2, Piece
    <2>8. f \in [1 .. x -> Seq(Word)]
      BY <2>6, <2>7
    <2> HIDE DEF f
    <2>9. QED
      BY <2>1, <2>4, <2>5, <2>8, SeqDef
  <1>5. QED
    BY <1>2, <1>3, <1>4

(* The mapping of MetaBuffer, step by step. *)
LEMMA HistoryStep ==
  ASSUME MetaAssumption, PageAssumption, ~UndoInScript, ~ClearAfterDraw,
         TypeOK, MemoryInv, TypeOK', MemoryInv', UndoInv, [Next]_vars
  PROVE  [History!HNext]_(History!hvars)
  <1>1. /\ [i \in 1 .. Len(undostk) |-> StepPage(i)] = Past
        /\ [i \in 1 .. Len(undostk) |-> StepPage(i)]' = Past'
    BY PastIs, PastNextIs DEF PastFacts
  <1>2. running \in BOOLEAN /\ running' \in BOOLEAN /\ undolim \in Nat /\ undolim' \in Nat
    BY DEF TypeOK, FlagsOK, StacksOK, MetaAssumption
  <1>3. CASE Starts
    <2>1. running' = TRUE /\ BeforePage' \in {Page, NoPage}
          /\ (undolim = 0 => BeforePage' = NoPage)
      BY <1>2, <1>3 DEF Starts
    <2>2. History!HBegin
      BY <1>1, <1>3, <2>1 DEF Starts, History!HBegin
    <2>3. QED
      BY <2>2 DEF History!HNext
  <1>4. CASE Works
    <2>1. running' = running
      BY <1>2, <1>4 DEF Works
    <2>2. CASE (Stays \/ SetsAside) /\ undolim' = undolim
      <3>1. Past' = Past /\ BeforePage' = BeforePage
        BY <2>2 DEF Stays, SetsAside
      <3>2. History!HChange
        BY <1>1, <1>4, <2>1, <2>2, <3>1 DEF Works, History!HChange
      <3>3. QED
        BY <3>2 DEF History!HNext
    <2>3. CASE Forgets
      <3>1. History!HForget
        BY <1>1, <1>2, <1>4, <2>1, <2>3 DEF Works, Forgets, History!HForget
      <3>2. QED
        BY <3>1 DEF History!HNext
    <2>4. QED
      BY <1>4, <2>2, <2>3 DEF Works
  <1>5. CASE Ends
    <2>1. running' = FALSE /\ running /\ BeforePage' = NoPage /\ Page' = Page /\ undolim' = undolim
      BY <1>2, <1>5 DEF Ends
    <2>2. undopend = << >> => BeforePage = NoPage
      BY DEF BeforePage
    <2>3. undopend # << >> => BeforePage # NoPage
      BY NotedIsPage, PageAssumption DEF PageAssumption
    <2>4. \/ BeforePage # NoPage /\ Past' = KeptPages(Past, BeforePage)
          \/ BeforePage \in {NoPage, Page} /\ Past' = Past
      BY <1>5, <2>2, <2>3 DEF Ends
    <2>5. History!HEnd
      BY <1>1, <2>1, <2>4 DEF KeptPages, History!HEnd, History!Kept
    <2>6. QED
      BY <2>5 DEF History!HNext
  <1>6. CASE Undoes
    <2>1. Page' = Past[Len(Past)] /\ Past' = SubSeq(Past, 1, Len(Past) - 1)
      <3> DEFINE c == TopChain'
                 q == Page'
                 stk == undostk'
                 ux == text'
                 S == {PageOf(stk, c, ux, i) : i \in 1 .. Len(stk)} \cup {q}
      <3>1. undostk' \in Seq(Step)
        BY DEF TypeOK, StacksOK
      <3>2. Past' \in Seq(S)
        <4> HIDE DEF c, q, stk, ux
        <4>0. stk \in Seq(Step)
          BY <3>1 DEF stk
        <4>1. \A i \in 1 .. Len(stk) : PageOf(stk, c, ux, i) \in S
          OBVIOUS
        <4> HIDE DEF S
        <4>2. Pages(stk, c, ux) \in Seq(S)
          BY <4>0, <4>1, PagesSeq
        <4>3. QED
          BY <4>2 DEF Past, c, stk, ux
      <3>3. Page' \in S
        OBVIOUS
      <3> HIDE DEF S
      <3>4. QED
        BY <1>6, <3>2, <3>3, LastOff DEF Undoes
    <2>2. History!HUndo
      BY <1>1, <1>2, <1>6, <2>1 DEF Undoes, History!HUndo
    <2>3. QED
      BY <2>2 DEF History!HNext
  <1>7. CASE Rests
    BY <1>1, <1>7 DEF Rests, Stays, History!hvars
  <1>8. QED
    BY <1>3, <1>4, <1>5, <1>6, <1>7, UndoStep

(* Undo keeps its promise for every number of buffers, primitives, steps   *)
(* and generations: each kept step goes back to exactly the page from      *)
(* before its command, whatever is drawn, cleared, swapped or reset, and   *)
(* whether or not the allocator fails: RefinesUndoHistory.  Scripts may    *)
(* neither undo nor clear what they drew themselves: the runs scriptundo   *)
(* and drawclear show what goes wrong when they do.                        *)
THEOREM UndoIsAHistory ==
  ASSUME ~UndoInScript, ~ClearAfterDraw
  PROVE  Spec => RefinesUndoHistory
  <1>1. Init => History!HInit
    <2> SUFFICES ASSUME Init PROVE History!HInit
      OBVIOUS
    <2>1. BeforePage = NoPage /\ undolim = 0 /\ running = FALSE /\ Len(undostk) = 0
      BY UndoInit DEF Init
    <2>2. [i \in 1 .. Len(undostk) |-> StepPage(i)] = << >>
      BY <2>1
    <2>3. QED
      BY <2>1, <2>2 DEF History!HInit
  <1>2. TypeOK /\ MemoryInv /\ TypeOK' /\ MemoryInv' /\ UndoInv /\ [Next]_vars
          => [History!HNext]_(History!hvars)
    BY MetaAssumption, PageAssumption, HistoryStep
  <1>3. QED
    BY <1>1, <1>2, TypeCorrect, MemoryAlways, UndoAlways, PTL
       DEF Spec, RefinesUndoHistory, History!HSpec

-----------------------------------------------------------------------------
(* Every page is made of whole primitives.                                 *)

WholePage(pg) == \A i \in 1 .. Len(pg) : Whole(pg[i])
WholeTexts == \A b \in Buf : Whole(text[b])

(* No text in a buffer, no page kept and not the page noted ends inside a  *)
(* primitive.                                                              *)
WholeInv ==
  /\ WholeTexts
  /\ \A i \in 1 .. Len(Past) : WholePage(Past[i])
  /\ undopend # << >> => WholePage(BeforePage)

LEMMA WholeNone == Whole(<< >>)
  BY DEF Whole

LEMMA WholePrim ==
  ASSUME MetaAssumption, NEW p \in Prim
  PROVE  Whole(PrimText(p))
  <1>1. Words[p] \in Nat /\ Len(PrimText(p)) = Words[p]
    BY PrimTextOK DEF MetaAssumption
  <1>2. \A k \in 1 .. Words[p] : PrimText(p)[k] = <<p, k>>
    BY DEF PrimText
  <1> DEFINE t == PrimText(p)
             l == Words[p]
  <1> HIDE DEF t, l
  <1>3. ASSUME NEW k \in 1 .. Len(t)
        PROVE  /\ t[k][1] = p /\ t[k][2] = k
               /\ k > 1 => t[k - 1] = <<p, k - 1>>
               /\ k < l => k < Len(t) /\ t[k + 1] = <<p, k + 1>>
    <2>1. l \in Nat /\ Len(t) = l /\ \A j \in 1 .. l : t[j] = <<p, j>>
      BY <1>1, <1>2 DEF t, l
    <2>2. (k > 1 => k - 1 \in 1 .. l) /\ (k < l => k + 1 \in 1 .. l)
      BY <2>1
    <2>3. QED
      BY <2>1, <2>2
  <1>4. QED
    BY <1>3 DEF Whole, l, t

LEMMA WholeJoin ==
  ASSUME NEW S, NEW s \in Seq(S), NEW t \in Seq(S), Whole(s), Whole(t)
  PROVE  Whole(s \o t)
  <1> DEFINE r == s \o t
             m == Len(s)
             n == Len(t)
  <1>1. /\ m \in Nat /\ n \in Nat /\ Len(r) = m + n
        /\ \A k \in 1 .. m + n : r[k] = IF k <= m THEN s[k] ELSE t[k - m]
    BY ConcatProperties, LenProperties
  <1> HIDE DEF r
  <1>2. SUFFICES ASSUME NEW k \in 1 .. m + n
                 PROVE  /\ r[k][2] > 1 => k > 1 /\ r[k - 1] = <<r[k][1], r[k][2] - 1>>
                        /\ r[k][2] < Words[r[k][1]]
                             => k < m + n /\ r[k + 1] = <<r[k][1], r[k][2] + 1>>
    BY <1>1 DEF Whole, r
  <1>3. CASE k <= m
    <2>1. k \in 1 .. m /\ r[k] = s[k]
      BY <1>1, <1>3
    <2>2. /\ s[k][2] > 1 => k > 1 /\ s[k - 1] = <<s[k][1], s[k][2] - 1>>
          /\ s[k][2] < Words[s[k][1]] => k < m /\ s[k + 1] = <<s[k][1], s[k][2] + 1>>
      BY <2>1 DEF Whole
    <2> HIDE DEF m, n
    <2>3. (k > 1 => r[k - 1] = s[k - 1]) /\ (k < m => r[k + 1] = s[k + 1] /\ k < m + n)
      <3>1. (k > 1 => k - 1 \in 1 .. m + n /\ k - 1 <= m)
            /\ (k < m => k + 1 \in 1 .. m + n /\ k + 1 <= m /\ k < m + n)
        BY <1>1, <1>3
      <3>2. QED
        BY <1>1, <3>1
    <2>4. QED
      BY <2>1, <2>2, <2>3
  <1>4. CASE ~(k <= m)
    <2> DEFINE j == k - m
    <2>1. j \in 1 .. n /\ r[k] = t[j]
      BY <1>1, <1>4
    <2>2. /\ t[j][2] > 1 => j > 1 /\ t[j - 1] = <<t[j][1], t[j][2] - 1>>
          /\ t[j][2] < Words[t[j][1]] => j < n /\ t[j + 1] = <<t[j][1], t[j][2] + 1>>
      <3> HIDE DEF j
      <3>1. QED
        BY <2>1 DEF Whole
    <2> HIDE DEF m, n
    <2>3. (j > 1 => k > 1 /\ r[k - 1] = t[j - 1]) /\ (j < n => r[k + 1] = t[j + 1] /\ k < m + n)
      <3>1. (j > 1 => k - 1 \in 1 .. m + n /\ ~(k - 1 <= m) /\ k > 1 /\ (k - 1) - m = j - 1)
            /\ (j < n => k + 1 \in 1 .. m + n /\ ~(k + 1 <= m) /\ k < m + n
                         /\ (k + 1) - m = j + 1)
        BY <1>1, <1>4
      <3>2. j > 1 => r[k - 1] = t[(k - 1) - m]
        BY <1>1, <3>1
      <3>3. j < n => r[k + 1] = t[(k + 1) - m]
        BY <1>1, <3>1
      <3> HIDE DEF j
      <3>4. QED
        BY <3>1, <3>2, <3>3
    <2> HIDE DEF j
    <2>4. QED
      BY <2>1, <2>2, <2>3
  <1>5. QED
    BY <1>3, <1>4

(* One text put in a buffer. *)
LEMMA WholePut ==
  ASSUME TypeOK, WholeTexts, NEW b, NEW t, b \in Buf => Whole(t)
  PROVE  \A a \in Buf : Whole([text EXCEPT ![b] = t][a])
  BY DEF TypeOK, BuffersOK, WholeTexts

LEMMA WholeRestart ==
  ASSUME TypeOK, WholeTexts, NEW c, NEW t, Whole(t)
  PROVE  \A a \in Buf : Whole(Restart(c, t)[a])
  <1>1. CASE c = << >>
    BY <1>1 DEF Restart, WholeTexts
  <1>2. CASE c # << >>
    BY <1>2, WholePut DEF Restart
  <1>3. QED
    BY <1>1, <1>2

LEMMA WholeReplay ==
  ASSUME TypeOK, MemoryInv, WholeTexts
  PROVE  WholePage(Page)
  <1>1. /\ chain \in Seq(Buf) /\ last \in 0 .. Len(chain)
    BY ChainFacts
  <1> DEFINE c == SubSeq(chain, 1, last)
  <1>2. c \in Seq(Buf)
    BY <1>1, Piece
  <1> HIDE DEF c
  <1>3. Page = [i \in 1 .. Len(c) |-> text[c[i]]] /\ Len(c) \in Nat
    BY <1>2, LenProperties DEF Page, Replay, c
  <1>4. \A i \in 1 .. Len(c) : Whole(text[c[i]])
    BY <1>2, ElementOfSeq DEF WholeTexts
  <1>5. QED
    BY <1>3, <1>4 DEF WholePage

(* Drawing and new frames leave no part of a primitive. *)
LEMMA WholeDraw ==
  ASSUME MetaAssumption, TypeOK, MemoryInv, WholeTexts, NEW p \in Prim, Draw(p)
  PROVE  WholeTexts'
  <1>1. Whole(PrimText(p)) /\ PrimText(p) \in Seq(Word)
    BY WholePrim, PrimTextOK
  <1>2. CASE DrawInPlace(p)
    <2> DEFINE b == chain[last]
    <2>1. b \in Buf => Whole(text[b] \o PrimText(p))
      BY <1>1, WholeJoin DEF TypeOK, BuffersOK, WholeTexts
    <2>2. text' = [text EXCEPT ![b] = text[b] \o PrimText(p)]
      BY <1>2 DEF DrawInPlace
    <2> HIDE DEF b
    <2>3. QED
      BY <2>1, <2>2, WholePut DEF WholeTexts
  <1>3. CASE DrawInSpare(p)
    BY <1>1, <1>3, WholePut DEF DrawInSpare, WholeTexts
  <1>4. CASE DrawInNew(p)
    <2>1. \E b \in Buf : text' = [text EXCEPT ![b] = PrimText(p)]
      BY <1>4 DEF DrawInNew
    <2>2. QED
      BY <1>1, <2>1, WholePut DEF WholeTexts
  <1>5. CASE DrawNoMemory(p)
    BY <1>5 DEF DrawNoMemory, WholeTexts
  <1>6. QED
    BY <1>2, <1>3, <1>4, <1>5 DEF Draw

LEMMA WholeFrames ==
  ASSUME MetaAssumption, Whole(Backdrop), TypeOK, WholeTexts,
         FrameNew(Backdrop) \/ FrameNew(<< >>) \/ FrameNext \/ FrameAside
  PROVE  WholeTexts'
  <1>1. ASSUME NEW t, Whole(t), FrameNew(t) PROVE WholeTexts'
    BY <1>1, WholeRestart DEF FrameNew, FrameReset, FrameSingle, WholeTexts
  <1>2. CASE FrameDouble
    <2> DEFINE t == IF mbuferror THEN << >> ELSE Backdrop
    <2>1. Whole(t)
      BY WholeNone
    <2>2. PICK c, f : text' = [b \in Buf |-> IF b \in Bufs(f) THEN << >> ELSE Restart(c, t)[b]]
      BY <1>2 DEF FrameDouble
    <2> HIDE DEF t
    <2>3. \A a \in Buf : Whole(Restart(c, t)[a])
      BY <2>1, WholeRestart
    <2>4. QED
      BY <2>2, <2>3, WholeNone DEF WholeTexts
  <1>3. CASE FrameSwap
    <2> DEFINE t == IF mbuferror THEN << >> ELSE Backdrop
    <2>1. Whole(t) /\ text' = Restart(fore, t)
      BY <1>3, WholeNone DEF FrameSwap
    <2> HIDE DEF t
    <2>2. QED
      BY <2>1, WholeRestart DEF WholeTexts
  <1>4. CASE FrameAside
    <2>1. text' = text \/ \E c : text' = Restart(c, Backdrop)
      BY <1>4 DEF FrameAside, AsideNull, AsideNothing, AsideFrame, AsideNoMemory
    <2>2. QED
      BY <2>1, WholeRestart DEF WholeTexts
  <1>5. QED
    BY <1>1, <1>2, <1>3, <1>4, WholeNone DEF FrameNext

(* Undo cuts a text where the page it goes back to ended. *)
LEMMA WholeUndo ==
  ASSUME MetaAssumption, TypeOK, MemoryInv, TypeOK', MemoryInv', UndoInv, WholeTexts,
         ~running, Undo, WholePage(Page)'
  PROVE  WholeTexts'
  <1>1. undoclr = << >>
    BY DEF UndoInv, IdleInv
  <1>2. CASE UndoFrame
    <2>1. text' = text \/ text' = Restart(chain, << >>)
      BY <1>2 DEF UndoFrame
    <2>2. QED
      BY <2>1, WholeRestart, WholeNone DEF WholeTexts
  <1>3. CASE UndoStale
    BY <1>3 DEF UndoStale, WholeTexts
  <1>4. CASE UndoDraw
    <2> DEFINE m == TopStep.mark
               n == CHOOSE i \in 1 .. last : chain[i] = m.buf
    <2>1. CASE m.buf = NoBuf
      <3>1. text' = Restart(chain, << >>)
        BY <1>4, <2>1 DEF UndoDraw
      <3>2. QED
        BY <3>1, WholeRestart, WholeNone DEF WholeTexts
    <2>2. CASE m.buf # NoBuf
      <3>1. /\ last' = n /\ chain' = chain /\ undoclr' = << >>
            /\ text' = [text EXCEPT ![m.buf] = SubSeq(text[m.buf], 1, m.used)]
        BY <1>1, <1>4, <2>2 DEF UndoDraw
      <3>2. \E i \in 1 .. last : chain[i] = m.buf
        BY <1>4, <2>2 DEF UndoDraw, Usable
      <3>3. n \in 1 .. last /\ chain[n] = m.buf
        BY <3>2
      <3> HIDE DEF n, m
      <3>4. n \in Nat /\ n >= 1 /\ chain[n] \in Buf
        <4>1. last \in 0 .. Len(chain) /\ Len(chain) \in Nat
          BY ChainFacts
        <4>2. n \in 1 .. Len(chain) /\ n \in Nat /\ n >= 1
          BY <3>3, <4>1
        <4>3. QED
          BY <4>2, ChainFacts
      <3>5. Len(TopChain') = n /\ TopChain'[n] = m.buf /\ TopChain' = SubSeq(chain', 1, last')
        <4>1. Len(TopChain') = last' /\ \A y \in 1 .. last' : TopChain'[y] = chain'[y]
          BY <3>1, TopNextOK DEF TopFacts
        <4>2. n \in 1 .. last'
          BY <3>1, <3>4
        <4>3. QED
          BY <3>1, <3>3, <4>1, <4>2 DEF TopChain
      <3>6. Page' = [i \in 1 .. n |-> text'[TopChain'[i]]]
        BY <3>5 DEF Page, Replay
      <3>7. Len(Page') = n /\ Page'[n] = text'[m.buf] /\ n \in 1 .. n
        <4>1. n \in 1 .. n
          BY <3>4
        <4> DEFINE d == TopChain'
                   ux == text'
        <4>2. Page' = [i \in 1 .. n |-> ux[d[i]]] /\ d[n] = m.buf
          BY <3>5, <3>6
        <4> HIDE DEF d, ux
        <4>3. Len(Page') = n
          BY <3>4, <4>2
        <4>4. Page'[n] = ux[d[n]]
          BY <4>1, <4>2
        <4>5. QED
          BY <4>1, <4>2, <4>3, <4>4 DEF ux
      <3>8. Whole(text'[m.buf])
        BY <3>7 DEF WholePage
      <3>9. text'[m.buf] = SubSeq(text[m.buf], 1, m.used)
        BY <3>1, <3>3, <3>4 DEF TypeOK, BuffersOK
      <3>10. QED
        BY <3>1, <3>8, <3>9, WholePut DEF WholeTexts
    <2>3. QED
      BY <2>1, <2>2
  <1>5. QED
    BY <1>2, <1>3, <1>4 DEF Undo

LEMMA WholeNext ==
  ASSUME MetaAssumption, ~UndoInScript, Whole(Backdrop), TypeOK, MemoryInv, TypeOK',
         MemoryInv', UndoInv, WholeTexts, [Next]_vars, Undo => WholePage(Page)'
  PROVE  WholeTexts'
  <1>1. CASE UNCHANGED text
    BY <1>1 DEF WholeTexts
  <1>2. CASE BeginCommand \/ EndCommand \/ ClearEvents \/ UNCHANGED vars
    BY <1>1, <1>2 DEF BeginCommand, EndCommand, ClearEvents, vars
  <1>3. ASSUME NEW n, SetUndo(n) PROVE WholeTexts'
    BY <1>1, <1>3 DEF SetUndo
  <1>4. CASE Undo
    <2>1. ~running
      BY <1>4 DEF Undo
    <2>2. QED
      BY <1>4, <2>1, WholeUndo
  <1>5. CASE Clear \/ ClearHbuff \/ Reset \/ SetDbuffOn \/ SetDbuffOff \/ Swap \/ AnimFrame
    <2>1. FrameNew(Backdrop) \/ FrameNew(<< >>) \/ FrameNext \/ FrameAside
      BY <1>5 DEF Clear, ClearHbuff, Reset, SetDbuffOn, SetDbuffOff, Swap, AnimFrame
    <2>2. QED
      BY <2>1, WholeFrames
  <1>6. QED
    BY <1>2, <1>3, <1>4, <1>5, WholeDraw DEF Next

(* The history with a page more holds no other pages. *)
LEMMA WholeKept ==
  ASSUME NEW T, NEW p \in Seq(T), NEW q \in T, undolim \in Nat \ {0},
         \A i \in 1 .. Len(p) : WholePage(p[i]), WholePage(q)
  PROVE  \A i \in 1 .. Len(KeptPages(p, q)) : WholePage(KeptPages(p, q)[i])
  <1> DEFINE S == {x \in T : WholePage(x)}
             r == KeptPages(p, q)
  <1>1. p \in Seq(S)
    <2>1. Len(p) \in Nat /\ \A i \in 1 .. Len(p) : p[i] \in T
      BY ElementOfSeq, LenProperties
    <2>2. \A i \in 1 .. Len(p) : p[i] \in S
      BY <2>1
    <2> HIDE DEF S
    <2>3. p = [i \in 1 .. Len(p) |-> p[i]]
      BY SeqDef
    <2>4. p \in [1 .. Len(p) -> S]
      BY <2>2, <2>3
    <2>5. QED
      BY <2>1, <2>4, SeqDef
  <1>2. q \in S
    OBVIOUS
  <1> HIDE DEF S
  <1>3. r \in Seq(S)
    <2>1. CASE Len(p) = undolim
      <3>1. p # << >>
        BY <2>1
      <3>2. Tail(p) \in Seq(S)
        BY <1>1, <3>1, HeadTailProperties
      <3>3. QED
        BY <1>2, <2>1, <3>2, AppendProperties DEF KeptPages
    <2>2. CASE Len(p) # undolim
      BY <1>1, <1>2, <2>2, AppendProperties DEF KeptPages
    <2>3. QED
      BY <2>1, <2>2
  <1> HIDE DEF r
  <1>4. \A i \in 1 .. Len(r) : r[i] \in S
    BY <1>3, ElementOfSeq
  <1>5. QED
    BY <1>4 DEF S, r

LEMMA WholeStep ==
  ASSUME MetaAssumption, ~UndoInScript, Whole(Backdrop), TypeOK, MemoryInv, TypeOK',
         MemoryInv', UndoInv, WholeInv, [Next]_vars
  PROVE  WholeInv'
  <1>1. WholePage(Page) /\ WholeTexts
    BY WholeReplay DEF WholeInv
  <1> DEFINE T == {PageOf(undostk, TopChain, text, i) : i \in 1 .. Len(undostk)}
                    \cup {BeforePage}
  <1>2. Past \in Seq(T)
    <2>1. undostk \in Seq(Step) /\ \A i \in 1 .. Len(undostk) : PageOf(undostk, TopChain, text, i) \in T
      BY DEF TypeOK, StacksOK
    <2> HIDE DEF T
    <2>2. QED
      BY <2>1, PagesSeq DEF Past
  <1>3. BeforePage \in T
    OBVIOUS
  <1> HIDE DEF T
  <1>4. CASE Undo /\ Undoes
    <2> DEFINE p == Past'
               q == Page'
    <2>1. Past = Append(p, q) /\ undopend' = << >>
      BY <1>4 DEF Undoes
    <2>2. \A i \in 1 .. Len(Append(p, q)) : WholePage(Append(p, q)[i])
      BY <2>1 DEF WholeInv
    <2>3. Len(p) \in Nat
      <3>1. Len(undostk') \in Nat
        BY LenProperties DEF TypeOK, StacksOK
      <3>2. QED
        BY <3>1 DEF Past, Pages
    <2>4. /\ Len(Append(p, q)) = Len(p) + 1 /\ Append(p, q)[Len(p) + 1] = q
          /\ \A i \in 1 .. Len(p) : Append(p, q)[i] = p[i]
      <3> DEFINE stk == undostk'
                 c == TopChain'
                 ux == text'
                 S == {PageOf(stk, c, ux, i) : i \in 1 .. Len(stk)} \cup {q}
      <3>1. stk \in Seq(Step) /\ \A i \in 1 .. Len(stk) : PageOf(stk, c, ux, i) \in S
        BY DEF TypeOK, StacksOK
      <3>2. q \in S
        OBVIOUS
      <3>3. p = Pages(stk, c, ux)
        BY DEF Past
      <3> HIDE DEF stk, c, ux, S, p, q
      <3>4. p \in Seq(S)
        BY <3>1, <3>3, PagesSeq
      <3>5. QED
        BY <3>2, <3>4, AppendProperties
    <2> HIDE DEF p, q
    <2>5. WholePage(q) /\ \A i \in 1 .. Len(p) : WholePage(p[i])
      <3>1. \A i \in 1 .. Len(p) + 1 : WholePage(Append(p, q)[i])
        BY <2>2, <2>4
      <3>2. Len(p) + 1 \in 1 .. Len(p) + 1 /\ \A i \in 1 .. Len(p) : i \in 1 .. Len(p) + 1
        BY <2>3
      <3>3. QED
        BY <2>4, <3>1, <3>2
    <2>6. WholePage(Page)'
      BY <2>5 DEF q, WholePage
    <2>7. WholeTexts'
      BY <1>1, <2>6, WholeNext
    <2>8. QED
      BY <2>1, <2>5, <2>7 DEF WholeInv, p, WholePage
  <1>5. CASE ~Undo /\ (Starts \/ Works \/ Ends \/ Rests)
    <2>1. WholeTexts'
      BY <1>1, <1>5, WholeNext
    <2>2. CASE Starts
      <3>1. Past' = Past /\ (undopend' # << >> => BeforePage' = Page)
        BY <2>2 DEF Starts
      <3>2. QED
        BY <1>1, <2>1, <3>1 DEF WholeInv, WholePage
    <2>3. CASE Works
      <3>1. \/ Past' = Past /\ BeforePage' = BeforePage /\ undopend' = undopend
            \/ Past' = Past /\ BeforePage' = Page
            \/ Past' = << >> /\ undopend' = << >>
        BY <2>3 DEF Works, Stays, SetsAside, Forgets
      <3>2. QED
        BY <1>1, <2>1, <3>1 DEF WholeInv, WholePage
    <2>4. CASE Ends
      <3>1. undopend' = << >>
        BY <2>4 DEF Ends
      <3>2. CASE Past' = Past
        BY <2>1, <3>1, <3>2 DEF WholeInv, WholePage
      <3>3. CASE Past' = KeptPages(Past, BeforePage) /\ undopend # << >>
        <4>1. undolim \in Nat \ {0}
          BY <3>3 DEF UndoInv, NotedInv, TypeOK, StacksOK, MetaAssumption
        <4>2. \A i \in 1 .. Len(KeptPages(Past, BeforePage)) : WholePage(KeptPages(Past, BeforePage)[i])
          BY <1>2, <1>3, <3>3, <4>1, WholeKept DEF WholeInv
        <4>3. \A i \in 1 .. Len(Past') : WholePage(Past'[i])
          BY <3>3, <4>2
        <4>4. QED
          BY <2>1, <3>1, <4>3 DEF WholeInv, WholePage
      <3>4. QED
        BY <2>4, <3>2, <3>3 DEF Ends
    <2>5. CASE Rests
      <3>1. Past' = Past /\ BeforePage' = BeforePage /\ undopend' = undopend
        BY <2>5 DEF Rests, Stays
      <3>2. QED
        BY <2>1, <3>1 DEF WholeInv, WholePage
    <2>6. QED
      BY <1>5, <2>2, <2>3, <2>4, <2>5
  <1>6. QED
    <2>1. CASE Undo
      <3>1. ~running
        BY <2>1 DEF Undo
      <3>2. Undoes
        BY <2>1, <3>1, UndoPops DEF Undoes
      <3>3. QED
        BY <1>4, <2>1, <3>2
    <2>2. CASE ~Undo
      BY <1>5, <2>2, UndoStep
    <2>3. QED
      BY <2>1, <2>2

(* No page shown, and none undo can go back to, ends inside a primitive,   *)
(* provided gxfrme draws whole ones on a new page and no undo is called    *)
(* from a script (the run scriptundo shows a page cut in two without that):*)
(* PrimitivesWhole.                                                        *)
THEOREM PagesWhole ==
  ASSUME ~UndoInScript, Whole(Backdrop)
  PROVE  Spec => []PrimitivesWhole
  <1>1. Init => WholeInv
    <2> SUFFICES ASSUME Init PROVE WholeInv
      OBVIOUS
    <2>1. WholeTexts
      BY WholeNone DEF Init, WholeTexts
    <2>2. Past = << >> /\ undopend = << >>
      BY UndoInit DEF Init
    <2>3. QED
      BY <2>1, <2>2 DEF WholeInv
  <1>2. TypeOK /\ MemoryInv /\ TypeOK' /\ MemoryInv' /\ UndoInv /\ WholeInv /\ [Next]_vars
          => WholeInv'
    BY MetaAssumption, WholeStep
  <1>3. TypeOK /\ MemoryInv /\ WholeInv => PrimitivesWhole
    <2> SUFFICES ASSUME TypeOK, MemoryInv, WholeInv PROVE PrimitivesWhole
      OBVIOUS
    <2>1. WholePage(Page)
      BY WholeReplay DEF WholeInv
    <2>2. ASSUME NEW i \in 1 .. Len(undostk) PROVE WholePage(StepPage(i))
      <3>1. StepPage(i) = Past[i] /\ Len(Past) = Len(undostk)
        <4>1. Past = [j \in 1 .. Len(undostk) |-> PageOf(undostk, TopChain, text, j)]
          BY DEF Past, Pages
        <4>2. Len(undostk) \in Nat
          BY LenProperties DEF TypeOK, StacksOK
        <4>3. StepPage(i) = PageOf(undostk, TopChain, text, i)
          BY StepPageIs
        <4>4. QED
          BY <4>1, <4>2, <4>3
      <3>2. QED
        BY <3>1 DEF WholeInv
    <2>3. QED
      BY <2>1, <2>2 DEF PrimitivesWhole, WholePage
  <1>4. QED
    BY <1>1, <1>2, <1>3, TypeCorrect, MemoryAlways, UndoAlways, PTL DEF Spec
=============================================================================
