-------------------------- MODULE TermDisplay_proofs --------------------------
(***************************************************************************)
(* Proofs about TermDisplay, for every value of its constants.             *)
(***************************************************************************)
EXTENDS TermDisplay, Induction, FiniteSetTheorems, TLAPS

-----------------------------------------------------------------------------
(* The jobs of some kinds (Only), by induction on the sequence.            *)

(* What Only computes up to position n of s. *)
Upto(s, K, f, n) == 
  f = [i \in 0 .. n |->
                    IF i = 0 THEN << >>
                    ELSE IF s[i].kind \in K THEN Append(f[i - 1], s[i]) ELSE f[i - 1]]

LEMMA UptoExists == ASSUME NEW s, NEW K, NEW n \in Nat PROVE \E f : Upto(s, K, f, n)
<1> DEFINE S == {m \in Nat : \E f : Upto(s, K, f, m)}
<1>1. 0 \in S
  <2> DEFINE g == [i \in 0 .. 0 |-> << >>]
  <2>1. Upto(s, K, g, 0)
    BY DEF Upto
  <2> QED BY <2>1
<1>2. ASSUME NEW m \in Nat, m \in S PROVE m + 1 \in S
  <2>1. PICK f : Upto(s, K, f, m)
    BY <1>2
  <2> DEFINE nxt == IF s[m+1].kind \in K THEN Append(f[m], s[m+1]) ELSE f[m]
             g == [i \in 0 .. m + 1 |-> IF i = m + 1 THEN nxt ELSE f[i]]
  <2>2. Upto(s, K, g, m + 1)
    <3> SUFFICES ASSUME NEW i \in 0 .. m + 1 
                 PROVE g[i] = IF i = 0 THEN << >>
                    ELSE IF s[i].kind \in K THEN Append(g[i - 1], s[i]) ELSE g[i - 1]
      BY DEF Upto
    <3>1. CASE i = m + 1
      <4>1. g[i-1] = f[m] /\ g[i] = nxt
        BY <3>1
      <4> QED BY <4>1, <3>1
    <3>2. CASE i \in 0 .. m
      <4>1. g[i] = f[i] /\ (i # 0 => g[i-1] = f[i-1])
        BY <3>2
      <4>2. f[i] = IF i = 0 THEN << >>
                    ELSE IF s[i].kind \in K THEN Append(f[i - 1], s[i]) ELSE f[i - 1]
        BY <2>1, <3>2 DEF Upto
      <4> QED BY <4>1, <4>2
    <3> QED BY <3>1, <3>2
  <2> QED BY <2>2
<1> HIDE DEF S
<1>3. Nat \subseteq S
  BY <1>1, <1>2, NatInSet
<1> QED BY <1>3 DEF S

LEMMA UptoAgree == ASSUME NEW s, NEW t, NEW K, NEW m \in Nat, NEW n \in Nat, m <= n,
                          \A i \in 1 .. m : s[i] = t[i],
                          NEW f, NEW g, Upto(s, K, f, m), Upto(t, K, g, n)
                   PROVE  f[m] = g[m]
<1> DEFINE S == {i \in Nat : i <= m => f[i] = g[i]}
<1>1. 0 \in S
  BY DEF Upto
<1>2. ASSUME NEW i \in Nat, i \in S PROVE i + 1 \in S
  <2>1. SUFFICES ASSUME i + 1 <= m PROVE f[i+1] = g[i+1]
    OBVIOUS
  <2>2. f[i] = g[i] /\ s[i+1] = t[i+1]
    BY <1>2, <2>1
  <2>3. f[i+1] = IF s[i+1].kind \in K THEN Append(f[i], s[i+1]) ELSE f[i]
    <3>1. i + 1 \in 0 .. m /\ i + 1 # 0 /\ (i + 1) - 1 = i
      BY <2>1
    <3> QED BY <3>1 DEF Upto
  <2>4. g[i+1] = IF t[i+1].kind \in K THEN Append(g[i], t[i+1]) ELSE g[i]
    <3>1. i + 1 \in 0 .. n /\ i + 1 # 0 /\ (i + 1) - 1 = i
      BY <2>1
    <3> QED BY <3>1 DEF Upto
  <2> QED BY <2>2, <2>3, <2>4
<1> HIDE DEF S
<1>3. Nat \subseteq S
  BY <1>1, <1>2, NatInSet
<1> QED BY <1>3 DEF S

LEMMA OnlyIs == ASSUME NEW s, NEW K, Len(s) \in Nat
                PROVE  \E f : Upto(s, K, f, Len(s)) /\ Only(s, K) = f[Len(s)]
<1> DEFINE keep == CHOOSE f : Upto(s, K, f, Len(s))
<1>1. Upto(s, K, keep, Len(s))
  BY UptoExists
<1>2. Only(s, K) = keep[Len(s)]
  BY DEF Only, Upto
<1> QED BY <1>1, <1>2

LEMMA OnlyAppend == ASSUME NEW X, NEW s \in Seq(X), NEW x \in X, NEW K
                    PROVE  Only(Append(s, x), K) = IF x.kind \in K THEN Append(Only(s, K), x) ELSE Only(s, K)
<1> DEFINE t == Append(s, x)
           n == Len(s)
<1>1. n \in Nat /\ Len(t) = n + 1 /\ t[n + 1] = x /\ \A i \in 1 .. n : s[i] = t[i]
  OBVIOUS
<1>2. PICK f : Upto(s, K, f, n) /\ Only(s, K) = f[n]
  BY OnlyIs, <1>1
<1>3. PICK g : Upto(t, K, g, n + 1) /\ Only(t, K) = g[n + 1]
  <2>1. Len(t) \in Nat /\ Len(t) = n + 1
    BY <1>1
  <2> HIDE DEF t, n
  <2> QED BY OnlyIs, <2>1
<1>4. f[n] = g[n]
  <2> HIDE DEF t, n
  <2> QED BY <1>1, <1>2, <1>3, UptoAgree
<1>5. g[n + 1] = IF x.kind \in K THEN Append(g[n], x) ELSE g[n]
  <2>1. n + 1 \in 0 .. n + 1 /\ n + 1 # 0 /\ (n + 1) - 1 = n
    BY <1>1
  <2> QED BY <2>1, <1>1, <1>3 DEF Upto
<1> QED BY <1>2, <1>3, <1>4, <1>5

LEMMA AppendConcat == ASSUME NEW X
                      PROVE  \A a, b \in Seq(X), x \in X : a \o Append(b, x) = Append(a \o b, x)
OBVIOUS

LEMMA OnlyEmpty == ASSUME NEW K PROVE Only(<< >>, K) = << >>
<1>1. PICK f : Upto(<< >>, K, f, 0) /\ Only(<< >>, K) = f[0]
  <2>1. Len(<< >>) = 0 /\ Len(<< >>) \in Nat
    OBVIOUS
  <2> QED BY <2>1, OnlyIs
<1> QED BY <1>1 DEF Upto

LEMMA OnlyType == ASSUME NEW X, NEW K PROVE \A s \in Seq(X) : Only(s, K) \in Seq(X)
<1> DEFINE S == {s \in Seq(X) : Only(s, K) \in Seq(X)}
<1>1. << >> \in S
  <2>1. << >> \in Seq(X)
    OBVIOUS
  <2> QED BY <2>1, OnlyEmpty
<1>2. ASSUME NEW s \in Seq(X), NEW x \in X, s \in S PROVE Append(s, x) \in S
  <2>1. Only(s, K) \in Seq(X) /\ Append(s, x) \in Seq(X)
    BY <1>2
  <2> QED BY <2>1, OnlyAppend
<1> HIDE DEF S
<1>3. Seq(X) \subseteq S
  BY <1>1, <1>2, SeqInSet
<1> QED BY <1>3 DEF S

LEMMA OnlyKinds == ASSUME NEW X, NEW K
                   PROVE  \A s \in Seq(X) : \A i \in 1 .. Len(Only(s, K)) : Only(s, K)[i].kind \in K
<1> DEFINE S == {s \in Seq(X) : \A i \in 1 .. Len(Only(s, K)) : Only(s, K)[i].kind \in K}
<1>1. << >> \in S
  BY OnlyEmpty
<1>2. ASSUME NEW s \in Seq(X), NEW x \in X, s \in S PROVE Append(s, x) \in S
  <2>1. Only(s, K) \in Seq(X) /\ Append(s, x) \in Seq(X)
    BY OnlyType
  <2>2. Only(Append(s, x), K) = IF x.kind \in K THEN Append(Only(s, K), x) ELSE Only(s, K)
    BY OnlyAppend
  <2> QED BY <1>2, <2>1, <2>2
<1> HIDE DEF S
<1>3. Seq(X) \subseteq S
  BY <1>1, <1>2, SeqInSet
<1> QED BY <1>3 DEF S

LEMMA OnlyConcat == ASSUME NEW X, NEW K, NEW s \in Seq(X)
                    PROVE  \A t \in Seq(X) : Only(s \o t, K) = Only(s, K) \o Only(t, K)
<1> DEFINE S == {t \in Seq(X) : Only(s \o t, K) = Only(s, K) \o Only(t, K)}
<1>1. << >> \in S
  <2>1. s \o << >> = s /\ Only(s, K) \in Seq(X)
    BY OnlyType
  <2> QED BY <2>1, OnlyEmpty
<1>2. ASSUME NEW t \in Seq(X), NEW x \in X, t \in S PROVE Append(t, x) \in S
  <2>1. s \o Append(t, x) = Append(s \o t, x) /\ s \o t \in Seq(X)
    OBVIOUS
  <2>2. Only(s, K) \in Seq(X) /\ Only(t, K) \in Seq(X)
    BY OnlyType
  <2>3. Only(s \o t, K) = Only(s, K) \o Only(t, K)
    BY <1>2
  <2>4. Only(Append(s \o t, x), K) = IF x.kind \in K THEN Append(Only(s \o t, K), x) ELSE Only(s \o t, K)
    BY <2>1, OnlyAppend, ZenonT(30)
  <2>5. Only(Append(t, x), K) = IF x.kind \in K THEN Append(Only(t, K), x) ELSE Only(t, K)
    BY OnlyAppend
  <2>6. Append(Only(s, K) \o Only(t, K), x) = Only(s, K) \o Append(Only(t, K), x)
    <3> DEFINE a == Only(s, K)
               b == Only(t, K)
    <3>1. a \in Seq(X) /\ b \in Seq(X) /\ x \in X
      BY <2>2
    <3> HIDE DEF a, b
    <3>2. a \o Append(b, x) = Append(a \o b, x)
      BY <3>1, AppendConcat
    <3> QED BY <3>2 DEF a, b
  <2>7. Append(t, x) \in Seq(X)
    OBVIOUS
  <2> QED BY <2>1, <2>3, <2>4, <2>5, <2>6, <2>7
<1> HIDE DEF S
<1>3. Seq(X) \subseteq S
  BY <1>1, <1>2, SeqInSet
<1> QED BY <1>3 DEF S

-----------------------------------------------------------------------------
(* Frames in a queue.                                                      *)

FramesAt(q) == {i \in 1 .. Len(q) : IsFrame(q[i].kind)}
Frames(q) == Cardinality(FramesAt(q))

LEMMA FramesFinite == ASSUME NEW X, NEW q \in Seq(X)
                      PROVE  IsFiniteSet(FramesAt(q)) /\ Frames(q) \in Nat
<1>1. IsFiniteSet(1 .. Len(q))
  BY FS_Interval
<1>2. FramesAt(q) \subseteq 1 .. Len(q)
  BY DEF FramesAt
<1> QED BY <1>1, <1>2, FS_Subset, FS_CardinalityType DEF Frames

LEMMA FramesEmpty == Frames(<< >>) = 0
<1>1. FramesAt(<< >>) = {}
  BY DEF FramesAt
<1> QED BY <1>1, FS_EmptySet DEF Frames

LEMMA FramesAppend == ASSUME NEW X, NEW q \in Seq(X), NEW x \in X
                      PROVE  Frames(Append(q, x)) = Frames(q) + (IF IsFrame(x.kind) THEN 1 ELSE 0)
<1> DEFINE n == Len(q) + 1
<1>1. Len(Append(q, x)) = n /\ Append(q, x)[n] = x /\ (\A i \in 1 .. Len(q) : Append(q, x)[i] = q[i])
  OBVIOUS
<1>2. n \notin FramesAt(q)
  BY DEF FramesAt
<1>3. IsFiniteSet(FramesAt(q)) /\ Frames(q) \in Nat
  BY FramesFinite
<1>4. CASE IsFrame(x.kind)
  <2>1. FramesAt(Append(q, x)) = FramesAt(q) \cup {n}
    BY <1>1, <1>4 DEF FramesAt
  <2> QED BY <2>1, <1>2, <1>3, <1>4, FS_AddElement DEF Frames
<1>5. CASE ~IsFrame(x.kind)
  <2>1. FramesAt(Append(q, x)) = FramesAt(q)
    BY <1>1, <1>5 DEF FramesAt
  <2> QED BY <2>1, <1>3, <1>5 DEF Frames
<1> QED BY <1>4, <1>5

LEMMA FramesConcat == ASSUME NEW X, NEW s \in Seq(X)
                      PROVE  \A t \in Seq(X) : Frames(s \o t) = Frames(s) + Frames(t)
<1> DEFINE S == {t \in Seq(X) : Frames(s \o t) = Frames(s) + Frames(t)}
<1>1. << >> \in S
  <2>1. s \o << >> = s /\ Frames(s) \in Nat
    BY FramesFinite
  <2> QED BY <2>1, FramesEmpty
<1>2. ASSUME NEW t \in Seq(X), NEW x \in X, t \in S PROVE Append(t, x) \in S
  <2>1. s \o Append(t, x) = Append(s \o t, x) /\ s \o t \in Seq(X) /\ Append(t, x) \in Seq(X)
    OBVIOUS
  <2>2. Frames(s) \in Nat /\ Frames(t) \in Nat /\ Frames(s \o t) = Frames(s) + Frames(t)
    BY FramesFinite, <1>2
  <2> DEFINE d == IF IsFrame(x.kind) THEN 1 ELSE 0
  <2>3. Frames(Append(s \o t, x)) = Frames(s \o t) + d
    BY <2>1, FramesAppend
  <2>4. Frames(Append(t, x)) = Frames(t) + d
    BY FramesAppend
  <2>5. d \in Nat
    OBVIOUS
  <2> HIDE DEF d
  <2>6. Frames(s \o Append(t, x)) = Frames(s) + Frames(Append(t, x))
    BY <2>1, <2>2, <2>3, <2>4, <2>5
  <2> QED BY <2>1, <2>6
<1> HIDE DEF S
<1>3. Seq(X) \subseteq S
  BY <1>1, <1>2, SeqInSet
<1> QED BY <1>3 DEF S

LEMMA FramesTake == ASSUME NEW X, NEW q \in Seq(X), q # << >>
                    PROVE  Frames(q) = (IF IsFrame(Head(q).kind) THEN 1 ELSE 0) + Frames(Tail(q))
<1>1. q = <<Head(q)>> \o Tail(q) /\ Head(q) \in X /\ Tail(q) \in Seq(X)
  OBVIOUS
<1>2. <<Head(q)>> \in Seq(X) /\ <<Head(q)>> = Append(<< >>, Head(q)) /\ << >> \in Seq(X)
  BY <1>1
<1>3. Frames(<<Head(q)>>) = IF IsFrame(Head(q).kind) THEN 1 ELSE 0
  <2>1. Frames(Append(<< >>, Head(q))) = Frames(<< >>) + (IF IsFrame(Head(q).kind) THEN 1 ELSE 0)
    BY <1>1, <1>2, FramesAppend
  <2> QED BY <2>1, <1>2, FramesEmpty
<1>4. Frames(<<Head(q)>> \o Tail(q)) = Frames(<<Head(q)>>) + Frames(Tail(q))
  BY <1>1, <1>2, FramesConcat
<1> QED BY <1>1, <1>3, <1>4

(* dropqueue(1) drops no frame. *)
LEMMA FramesStay == ASSUME NEW X, NEW K, \A k : IsFrame(k) => k \in K
                    PROVE  \A q \in Seq(X) : Frames(Only(q, K)) = Frames(q)
<1> DEFINE S == {q \in Seq(X) : Frames(Only(q, K)) = Frames(q)}
<1>1. << >> \in S
  BY OnlyEmpty
<1>2. ASSUME NEW q \in Seq(X), NEW x \in X, q \in S PROVE Append(q, x) \in S
  <2>1. Only(q, K) \in Seq(X) /\ Append(q, x) \in Seq(X) /\ Frames(Only(q, K)) = Frames(q)
    BY OnlyType, <1>2
  <2>2. Only(Append(q, x), K) = IF x.kind \in K THEN Append(Only(q, K), x) ELSE Only(q, K)
    BY OnlyAppend
  <2>3. Frames(Append(Only(q, K), x)) = Frames(Only(q, K)) + (IF IsFrame(x.kind) THEN 1 ELSE 0)
    BY <2>1, FramesAppend
  <2>4. Frames(Append(q, x)) = Frames(q) + (IF IsFrame(x.kind) THEN 1 ELSE 0)
    BY FramesAppend
  <2>5. Frames(q) \in Nat
    BY FramesFinite
  <2>6. CASE x.kind \in K
    BY <2>1, <2>2, <2>3, <2>4, <2>6
  <2>7. CASE x.kind \notin K
    BY <2>1, <2>2, <2>4, <2>5, <2>7
  <2> QED BY <2>6, <2>7
<1> HIDE DEF S
<1>3. Seq(X) \subseteq S
  BY <1>1, <1>2, SeqInSet
<1> QED BY <1>3 DEF S

-----------------------------------------------------------------------------
(* Types, and the count of frames.                                         *)

MainTypes ==
  /\ mode \in Modes /\ anim \in Anims /\ syncwrite \in Syncs
  /\ page \in Pages
  /\ gifpages \in Seq(Pages) /\ Len(gifpages) <= AnimMax
  /\ pc \in PCs /\ then \in PCs /\ ret \in {"gap", "pull"}
  /\ todo \in Seq(Jobs)

MainFlags ==
  /\ dirty \in BOOLEAN /\ drawn \in BOOLEAN /\ dblmode \in BOOLEAN /\ backdrawn \in BOOLEAN
  /\ intr \in BOOLEAN /\ sig \in BOOLEAN /\ posted \in BOOLEAN /\ show \in BOOLEAN
  /\ quitting \in BOOLEAN /\ stopping \in BOOLEAN /\ struck \in BOOLEAN
  /\ excused \in BOOLEAN

WorkTypes ==
  /\ gif \in Seq(Pages)
  /\ wpc \in WPCs /\ wjob \in Jobs
  /\ lastpic \in Pics /\ screen \in Pics /\ after \in 0 .. 3
  /\ fresh \in BOOLEAN /\ hidden \in BOOLEAN /\ panehidden \in BOOLEAN /\ fits \in BOOLEAN
  /\ redrawn \in BOOLEAN
  /\ wpc = "write" => wjob.kind \in Pictures

QueueTypes ==
  /\ queue \in Seq(Jobs)
  /\ qframes \in 0 .. FrameQ
  /\ qframes = Frames(queue)

(* There is something to post while posting, and nothing else.             *)
TodoInv ==
  /\ pc \in {"post", "lock"} => todo # << >>
  /\ pc \notin {"post", "lock", "sync"} => todo = << >>
  /\ then \notin {"post", "lock", "sync"}

TermInv == MainTypes /\ MainFlags /\ WorkTypes /\ QueueTypes /\ TodoInv

LEMMA TermInvTypes == TermInv => TypeOK /\ FramesCounted
<1> SUFFICES ASSUME TermInv PROVE TypeOK /\ FramesCounted
  OBVIOUS
<1>1. FramesCounted
  BY DEF TermInv, QueueTypes, FramesCounted, Frames, FramesAt
<1>2. {dirty, drawn, dblmode, backdrawn, intr, sig, posted, show, fresh, quitting,
      stopping, hidden, panehidden, fits, redrawn, struck, excused} \subseteq BOOLEAN
  BY DEF TermInv, MainFlags, WorkTypes
<1>3. TypeOK
  BY <1>2 DEF TermInv, MainTypes, WorkTypes, QueueTypes, TypeOK
<1> QED BY <1>1, <1>3

LEMMA NoJobOK == NoJob \in Jobs
  BY TermAssumption DEF NoJob, Jobs, Kinds, Pages

LEMMA NoPicOK == NoPic \in Pics
  BY TermAssumption DEF NoPic, Pics, Pages

LEMMA JobOK == ASSUME MainTypes, NEW k \in Kinds, NEW p \in Pages PROVE Job(k, p) \in Jobs /\ Job(k, p).kind = k /\ Job(k, p).page = p
<1>1. (IF k = "gifend" THEN gifpages ELSE << >>) \in Seq(Pages)
  BY DEF MainTypes
<1>2. (k = "gifframe" /\ gifpages = << >>) \in BOOLEAN
  OBVIOUS
<1> QED BY <1>1, <1>2 DEF Job, Jobs

LEMMA TermInvInit == Init => TermInv
<1> SUFFICES ASSUME Init PROVE TermInv
  OBVIOUS
<1>1. MainFlags
  BY TermAssumption DEF Init, MainFlags
<1>2. MainTypes
  <2>1. << >> \in Seq(Pages) /\ << >> \in Seq(Jobs) /\ Len(<< >>) <= AnimMax /\ 0 \in Pages
    BY TermAssumption DEF Pages
  <2> QED BY <2>1 DEF Init, MainTypes, PCs
<1>5. WorkTypes
  <2>1. << >> \in Seq(Pages) /\ wjob \in Jobs /\ lastpic \in Pics /\ screen \in Pics
    BY NoJobOK, NoPicOK DEF Init
  <2>2. gif = << >> /\ wpc = "idle" /\ after = 0
    BY DEF Init
  <2>3. /\ fresh \in BOOLEAN /\ hidden \in BOOLEAN /\ panehidden \in BOOLEAN
        /\ fits \in BOOLEAN /\ redrawn \in BOOLEAN
    BY DEF Init
  <2> QED BY <2>1, <2>2, <2>3 DEF WorkTypes, WPCs
<1>3. QueueTypes
  BY FramesEmpty, TermAssumption DEF Init, QueueTypes
<1>4. TodoInv
  BY DEF Init, TodoInv
<1> QED BY <1>1, <1>2, <1>3, <1>4, <1>5 DEF TermInv

LEMMA TodoTail == ASSUME MainTypes, todo # << >>
                 PROVE  Tail(todo) \in Seq(Jobs) /\ Head(todo) \in Jobs
  BY DEF MainTypes

LEMMA WLookTypes == ASSUME TermInv, WLook PROVE TermInv'
<1> USE DEF TermInv
<1>1. MainTypes' /\ MainFlags' /\ QueueTypes' /\ TodoInv'
  BY DEF MainTypes, MainFlags, QueueTypes, TodoInv, WLook, envvars, pagevars, postvars, histvars, panevars, mainvars
<1>2. gif' \in Seq(Pages)
  <2>1. wjob.page \in Pages /\ gif \in Seq(Pages) /\ << >> \in Seq(Pages)
    BY DEF WorkTypes, Jobs
  <2>2. (IF wjob.first THEN << >> ELSE gif) \in Seq(Pages)
    BY <2>1
  <2>3. Append(IF wjob.first THEN << >> ELSE gif, wjob.page) \in Seq(Pages)
    BY <2>1, <2>2
  <2> QED BY <2>1, <2>3 DEF WLook
<1>3. wpc' \in {"finish", "write"} /\ (wpc' = "write" => wjob.kind \in Pictures)
  BY DEF WLook, Pictures
<1>4. WorkTypes'
  BY <1>2, <1>3 DEF WLook, WorkTypes, WPCs, panevars
<1> QED BY <1>1, <1>4

LEMMA WPublishTypes == ASSUME TermInv, WPublish PROVE TermInv'
<1> USE DEF TermInv
<1>1. MainTypes' /\ MainFlags' /\ QueueTypes' /\ TodoInv'
  BY DEF MainTypes, MainFlags, QueueTypes, TodoInv, WPublish, envvars, pagevars, postvars, histvars, panevars, mainvars
<1>2. gif' \in Seq(Pages) /\ (IF wjob.kind = "gifend" THEN gif ELSE << >>) \in Seq(Pages)
  BY DEF WPublish, WorkTypes
<1>3. lastpic' \in Pics
  BY <1>2 DEF WPublish, WorkTypes, Pics, Jobs
<1>4. after' \in 0 .. 3
  BY DEF WPublish, WorkTypes
<1>5. WorkTypes'
  BY <1>2, <1>3, <1>4 DEF WPublish, WorkTypes, WPCs, panevars
<1> QED BY <1>1, <1>5

LEMMA InQueue == ASSUME QueueTypes, queue # << >>
                 PROVE  /\ Head(queue) \in Jobs /\ Tail(queue) \in Seq(Jobs)
                        /\ (IF IsFrame(Head(queue).kind) THEN qframes - 1 ELSE qframes) \in 0 .. FrameQ
                        /\ (IF IsFrame(Head(queue).kind) THEN qframes - 1 ELSE qframes) = Frames(Tail(queue))
<1>1. Head(queue) \in Jobs /\ Tail(queue) \in Seq(Jobs)
  BY DEF QueueTypes
<1>2. Frames(queue) = (IF IsFrame(Head(queue).kind) THEN 1 ELSE 0) + Frames(Tail(queue))
  BY FramesTake DEF QueueTypes
<1>3. Frames(Tail(queue)) \in Nat
  BY <1>1, FramesFinite
<1> QED BY <1>1, <1>2, <1>3, TermAssumption DEF QueueTypes

LEMMA WTakeTypes == ASSUME TermInv, WTake PROVE TermInv'
<1> USE DEF TermInv
<1>1. MainTypes' /\ MainFlags' /\ TodoInv'
  BY DEF MainTypes, MainFlags, TodoInv, WTake, envvars, pagevars, postvars, histvars, panevars, mainvars
<1>2. QueueTypes'
  BY InQueue DEF WTake, QueueTypes
<1>3. WorkTypes'
  BY InQueue DEF WTake, WorkTypes, WPCs, panevars
<1> QED BY <1>1, <1>2, <1>3

LEMMA SupersededType == ASSUME QueueTypes, NEW j
                        PROVE  Superseded(j) \in Seq(Jobs) /\ Frames(Superseded(j)) = qframes
<1>1. \A k : IsFrame(k) => k \in Kinds \ {"still"}
  BY DEF IsFrame, Kinds
<1>2. queue \in Seq(Jobs) /\ qframes = Frames(queue)
  BY DEF QueueTypes
<1>3. Only(queue, Kinds \ {"still"}) \in Seq(Jobs)
  BY <1>2, OnlyType
<1>4. Frames(Only(queue, Kinds \ {"still"})) = Frames(queue)
  BY <1>1, <1>2, FramesStay
<1> QED BY <1>2, <1>3, <1>4 DEF Superseded

LEMMA PostLockedTypes == ASSUME TermInv, PostLocked PROVE TermInv'
<1> USE DEF TermInv
<1> DEFINE j == Head(todo)
           stop == intr /\ j.kind # "gifdrop"
<1>1. todo # << >> /\ j \in Jobs /\ Tail(todo) \in Seq(Jobs) /\ pc = "lock"
  BY TodoTail DEF TodoInv, PostLocked
<1>2. MainFlags' /\ WorkTypes'
  BY DEF MainFlags, WorkTypes, PostLocked, envvars, pagevars, histvars, panevars, workvars
<1>3. /\ todo' = Tail(todo) /\ then' = then
      /\ pc' \in {"sync", "post", then}
      /\ pc' = "post" => Tail(todo) # << >>
      /\ pc' = then => pc' = "sync" \/ Tail(todo) = << >>
  BY <1>1 DEF PostLocked, Posted, PostThen, TodoInv
<1>4. MainTypes'
  BY <1>1, <1>3 DEF MainTypes, PCs, PostLocked, envvars, pagevars
<1>5. TodoInv'
  BY <1>1, <1>3 DEF TodoInv
<1>6. QueueTypes'
  <2>1. Superseded(j) \in Seq(Jobs) /\ Frames(Superseded(j)) = qframes /\ qframes \in 0 .. FrameQ
    BY SupersededType DEF QueueTypes
  <2>2. CASE stop
    <3>1. queue' = Superseded(j) /\ qframes' = qframes
      BY <2>2 DEF PostLocked
    <3> QED BY <2>1, <3>1 DEF QueueTypes
  <2>3. CASE ~stop
    <3>1. queue' = Append(Superseded(j), j)
      BY <2>3 DEF PostLocked
    <3>2. qframes' = IF IsFrame(j.kind) THEN qframes + 1 ELSE qframes
      BY <2>3 DEF PostLocked
    <3>3. IsFrame(j.kind) => qframes < FrameQ
      BY <2>3 DEF PostLocked, IsFrame
    <3>4. Append(Superseded(j), j) \in Seq(Jobs)
      BY <2>1, <1>1
    <3>5. Frames(Append(Superseded(j), j)) = qframes'
      <4>1. Frames(Append(Superseded(j), j)) = Frames(Superseded(j)) + (IF IsFrame(j.kind) THEN 1 ELSE 0)
        BY <1>1, <2>1, FramesAppend
      <4>2. CASE IsFrame(j.kind)
        BY <4>1, <4>2, <3>2, <2>1
      <4>3. CASE ~IsFrame(j.kind)
        BY <4>1, <4>3, <3>2, <2>1
      <4> QED BY <4>2, <4>3
    <3>6. qframes' \in 0 .. FrameQ
      BY <3>2, <3>3, <2>1, TermAssumption
    <3> QED BY <3>1, <3>4, <3>5, <3>6 DEF QueueTypes
  <2> QED BY <2>2, <2>3
<1> QED BY <1>2, <1>4, <1>5, <1>6

LEMMA FrameJobsType == ASSUME MainTypes, NEW p \in Pages, NEW swapped \in BOOLEAN
                       PROVE  FrameJobs(p, swapped) \in Seq(Jobs)
<1>1. Job("gifframe", p) \in Jobs /\ Job("frame", p) \in Jobs
  BY JobOK DEF Kinds
<1> DEFINE a == IF anim = "gif" /\ swapped /\ Len(gifpages) < AnimMax THEN <<Job("gifframe", p)>> ELSE << >>
           b == IF anim # "off" /\ mode # "inline" THEN <<Job("frame", p)>> ELSE << >>
<1>2. a \in Seq(Jobs)
  BY <1>1
<1>3. b \in Seq(Jobs)
  BY <1>1
<1>4. FrameJobs(p, swapped) = a \o b
  BY DEF FrameJobs
<1> HIDE DEF a, b
<1>5. a \o b \in Seq(Jobs)
  BY <1>2, <1>3
<1> QED BY <1>4, <1>5

(* What PostThen leaves is right to post from.                             *)
LEMMA PostThenRight == ASSUME NEW s \in Seq(Jobs), NEW where \in PCs \ {"post", "lock", "sync"},
                              PostThen(s, where)
                       PROVE  /\ TodoInv'
                              /\ todo' \in Seq(Jobs) /\ then' \in PCs /\ pc' \in PCs
  BY DEF PostThen, TodoInv, PCs

LEMMA BlankTypes == ASSUME TermInv, NEW dbl \in BOOLEAN, Blank(dbl) PROVE TermInv'
<1> USE DEF TermInv
<1>1. WorkTypes' /\ QueueTypes'
  BY DEF Blank, WorkTypes, QueueTypes, quiet, envvars, workvars, panevars
<1>2. page \in Pages /\ page' \in Pages
  BY TermAssumption DEF MainTypes, Blank, NewPage, Pages
<1> DEFINE s == IF dirty /\ drawn /\ ~intr THEN FrameJobs(page, FALSE) ELSE << >>
<1>3. s \in Seq(Jobs)
  <2>1. FrameJobs(page, FALSE) \in Seq(Jobs)
    BY <1>2, FrameJobsType, Zenon
  <2>2. << >> \in Seq(Jobs)
    OBVIOUS
  <2> QED BY <2>1, <2>2
<1>4. PostThen(s, "command")
  BY DEF Blank
<1>5. TodoInv' /\ todo' \in Seq(Jobs) /\ then' \in PCs /\ pc' \in PCs
  <2> HIDE DEF s
  <2> QED BY <1>3, <1>4, PostThenRight DEF PCs
<1>6. MainTypes'
  BY <1>2, <1>5 DEF MainTypes, Blank, quiet, envvars
<1>7. MainFlags'
  BY DEF MainFlags, Blank, quiet, envvars, NewPage
<1> QED BY <1>1, <1>5, <1>6, <1>7

LEMMA SwapFrameTypes == ASSUME TermInv, SwapFrame PROVE TermInv'
<1> USE DEF TermInv
<1>1. WorkTypes' /\ QueueTypes'
  BY DEF SwapFrame, WorkTypes, QueueTypes, quiet, envvars, workvars, panevars
<1>2. page \in Pages /\ page' \in Pages /\ page + 1 \in Pages
  BY TermAssumption DEF MainTypes, SwapFrame, NewPage, Pages
<1> DEFINE s == IF intr THEN << >> ELSE FrameJobs(page + 1, TRUE)
           has(k) == \E i \in 1 .. Len(s) : s[i].kind = k
<1>3. s \in Seq(Jobs)
  <2>1. FrameJobs(page + 1, TRUE) \in Seq(Jobs)
    BY <1>2, FrameJobsType, Zenon
  <2>2. << >> \in Seq(Jobs)
    OBVIOUS
  <2> QED BY <2>1, <2>2
<1>4. /\ PostThen(s, "command")
      /\ dirty' = ~has("frame")
      /\ gifpages' = IF has("gifframe") THEN Append(gifpages, page + 1) ELSE gifpages
  BY DEF SwapFrame
<1>5. TodoInv' /\ todo' \in Seq(Jobs) /\ then' \in PCs /\ pc' \in PCs
  <2> HIDE DEF s, has
  <2> QED BY <1>3, <1>4, PostThenRight DEF PCs
<1>6. has("gifframe") => Len(gifpages) < AnimMax
  <2> SUFFICES ASSUME ~(Len(gifpages) < AnimMax), has("gifframe") PROVE FALSE
    OBVIOUS
  <2>1. s = << >> \/ s = << >> \o << >> \/ s = << >> \o <<Job("frame", page + 1)>>
    BY DEF FrameJobs
  <2> DEFINE f == Job("frame", page + 1)
  <2>2. f.kind = "frame"
    BY DEF Job
  <2>3. PICK i \in 1 .. Len(s) : s[i].kind = "gifframe"
    OBVIOUS
  <2> HIDE DEF s, has, f
  <2>4. << >> \o << >> = << >> /\ << >> \o <<f>> = <<f>>
    OBVIOUS
  <2>5. s = << >> \/ s = <<f>>
    BY <2>1, <2>4 DEF f
  <2> QED BY <2>2, <2>3, <2>5
<1>7. gifpages' \in Seq(Pages) /\ Len(gifpages') <= AnimMax
  <2> HIDE DEF has
  <2> QED BY <1>2, <1>4, <1>6, TermAssumption DEF MainTypes
<1>8. MainTypes'
  BY <1>2, <1>5, <1>7 DEF MainTypes, SwapFrame, quiet, envvars
<1>9. dirty' \in BOOLEAN
  BY <1>4
<1>10. MainFlags'
  BY <1>9 DEF MainFlags, SwapFrame, quiet, envvars, NewPage
<1> QED BY <1>1, <1>5, <1>8, <1>10

(* What gxdidle posts.                                                     *)
LEMMA IdleJobs == ASSUME MainTypes, NEW worth \in BOOLEAN
                  PROVE  (IF Len(gifpages) >= 2 THEN <<Job("gifend", page)>>
                          ELSE (IF gifpages # << >> THEN <<Job("gifdrop", page)>> ELSE << >>)
                               \o (IF worth THEN <<Job("still", page)>> ELSE << >>)) \in Seq(Jobs)
<1>1. Job("gifend", page) \in Jobs /\ Job("gifdrop", page) \in Jobs /\ Job("still", page) \in Jobs
  BY JobOK DEF Kinds, MainTypes
<1> DEFINE a == IF gifpages # << >> THEN <<Job("gifdrop", page)>> ELSE << >>
           b == IF worth THEN <<Job("still", page)>> ELSE << >>
<1>2. a \in Seq(Jobs)
  BY <1>1
<1>3. b \in Seq(Jobs)
  BY <1>1
<1>4. a \o b \in Seq(Jobs)
  <2> HIDE DEF a, b
  <2> QED BY <1>2, <1>3
<1> QED BY <1>1, <1>4

LEMMA IdleShowTypes == ASSUME TermInv, IdleShow PROVE TermInv'
<1> USE DEF TermInv
<1> DEFINE worth == dirty /\ (drawn \/ mode = "file" \/ (mode = "tmux" /\ posted))
           s == IF Len(gifpages) >= 2 THEN <<Job("gifend", page)>>
                ELSE (IF gifpages # << >> THEN <<Job("gifdrop", page)>> ELSE << >>)
                     \o (IF worth THEN <<Job("still", page)>> ELSE << >>)
<1>1. WorkTypes'
  BY DEF IdleShow, WorkTypes, envvars, workvars, panevars
<1>2. QueueTypes'
  BY DEF IdleShow, QueueTypes
<1>3. s \in Seq(Jobs)
  <2>1. worth \in BOOLEAN
    BY DEF MainFlags
  <2> HIDE DEF worth
  <2> QED BY <2>1, IdleJobs
<1>4. PostThen(s, "show")
  BY DEF IdleShow
<1>5. TodoInv' /\ todo' \in Seq(Jobs) /\ then' \in PCs /\ pc' \in PCs
  <2> HIDE DEF s
  <2> QED BY <1>3, <1>4, PostThenRight DEF PCs
<1>6. << >> \in Seq(Pages) /\ Len(<< >>) <= AnimMax
  BY TermAssumption
<1>7. MainTypes'
  BY <1>5, <1>6 DEF MainTypes, IdleShow, envvars
<1>8. MainFlags'
  BY DEF MainFlags, IdleShow, envvars, histvars
<1> QED BY <1>1, <1>2, <1>5, <1>7, <1>8

LEMMA IdleForgetTypes == ASSUME TermInv, IdleForget PROVE TermInv'
<1> USE DEF TermInv
<1> DEFINE s == IF gifpages # << >> THEN <<Job("gifdrop", page)>> ELSE << >>
<1>1. WorkTypes' /\ QueueTypes'
  BY DEF IdleForget, WorkTypes, QueueTypes, envvars, workvars, panevars
<1>2. Job("gifdrop", page) \in Jobs
  BY JobOK DEF Kinds, MainTypes
<1>3. s \in Seq(Jobs)
  BY <1>2
<1>4. PostThen(s, ret)
  BY DEF IdleForget
<1>5. TodoInv' /\ todo' \in Seq(Jobs) /\ then' \in PCs /\ pc' \in PCs
  <2> HIDE DEF s
  <2>1. ret \in PCs \ {"post", "lock", "sync"}
    BY DEF MainTypes, PCs
  <2> QED BY <1>3, <1>4, <2>1, PostThenRight
<1>6. << >> \in Seq(Pages) /\ Len(<< >>) <= AnimMax
  BY TermAssumption
<1>7. MainTypes'
  BY <1>5, <1>6 DEF MainTypes, IdleForget, envvars
<1>8. MainFlags'
  BY DEF MainFlags, IdleForget, envvars, histvars
<1> QED BY <1>1, <1>5, <1>7, <1>8

LEMMA DrawTypes == ASSUME TermInv, Draw PROVE TermInv'
<1> USE DEF TermInv
<1>1. MainTypes'
  BY TermAssumption DEF MainTypes, Draw, envvars, pagevars, postvars, panevars, workvars, histvars, quiet, mainvars, PCs, NewPage, Pages
<1>2. MainFlags'
  BY DEF MainFlags, Draw, envvars, pagevars, postvars, panevars, workvars, histvars, quiet, mainvars, NewPage
<1>3. WorkTypes'
  BY DEF WorkTypes, Draw, envvars, pagevars, postvars, panevars, workvars, histvars, quiet, mainvars, NewPage
<1>4. QueueTypes'
  BY DEF QueueTypes, Draw, envvars, pagevars, postvars, panevars, workvars, histvars, quiet, mainvars, NewPage
<1>5. TodoInv'
  BY DEF TodoInv, Draw, envvars, pagevars, postvars, panevars, workvars, histvars, quiet, mainvars
<1> QED BY <1>1, <1>2, <1>3, <1>4, <1>5

LEMMA SetXsizeTypes == ASSUME TermInv, SetXsize PROVE TermInv'
<1> USE DEF TermInv
<1>1. MainTypes'
  BY TermAssumption DEF MainTypes, SetXsize, envvars, pagevars, postvars, panevars, workvars, histvars, quiet, mainvars, PCs, NewPage, Pages
<1>2. MainFlags'
  BY DEF MainFlags, SetXsize, envvars, pagevars, postvars, panevars, workvars, histvars, quiet, mainvars, NewPage
<1>3. WorkTypes'
  BY DEF WorkTypes, SetXsize, envvars, pagevars, postvars, panevars, workvars, histvars, quiet, mainvars, NewPage
<1>4. QueueTypes'
  BY DEF QueueTypes, SetXsize, envvars, pagevars, postvars, panevars, workvars, histvars, quiet, mainvars, NewPage
<1>5. TodoInv'
  BY DEF TodoInv, SetXsize, envvars, pagevars, postvars, panevars, workvars, histvars, quiet, mainvars
<1> QED BY <1>1, <1>2, <1>3, <1>4, <1>5

LEMMA PullTypes == ASSUME TermInv, Pull PROVE TermInv'
<1> USE DEF TermInv
<1>1. MainTypes'
  BY TermAssumption DEF MainTypes, Pull, envvars, pagevars, postvars, panevars, workvars, histvars, quiet, mainvars, PCs, NewPage, Pages
<1>2. MainFlags'
  BY DEF MainFlags, Pull, envvars, pagevars, postvars, panevars, workvars, histvars, quiet, mainvars, NewPage
<1>3. WorkTypes'
  BY DEF WorkTypes, Pull, envvars, pagevars, postvars, panevars, workvars, histvars, quiet, mainvars, NewPage
<1>4. QueueTypes'
  BY DEF QueueTypes, Pull, envvars, pagevars, postvars, panevars, workvars, histvars, quiet, mainvars, NewPage
<1>5. TodoInv'
  BY DEF TodoInv, Pull, envvars, pagevars, postvars, panevars, workvars, histvars, quiet, mainvars
<1> QED BY <1>1, <1>2, <1>3, <1>4, <1>5

LEMMA QuitTypes == ASSUME TermInv, Quit PROVE TermInv'
<1> USE DEF TermInv
<1>1. MainTypes'
  BY TermAssumption DEF MainTypes, Quit, envvars, pagevars, postvars, panevars, workvars, histvars, quiet, mainvars, PCs, NewPage, Pages
<1>2. MainFlags'
  BY DEF MainFlags, Quit, envvars, pagevars, postvars, panevars, workvars, histvars, quiet, mainvars, NewPage
<1>3. WorkTypes'
  BY DEF WorkTypes, Quit, envvars, pagevars, postvars, panevars, workvars, histvars, quiet, mainvars, NewPage
<1>4. QueueTypes'
  BY DEF QueueTypes, Quit, envvars, pagevars, postvars, panevars, workvars, histvars, quiet, mainvars, NewPage
<1>5. TodoInv'
  BY DEF TodoInv, Quit, envvars, pagevars, postvars, panevars, workvars, histvars, quiet, mainvars
<1> QED BY <1>1, <1>2, <1>3, <1>4, <1>5

LEMMA StopTypes == ASSUME TermInv, Stop PROVE TermInv'
<1> USE DEF TermInv
<1>1. MainTypes'
  BY TermAssumption DEF MainTypes, Stop, envvars, pagevars, postvars, panevars, workvars, histvars, quiet, mainvars, PCs, NewPage, Pages
<1>2. MainFlags'
  BY DEF MainFlags, Stop, envvars, pagevars, postvars, panevars, workvars, histvars, quiet, mainvars, NewPage
<1>3. WorkTypes'
  BY DEF WorkTypes, Stop, envvars, pagevars, postvars, panevars, workvars, histvars, quiet, mainvars, NewPage
<1>4. QueueTypes'
  BY DEF QueueTypes, Stop, envvars, pagevars, postvars, panevars, workvars, histvars, quiet, mainvars, NewPage
<1>5. TodoInv'
  BY DEF TodoInv, Stop, envvars, pagevars, postvars, panevars, workvars, histvars, quiet, mainvars
<1> QED BY <1>1, <1>2, <1>3, <1>4, <1>5

LEMMA AnswerTypes == ASSUME TermInv, Answer PROVE TermInv'
<1> USE DEF TermInv
<1>1. MainTypes'
  BY DEF MainTypes, Answer, envvars, pagevars, postvars, panevars, workvars, histvars, quiet, mainvars, Goto, PCs
<1>2. MainFlags'
  BY DEF MainFlags, Answer, envvars, pagevars, postvars, panevars, workvars, histvars, quiet, mainvars, Goto
<1>3. WorkTypes'
  BY DEF WorkTypes, Answer, envvars, pagevars, postvars, panevars, workvars, histvars, quiet, mainvars, Goto
<1>4. QueueTypes'
  BY DEF QueueTypes, Answer, envvars, pagevars, postvars, panevars, workvars, histvars, quiet, mainvars, Goto
<1>5. TodoInv'
  BY DEF TodoInv, Answer, envvars, pagevars, postvars, panevars, workvars, histvars, quiet, mainvars, Goto
<1> QED BY <1>1, <1>2, <1>3, <1>4, <1>5

LEMMA EndCommandTypes == ASSUME TermInv, EndCommand PROVE TermInv'
<1> USE DEF TermInv
<1>1. MainTypes'
  BY DEF MainTypes, EndCommand, envvars, pagevars, postvars, panevars, workvars, histvars, quiet, mainvars, Goto, PCs
<1>2. MainFlags'
  BY DEF MainFlags, EndCommand, envvars, pagevars, postvars, panevars, workvars, histvars, quiet, mainvars, Goto
<1>3. WorkTypes'
  BY DEF WorkTypes, EndCommand, envvars, pagevars, postvars, panevars, workvars, histvars, quiet, mainvars, Goto
<1>4. QueueTypes'
  BY DEF QueueTypes, EndCommand, envvars, pagevars, postvars, panevars, workvars, histvars, quiet, mainvars, Goto
<1>5. TodoInv'
  BY DEF TodoInv, EndCommand, envvars, pagevars, postvars, panevars, workvars, histvars, quiet, mainvars, Goto
<1> QED BY <1>1, <1>2, <1>3, <1>4, <1>5

LEMMA PromptTypes == ASSUME TermInv, Prompt PROVE TermInv'
<1> USE DEF TermInv
<1>1. MainTypes'
  BY DEF MainTypes, Prompt, envvars, pagevars, postvars, panevars, workvars, histvars, quiet, mainvars, Goto, PCs
<1>2. MainFlags'
  BY DEF MainFlags, Prompt, envvars, pagevars, postvars, panevars, workvars, histvars, quiet, mainvars, Goto
<1>3. WorkTypes'
  BY DEF WorkTypes, Prompt, envvars, pagevars, postvars, panevars, workvars, histvars, quiet, mainvars, Goto
<1>4. QueueTypes'
  BY DEF QueueTypes, Prompt, envvars, pagevars, postvars, panevars, workvars, histvars, quiet, mainvars, Goto
<1>5. TodoInv'
  BY DEF TodoInv, Prompt, envvars, pagevars, postvars, panevars, workvars, histvars, quiet, mainvars, Goto
<1> QED BY <1>1, <1>2, <1>3, <1>4, <1>5

LEMMA EnterTypes == ASSUME TermInv, Enter PROVE TermInv'
<1> USE DEF TermInv
<1>1. MainTypes'
  BY DEF MainTypes, Enter, envvars, pagevars, postvars, panevars, workvars, histvars, quiet, mainvars, Goto, PCs
<1>2. MainFlags'
  BY DEF MainFlags, Enter, envvars, pagevars, postvars, panevars, workvars, histvars, quiet, mainvars, Goto
<1>3. WorkTypes'
  BY DEF WorkTypes, Enter, envvars, pagevars, postvars, panevars, workvars, histvars, quiet, mainvars, Goto
<1>4. QueueTypes'
  BY DEF QueueTypes, Enter, envvars, pagevars, postvars, panevars, workvars, histvars, quiet, mainvars, Goto
<1>5. TodoInv'
  BY DEF TodoInv, Enter, envvars, pagevars, postvars, panevars, workvars, histvars, quiet, mainvars, Goto
<1> QED BY <1>1, <1>2, <1>3, <1>4, <1>5

LEMMA BeginTypes == ASSUME TermInv, Begin PROVE TermInv'
<1> USE DEF TermInv
<1>1. MainTypes'
  BY DEF MainTypes, Begin, envvars, pagevars, postvars, panevars, workvars, histvars, quiet, mainvars, Goto, PCs
<1>2. MainFlags'
  BY DEF MainFlags, Begin, envvars, pagevars, postvars, panevars, workvars, histvars, quiet, mainvars, Goto
<1>3. WorkTypes'
  BY DEF WorkTypes, Begin, envvars, pagevars, postvars, panevars, workvars, histvars, quiet, mainvars, Goto
<1>4. QueueTypes'
  BY DEF QueueTypes, Begin, envvars, pagevars, postvars, panevars, workvars, histvars, quiet, mainvars, Goto
<1>5. TodoInv'
  BY DEF TodoInv, Begin, envvars, pagevars, postvars, panevars, workvars, histvars, quiet, mainvars, Goto
<1> QED BY <1>1, <1>2, <1>3, <1>4, <1>5

LEMMA JoinTypes == ASSUME TermInv, Join PROVE TermInv'
<1> USE DEF TermInv
<1>1. MainTypes'
  BY DEF MainTypes, Join, envvars, pagevars, postvars, panevars, workvars, histvars, quiet, mainvars, Goto, PCs
<1>2. MainFlags'
  BY DEF MainFlags, Join, envvars, pagevars, postvars, panevars, workvars, histvars, quiet, mainvars, Goto
<1>3. WorkTypes'
  BY DEF WorkTypes, Join, envvars, pagevars, postvars, panevars, workvars, histvars, quiet, mainvars, Goto
<1>4. QueueTypes'
  BY DEF QueueTypes, Join, envvars, pagevars, postvars, panevars, workvars, histvars, quiet, mainvars, Goto
<1>5. TodoInv'
  BY DEF TodoInv, Join, envvars, pagevars, postvars, panevars, workvars, histvars, quiet, mainvars, Goto
<1> QED BY <1>1, <1>2, <1>3, <1>4, <1>5

LEMMA IdleInterruptedTypes == ASSUME TermInv, IdleInterrupted PROVE TermInv'
<1> USE DEF TermInv
<1>1. MainTypes'
  BY DEF MainTypes, IdleInterrupted, envvars, pagevars, postvars, panevars, workvars, histvars, quiet, mainvars, Goto, PCs
<1>2. MainFlags'
  BY DEF MainFlags, IdleInterrupted, envvars, pagevars, postvars, panevars, workvars, histvars, quiet, mainvars, Goto
<1>3. WorkTypes'
  BY DEF WorkTypes, IdleInterrupted, envvars, pagevars, postvars, panevars, workvars, histvars, quiet, mainvars, Goto
<1>4. QueueTypes'
  BY DEF QueueTypes, IdleInterrupted, envvars, pagevars, postvars, panevars, workvars, histvars, quiet, mainvars, Goto
<1>5. TodoInv'
  BY DEF TodoInv, IdleInterrupted, envvars, pagevars, postvars, panevars, workvars, histvars, quiet, mainvars, Goto
<1> QED BY <1>1, <1>2, <1>3, <1>4, <1>5

LEMMA PostCheckTypes == ASSUME TermInv, PostCheck PROVE TermInv'
<1> USE DEF TermInv
<1>1. MainTypes'
  BY TodoTail DEF MainTypes, PostCheck, envvars, pagevars, postvars, panevars, workvars, histvars, quiet, mainvars, TodoInv, Posted, PostThen, PCs
<1>2. MainFlags'
  BY ZenonT(30) DEF MainFlags, PostCheck, envvars, pagevars, postvars, panevars, workvars, histvars, quiet, mainvars, TodoInv, Posted, PostThen
<1>3. WorkTypes'
  BY DEF WorkTypes, PostCheck, envvars, pagevars, postvars, panevars, workvars, histvars, quiet, mainvars, TodoInv, Posted, PostThen
<1>4. QueueTypes'
  BY DEF QueueTypes, PostCheck, envvars, pagevars, postvars, panevars, workvars, histvars, quiet, mainvars, TodoInv, Posted, PostThen
<1>5. TodoInv'
  BY DEF TodoInv, PostCheck, envvars, pagevars, postvars, panevars, workvars, histvars, quiet, mainvars, TodoInv, Posted, PostThen
<1> QED BY <1>1, <1>2, <1>3, <1>4, <1>5

LEMMA PostSyncTypes == ASSUME TermInv, PostSync PROVE TermInv'
<1> USE DEF TermInv
<1>1. MainTypes'
  BY DEF MainTypes, PostSync, envvars, pagevars, postvars, panevars, workvars, histvars, quiet, mainvars, PostThen, PCs
<1>2. MainFlags'
  BY DEF MainFlags, PostSync, envvars, pagevars, postvars, panevars, workvars, histvars, quiet, mainvars, PostThen
<1>3. WorkTypes'
  BY DEF WorkTypes, PostSync, envvars, pagevars, postvars, panevars, workvars, histvars, quiet, mainvars, PostThen
<1>4. QueueTypes'
  BY DEF QueueTypes, PostSync, envvars, pagevars, postvars, panevars, workvars, histvars, quiet, mainvars, PostThen
<1>5. TodoInv'
  BY DEF TodoInv, PostSync, envvars, pagevars, postvars, panevars, workvars, histvars, quiet, mainvars, PostThen
<1> QED BY <1>1, <1>2, <1>3, <1>4, <1>5

LEMMA IdleDropTypes == ASSUME TermInv, IdleDrop PROVE TermInv'
<1> USE DEF TermInv
<1>1. MainTypes'
  BY DEF MainTypes, IdleDrop, envvars, pagevars, postvars, panevars, workvars, histvars, quiet, mainvars, PCs
<1>2. MainFlags'
  BY DEF MainFlags, IdleDrop, envvars, pagevars, postvars, panevars, workvars, histvars, quiet, mainvars
<1>3. WorkTypes'
  BY DEF WorkTypes, IdleDrop, envvars, pagevars, postvars, panevars, workvars, histvars, quiet, mainvars
<1>4. QueueTypes'
  BY FramesEmpty, TermAssumption DEF QueueTypes, IdleDrop, envvars, pagevars, postvars, panevars, workvars, histvars, quiet, mainvars
<1>5. TodoInv'
  BY DEF TodoInv, IdleDrop, envvars, pagevars, postvars, panevars, workvars, histvars, quiet, mainvars
<1> QED BY <1>1, <1>2, <1>3, <1>4, <1>5

LEMMA IdlePrintTypes == ASSUME TermInv, IdlePrint PROVE TermInv'
<1> USE DEF TermInv
<1>1. MainTypes'
  BY DEF MainTypes, IdlePrint, envvars, pagevars, postvars, panevars, workvars, histvars, quiet, mainvars, PCs
<1>2. MainFlags'
  BY DEF MainFlags, IdlePrint, envvars, pagevars, postvars, panevars, workvars, histvars, quiet, mainvars
<1>3. WorkTypes'
  BY DEF WorkTypes, IdlePrint, envvars, pagevars, postvars, panevars, workvars, histvars, quiet, mainvars
<1>4. QueueTypes'
  BY DEF QueueTypes, IdlePrint, envvars, pagevars, postvars, panevars, workvars, histvars, quiet, mainvars
<1>5. TodoInv'
  BY DEF TodoInv, IdlePrint, envvars, pagevars, postvars, panevars, workvars, histvars, quiet, mainvars
<1> QED BY <1>1, <1>2, <1>3, <1>4, <1>5

LEMMA IdleClearTypes == ASSUME TermInv, IdleClear PROVE TermInv'
<1> USE DEF TermInv
<1>1. MainTypes'
  BY DEF MainTypes, IdleClear, envvars, pagevars, postvars, panevars, workvars, histvars, quiet, mainvars, PCs
<1>2. MainFlags'
  BY ZenonT(30) DEF MainFlags, IdleClear, envvars, pagevars, postvars, panevars, workvars, histvars, quiet, mainvars
<1>3. WorkTypes'
  BY DEF WorkTypes, IdleClear, envvars, pagevars, postvars, panevars, workvars, histvars, quiet, mainvars
<1>4. QueueTypes'
  BY DEF QueueTypes, IdleClear, envvars, pagevars, postvars, panevars, workvars, histvars, quiet, mainvars
<1>5. TodoInv'
  BY DEF TodoInv, IdleClear, envvars, pagevars, postvars, panevars, workvars, histvars, quiet, mainvars, MainTypes
<1> QED BY <1>1, <1>2, <1>3, <1>4, <1>5

LEMMA WFailTypes == ASSUME TermInv, WFail PROVE TermInv'
<1> USE DEF TermInv
<1>1. MainTypes'
  BY DEF MainTypes, WFail, envvars, pagevars, postvars, panevars, workvars, histvars, quiet, mainvars
<1>2. MainFlags'
  BY DEF MainFlags, WFail, envvars, pagevars, postvars, panevars, workvars, histvars, quiet, mainvars
<1>3. WorkTypes'
  BY DEF WorkTypes, WFail, envvars, pagevars, postvars, panevars, workvars, histvars, quiet, mainvars, WPCs
<1>4. QueueTypes'
  BY DEF QueueTypes, WFail, envvars, pagevars, postvars, panevars, workvars, histvars, quiet, mainvars
<1>5. TodoInv'
  BY DEF TodoInv, WFail, envvars, pagevars, postvars, panevars, workvars, histvars, quiet, mainvars
<1> QED BY <1>1, <1>2, <1>3, <1>4, <1>5

LEMMA WSendTypes == ASSUME TermInv, WSend PROVE TermInv'
<1> USE DEF TermInv
<1>1. MainTypes'
  BY DEF MainTypes, WSend, envvars, pagevars, postvars, panevars, workvars, histvars, quiet, mainvars
<1>2. MainFlags'
  BY DEF MainFlags, WSend, envvars, pagevars, postvars, panevars, workvars, histvars, quiet, mainvars
<1>3. WorkTypes'
  BY DEF WorkTypes, WSend, envvars, pagevars, postvars, panevars, workvars, histvars, quiet, mainvars, WPCs, PaneSend
<1>4. QueueTypes'
  BY DEF QueueTypes, WSend, envvars, pagevars, postvars, panevars, workvars, histvars, quiet, mainvars
<1>5. TodoInv'
  BY DEF TodoInv, WSend, envvars, pagevars, postvars, panevars, workvars, histvars, quiet, mainvars
<1> QED BY <1>1, <1>2, <1>3, <1>4, <1>5

LEMMA WFinishTypes == ASSUME TermInv, WFinish PROVE TermInv'
<1> USE DEF TermInv
<1>1. MainTypes'
  BY DEF MainTypes, WFinish, envvars, pagevars, postvars, panevars, workvars, histvars, quiet, mainvars
<1>2. MainFlags'
  BY DEF MainFlags, WFinish, envvars, pagevars, postvars, panevars, workvars, histvars, quiet, mainvars
<1>3. WorkTypes'
  BY NoJobOK DEF WorkTypes, WFinish, envvars, pagevars, postvars, panevars, workvars, histvars, quiet, mainvars, WPCs
<1>4. QueueTypes'
  BY DEF QueueTypes, WFinish, envvars, pagevars, postvars, panevars, workvars, histvars, quiet, mainvars
<1>5. TodoInv'
  BY DEF TodoInv, WFinish, envvars, pagevars, postvars, panevars, workvars, histvars, quiet, mainvars
<1> QED BY <1>1, <1>2, <1>3, <1>4, <1>5

LEMMA WResizeTypes == ASSUME TermInv, WResize PROVE TermInv'
<1> USE DEF TermInv
<1>1. MainTypes'
  BY DEF MainTypes, WResize, envvars, pagevars, postvars, panevars, workvars, histvars, quiet, mainvars
<1>2. MainFlags'
  BY DEF MainFlags, WResize, envvars, pagevars, postvars, panevars, workvars, histvars, quiet, mainvars
<1>3. WorkTypes'
  BY DEF WorkTypes, WResize, envvars, pagevars, postvars, panevars, workvars, histvars, quiet, mainvars, WPCs, PaneSend
<1>4. QueueTypes'
  BY DEF QueueTypes, WResize, envvars, pagevars, postvars, panevars, workvars, histvars, quiet, mainvars
<1>5. TodoInv'
  BY DEF TodoInv, WResize, envvars, pagevars, postvars, panevars, workvars, histvars, quiet, mainvars
<1> QED BY <1>1, <1>2, <1>3, <1>4, <1>5

LEMMA WExitTypes == ASSUME TermInv, WExit PROVE TermInv'
<1> USE DEF TermInv
<1>1. MainTypes'
  BY DEF MainTypes, WExit, envvars, pagevars, postvars, panevars, workvars, histvars, quiet, mainvars
<1>2. MainFlags'
  BY DEF MainFlags, WExit, envvars, pagevars, postvars, panevars, workvars, histvars, quiet, mainvars
<1>3. WorkTypes'
  BY DEF WorkTypes, WExit, envvars, pagevars, postvars, panevars, workvars, histvars, quiet, mainvars, WPCs
<1>4. QueueTypes'
  BY DEF QueueTypes, WExit, envvars, pagevars, postvars, panevars, workvars, histvars, quiet, mainvars
<1>5. TodoInv'
  BY DEF TodoInv, WExit, envvars, pagevars, postvars, panevars, workvars, histvars, quiet, mainvars
<1> QED BY <1>1, <1>2, <1>3, <1>4, <1>5

LEMMA SignalTypes == ASSUME TermInv, Signal PROVE TermInv'
<1> USE DEF TermInv
<1>1. MainTypes'
  BY DEF MainTypes, Signal, envvars, pagevars, postvars, panevars, workvars, histvars, quiet, mainvars
<1>2. MainFlags'
  BY DEF MainFlags, Signal, envvars, pagevars, postvars, panevars, workvars, histvars, quiet, mainvars
<1>3. WorkTypes'
  BY DEF WorkTypes, Signal, envvars, pagevars, postvars, panevars, workvars, histvars, quiet, mainvars
<1>4. QueueTypes'
  BY DEF QueueTypes, Signal, envvars, pagevars, postvars, panevars, workvars, histvars, quiet, mainvars
<1>5. TodoInv'
  BY DEF TodoInv, Signal, envvars, pagevars, postvars, panevars, workvars, histvars, quiet, mainvars
<1> QED BY <1>1, <1>2, <1>3, <1>4, <1>5

LEMMA PaneTypes == ASSUME TermInv, Pane PROVE TermInv'
<1> USE DEF TermInv
<1>1. MainTypes'
  BY DEF MainTypes, Pane, envvars, pagevars, postvars, panevars, workvars, histvars, quiet, mainvars
<1>2. MainFlags'
  BY DEF MainFlags, Pane, envvars, pagevars, postvars, panevars, workvars, histvars, quiet, mainvars
<1>3. WorkTypes'
  BY NoPicOK DEF WorkTypes, Pane, Sent, envvars, pagevars, postvars, panevars, workvars, histvars, quiet, mainvars
<1>4. QueueTypes'
  BY DEF QueueTypes, Pane, envvars, pagevars, postvars, panevars, workvars, histvars, quiet, mainvars
<1>5. TodoInv'
  BY DEF TodoInv, Pane, envvars, pagevars, postvars, panevars, workvars, histvars, quiet, mainvars
<1> QED BY <1>1, <1>2, <1>3, <1>4, <1>5


(* Every step keeps types and count. *)
LEMMA TermInvNext == TermInv /\ [Next]_vars => TermInv'
<1> SUFFICES ASSUME TermInv, [Next]_vars PROVE TermInv'
  OBVIOUS
<1>1. CASE Command
  BY <1>1, DrawTypes, BlankTypes, SwapFrameTypes, SetXsizeTypes, PullTypes, EndCommandTypes, QuitTypes
     DEF Command, Clear, DoubleOn, SwapBlank
<1>2. CASE User
  BY <1>2, PromptTypes, EnterTypes, BeginTypes, AnswerTypes DEF User
<1>3. CASE Post
  BY <1>3, PostCheckTypes, PostLockedTypes, PostSyncTypes DEF Post
<1>4. CASE Idle
  BY <1>4, IdleInterruptedTypes, IdleShowTypes, IdleDropTypes, IdleForgetTypes, IdlePrintTypes,
     IdleClearTypes DEF Idle
<1>5. CASE Gone
  BY <1>5, StopTypes, JoinTypes DEF Gone
<1>6. CASE Worker
  BY <1>6, WTakeTypes, WLookTypes, WPublishTypes, WFailTypes, WSendTypes, WFinishTypes,
     WResizeTypes, WExitTypes DEF Worker
<1>7. CASE Signal
  BY <1>7, SignalTypes
<1>8. CASE Pane
  BY <1>8, PaneTypes
<1>9. CASE UNCHANGED vars
  BY <1>9 DEF vars, TermInv, MainTypes, MainFlags, WorkTypes, QueueTypes, TodoInv,
              envvars, pagevars, postvars, panevars, workvars, histvars
<1> QED
  BY <1>1, <1>2, <1>3, <1>4, <1>5, <1>6, <1>7, <1>8, <1>9 DEF Next

LEMMA TermInvHolds == Spec => []TermInv
  BY TermInvInit, TermInvNext, PTL DEF Spec

(* Jobs, pages and flags have their types, and the queue never holds more  *)
(* than FRAMEQ frames (post, work and dropqueue in gxT.c).                 *)
THEOREM DisplayTypeCorrect == Spec => []TypeOK
  BY TermInvHolds, TermInvTypes, PTL

(* qframes is the number of frames in the queue, on every way in and out.  *)
THEOREM FramesAreCounted == Spec => []FramesCounted
  BY TermInvHolds, TermInvTypes, PTL

-----------------------------------------------------------------------------
(* After Ctrl-C.                                                           *)

NoPictures(s) == \A i \in 1 .. Len(s) : ~IsPicture(s[i].kind)

Posting == pc \in {"post", "lock", "sync"}

(* Until gxdidle has dealt with it: whatever is in the queue will be       *)
(* dropped, and only a picture already being written still comes.          *)
Breaking ==
  /\ intr
  /\ \/ pc \in {"command", "ending", "pull", "top", "drop", "forget", "quit", "join", "ended"}
     \/ SignalInGap /\ pc \in {"gap", "prompt", "begin"}
     \/ Posting /\ then = "command"
  /\ after = 0 \/ (after = 1 /\ wpc # "write")

(* From then on: there is no picture left but the one the worker took.     *)
Broken ==
  /\ \/ pc \in {"ending", "pull", "top", "drop", "forget", "show", "clear", "gap", "prompt", "begin"}
     \/ Posting /\ then # "command"
  /\ NoPictures(queue) /\ NoPictures(todo)
  /\ gifpages = << >> /\ ~dirty
  /\ \/ after <= 1
     \/ after = 2 /\ wpc # "write" /\ ~(wpc = "taken" /\ IsPicture(wjob.kind))

StruckInv ==
  /\ struck => sig /\ (Breaking \/ Broken)
  /\ ~struck => after = 0
  /\ pc \in {"drop", "forget"} => intr
  /\ pc = "forget" => queue = << >>
  /\ then \in {"command", "show", "gap", "pull"}

LEMMA DrawStruck == ASSUME TermInv, StruckInv, ~SignalInIdle, Draw PROVE StruckInv'
  BY DEF StruckInv, Breaking, Broken, Posting, Draw, NewPage, envvars, pagevars, postvars, panevars, workvars, histvars, quiet, mainvars

LEMMA SetXsizeStruck == ASSUME TermInv, StruckInv, ~SignalInIdle, SetXsize PROVE StruckInv'
  BY DEF StruckInv, Breaking, Broken, Posting, SetXsize, NewPage, envvars, pagevars, postvars, panevars, workvars, histvars, quiet, mainvars

LEMMA PullStruck == ASSUME TermInv, StruckInv, ~SignalInIdle, Pull PROVE StruckInv'
  BY DEF StruckInv, Breaking, Broken, Posting, Pull, envvars, pagevars, postvars, panevars, workvars, histvars, quiet, mainvars

LEMMA EndCommandStruck == ASSUME TermInv, StruckInv, ~SignalInIdle, EndCommand PROVE StruckInv'
  BY DEF StruckInv, Breaking, Broken, Posting, EndCommand, Goto, envvars, pagevars, postvars, panevars, workvars, histvars, quiet, mainvars

LEMMA QuitStruck == ASSUME TermInv, StruckInv, ~SignalInIdle, Quit PROVE StruckInv'
  BY DEF StruckInv, Breaking, Broken, Posting, Quit, envvars, pagevars, postvars, panevars, workvars, histvars, quiet, mainvars

LEMMA PromptStruck == ASSUME TermInv, StruckInv, ~SignalInIdle, Prompt PROVE StruckInv'
  BY DEF StruckInv, Breaking, Broken, Posting, Prompt, Goto, envvars, pagevars, postvars, panevars, workvars, histvars, quiet, mainvars

LEMMA EnterStruck == ASSUME TermInv, StruckInv, ~SignalInIdle, Enter PROVE StruckInv'
  BY DEF StruckInv, Breaking, Broken, Posting, Enter, Goto, envvars, pagevars, postvars, panevars, workvars, histvars, quiet, mainvars

LEMMA BeginStruck == ASSUME TermInv, StruckInv, ~SignalInIdle, Begin PROVE StruckInv'
  BY DEF StruckInv, Breaking, Broken, Posting, Begin, Goto, envvars, pagevars, postvars, panevars, workvars, histvars, quiet, mainvars

LEMMA AnswerStruck == ASSUME TermInv, StruckInv, ~SignalInIdle, Answer PROVE StruckInv'
  BY DEF StruckInv, Breaking, Broken, Posting, Answer, Goto, envvars, pagevars, postvars, panevars, workvars, histvars, quiet, mainvars

LEMMA StopStruck == ASSUME TermInv, StruckInv, ~SignalInIdle, Stop PROVE StruckInv'
  BY DEF StruckInv, Breaking, Broken, Posting, Stop, envvars, pagevars, postvars, panevars, workvars, histvars, quiet, mainvars

LEMMA JoinStruck == ASSUME TermInv, StruckInv, ~SignalInIdle, Join PROVE StruckInv'
  BY DEF StruckInv, Breaking, Broken, Posting, Join, Goto, envvars, pagevars, postvars, panevars, workvars, histvars, quiet, mainvars

LEMMA IdleInterruptedStruck == ASSUME TermInv, StruckInv, ~SignalInIdle, IdleInterrupted PROVE StruckInv'
  BY DEF StruckInv, Breaking, Broken, Posting, IdleInterrupted, Goto, envvars, pagevars, postvars, panevars, workvars, histvars, quiet, mainvars

LEMMA IdlePrintStruck == ASSUME TermInv, StruckInv, ~SignalInIdle, IdlePrint PROVE StruckInv'
  BY DEF StruckInv, Breaking, Broken, Posting, IdlePrint, envvars, pagevars, postvars, panevars, workvars, histvars, quiet, mainvars

LEMMA IdleClearStruck == ASSUME TermInv, StruckInv, ~SignalInIdle, IdleClear PROVE StruckInv'
  BY DEF StruckInv, Breaking, Broken, Posting, IdleClear, TermInv, MainTypes, envvars, pagevars, postvars, panevars, workvars, histvars, quiet, mainvars

LEMMA WFailStruck == ASSUME TermInv, StruckInv, ~SignalInIdle, WFail PROVE StruckInv'
  BY DEF StruckInv, Breaking, Broken, Posting, WFail, envvars, pagevars, postvars, panevars, workvars, histvars, quiet, mainvars

LEMMA WSendStruck == ASSUME TermInv, StruckInv, ~SignalInIdle, WSend PROVE StruckInv'
  BY DEF StruckInv, Breaking, Broken, Posting, WSend, envvars, pagevars, postvars, panevars, workvars, histvars, quiet, mainvars

LEMMA WFinishStruck == ASSUME TermInv, StruckInv, ~SignalInIdle, WFinish PROVE StruckInv'
  BY DEF StruckInv, Breaking, Broken, Posting, WFinish, envvars, pagevars, postvars, panevars, workvars, histvars, quiet, mainvars

LEMMA WResizeStruck == ASSUME TermInv, StruckInv, ~SignalInIdle, WResize PROVE StruckInv'
  BY DEF StruckInv, Breaking, Broken, Posting, WResize, envvars, pagevars, postvars, panevars, workvars, histvars, quiet, mainvars

LEMMA WExitStruck == ASSUME TermInv, StruckInv, ~SignalInIdle, WExit PROVE StruckInv'
  BY DEF StruckInv, Breaking, Broken, Posting, WExit, envvars, pagevars, postvars, panevars, workvars, histvars, quiet, mainvars

LEMMA SignalStruck == ASSUME TermInv, StruckInv, ~SignalInIdle, Signal PROVE StruckInv'
  BY DEF StruckInv, Breaking, Broken, Posting, Signal, InCommand, InGap, InIdle, envvars, pagevars, postvars, panevars, workvars, histvars, quiet, mainvars

LEMMA PaneStruck == ASSUME TermInv, StruckInv, ~SignalInIdle, Pane PROVE StruckInv'
  BY DEF StruckInv, Breaking, Broken, Posting, Pane, envvars, pagevars, postvars, panevars, workvars, histvars, quiet, mainvars

LEMMA PostSyncStruck == ASSUME TermInv, StruckInv, ~SignalInIdle, PostSync PROVE StruckInv'
  BY DEF StruckInv, Breaking, Broken, Posting, PostSync, PostThen, TermInv, TodoInv, envvars, pagevars, postvars, panevars, workvars, histvars, quiet, mainvars

LEMMA NoneEmpty == NoPictures(<< >>)
  BY DEF NoPictures

LEMMA NoneOne == ASSUME NEW x, ~IsPicture(x.kind) PROVE NoPictures(<<x>>)
  BY DEF NoPictures

LEMMA NoneTail == ASSUME NEW s \in Seq(Jobs), s # << >>, NoPictures(s)
                  PROVE  NoPictures(Tail(s)) /\ ~IsPicture(Head(s).kind)
<1>1. 1 \in 1 .. Len(s) /\ Head(s) = s[1] /\ \A i \in 1 .. Len(Tail(s)) : Tail(s)[i] = s[i + 1] /\ i + 1 \in 1 .. Len(s)
  OBVIOUS
<1> QED BY <1>1 DEF NoPictures

LEMMA NoneAppend == ASSUME NEW s \in Seq(Jobs), NEW x \in Jobs, NoPictures(s), ~IsPicture(x.kind)
                    PROVE  NoPictures(Append(s, x))
<1>1. Len(Append(s, x)) = Len(s) + 1 /\ Append(s, x)[Len(s) + 1] = x
      /\ \A i \in 1 .. Len(s) : Append(s, x)[i] = s[i]
  OBVIOUS
<1> QED BY <1>1 DEF NoPictures

LEMMA BlankStruck == ASSUME TermInv, StruckInv, ~SignalInIdle, NEW dbl \in BOOLEAN, Blank(dbl) PROVE StruckInv'
<1>1. /\ pc = "command" /\ then' = "command" /\ pc' \in {"post", "command"}
      /\ UNCHANGED <<struck, sig, intr, after, wpc, queue>>
  BY DEF Blank, PostThen, quiet, workvars, NewPage
<1> QED BY <1>1 DEF StruckInv, Breaking, Broken, Posting

LEMMA SwapFrameStruck == ASSUME TermInv, StruckInv, ~SignalInIdle, SwapFrame PROVE StruckInv'
<1>1. /\ pc = "command" /\ then' = "command" /\ pc' \in {"post", "command"}
      /\ UNCHANGED <<struck, sig, intr, after, wpc, queue>>
  BY DEF SwapFrame, PostThen, quiet, workvars, NewPage
<1> QED BY <1>1 DEF StruckInv, Breaking, Broken, Posting

LEMMA IdleShowStruck == ASSUME TermInv, StruckInv, ~SignalInIdle, IdleShow PROVE StruckInv'
<1>1. /\ pc = "top" /\ then' = "show" /\ pc' \in {"post", "show"} /\ ~intr
      /\ ~dirty' /\ gifpages' = << >>
      /\ UNCHANGED <<struck, sig, intr, after, wpc, wjob, queue>>
  BY DEF IdleShow, PostThen, histvars, workvars
<1>2. gifpages = << >> /\ ~dirty => NoPictures(todo')
  <2>1. gifpages = << >> /\ ~dirty => todo' = << >> \o << >>
    BY DEF IdleShow, PostThen
  <2>2. << >> \o << >> = << >>
    OBVIOUS
  <2> QED BY <2>1, <2>2, NoneEmpty
<1> QED BY <1>1, <1>2 DEF StruckInv, Breaking, Broken, Posting

LEMMA IdleDropStruck == ASSUME TermInv, StruckInv, ~SignalInIdle, IdleDrop PROVE StruckInv'
<1>1. /\ pc = "drop" /\ pc' = "forget" /\ queue' = << >> /\ intr
      /\ UNCHANGED <<struck, sig, intr, after, then, todo, gifpages, dirty, wpc, wjob>>
  BY DEF IdleDrop, StruckInv, histvars, workvars, pagevars
<1> QED BY <1>1, NoneEmpty DEF StruckInv, Breaking, Broken, Posting

LEMMA IdleForgetStruck == ASSUME TermInv, StruckInv, ~SignalInIdle, IdleForget PROVE StruckInv'
<1>1. /\ pc = "forget" /\ then' \in {"gap", "pull"} /\ pc' \in {"post", "gap", "pull"} /\ queue = << >>
      /\ ~dirty' /\ gifpages' = << >>
      /\ UNCHANGED <<struck, sig, after, wpc, wjob, queue>>
  BY DEF IdleForget, PostThen, histvars, workvars, StruckInv, TermInv, MainTypes
<1>2. NoPictures(todo')
  <2> DEFINE d == Job("gifdrop", page)
  <2>1. todo' = << >> \/ todo' = <<d>>
    BY DEF IdleForget, PostThen
  <2>2. ~IsPicture(d.kind)
    BY DEF Job, IsPicture, Pictures
  <2> HIDE DEF d
  <2> QED BY <2>1, <2>2, NoneEmpty, NoneOne
<1>3. struck => \/ after \in {0, 1} /\ (after = 1 => wpc # "write")
               \/ (after = 2 /\ wpc # "write" /\ ~(wpc = "taken" /\ IsPicture(wjob.kind)))
               \/ after <= 1
  BY DEF StruckInv, Breaking, Broken
<1> QED BY <1>1, <1>2, <1>3, NoneEmpty DEF StruckInv, Broken, Posting

LEMMA PostCheckStruck == ASSUME TermInv, StruckInv, ~SignalInIdle, PostCheck PROVE StruckInv'
<1>1. /\ pc = "post" /\ then' = then /\ (pc' = then \/ pc' \in {"post", "lock"})
      /\ todo' = todo \/ todo' = Tail(todo)
      /\ UNCHANGED <<struck, sig, intr, after, wpc, wjob, queue, gifpages, dirty>>
  BY DEF PostCheck, Posted, PostThen, histvars, workvars, pagevars
<1>2. NoPictures(todo) => NoPictures(todo')
  <2>1. todo \in Seq(Jobs) /\ todo # << >>
    BY <1>1 DEF TermInv, MainTypes, TodoInv
  <2> QED BY <1>1, <2>1, NoneTail
<1> QED BY <1>1, <1>2 DEF StruckInv, Breaking, Broken, Posting

LEMMA PostLockedStruck == ASSUME TermInv, StruckInv, ~SignalInIdle, PostLocked PROVE StruckInv'
<1> DEFINE j == Head(todo)
<1>1. /\ pc = "lock" /\ then' = then /\ (pc' = then \/ pc' \in {"post", "sync"})
      /\ todo' = Tail(todo)
      /\ queue' = Superseded(j) \/ queue' = Append(Superseded(j), j)
      /\ UNCHANGED <<struck, sig, intr, after, wpc, wjob, gifpages, dirty>>
  BY DEF PostLocked, Posted, PostThen, histvars, workvars, pagevars
<1>2. todo \in Seq(Jobs) /\ todo # << >> /\ queue \in Seq(Jobs) /\ j \in Jobs
  BY <1>1, TodoTail DEF TermInv, MainTypes, TodoInv, QueueTypes
<1>3. NoPictures(todo) => NoPictures(todo') /\ ~IsPicture(j.kind)
  BY <1>1, <1>2, NoneTail
<1>4. ~IsPicture(j.kind) => Superseded(j) = queue
  BY DEF IsPicture, Pictures, Superseded
<1>5. NoPictures(todo) /\ NoPictures(queue) => NoPictures(queue')
  <2> HIDE DEF j
  <2> QED BY <1>1, <1>2, <1>3, <1>4, NoneAppend
<1> QED BY <1>1, <1>3, <1>5 DEF StruckInv, Breaking, Broken, Posting

LEMMA WTakeStruck == ASSUME TermInv, StruckInv, ~SignalInIdle, WTake PROVE StruckInv'
<1>1. /\ wpc = "idle" /\ wpc' = "taken" /\ wjob' = Head(queue) /\ queue' = Tail(queue) /\ queue # << >>
      /\ UNCHANGED <<struck, sig, intr, after, pc, then, todo, gifpages, dirty>>
  BY DEF WTake, mainvars, histvars, pagevars, postvars
<1>2. NoPictures(queue) => NoPictures(queue') /\ ~IsPicture(wjob'.kind)
  BY <1>1, NoneTail DEF TermInv, QueueTypes
<1> QED BY <1>1, <1>2 DEF StruckInv, Breaking, Broken, Posting

LEMMA WLookStruck == ASSUME TermInv, StruckInv, ~SignalInIdle, WLook PROVE StruckInv'
<1>1. /\ wpc = "taken" /\ wpc' \in {"finish", "write"}
      /\ wpc' = "write" => ~intr /\ IsPicture(wjob.kind)
      /\ UNCHANGED <<struck, sig, intr, after, pc, then, todo, gifpages, dirty, queue, wjob>>
  BY DEF WLook, mainvars, histvars, pagevars, postvars, IsPicture, Pictures
<1> QED BY <1>1 DEF StruckInv, Breaking, Broken, Posting

LEMMA WPublishStruck == ASSUME TermInv, StruckInv, ~SignalInIdle, WPublish PROVE StruckInv'
<1>1. /\ wpc = "write" /\ wpc' = "send"
      /\ after' = IF struck /\ after < 3 THEN after + 1 ELSE after
      /\ UNCHANGED <<struck, sig, intr, pc, then, todo, gifpages, dirty, queue, wjob>>
  BY DEF WPublish, mainvars, histvars, pagevars, postvars
<1>2. after \in 0 .. 3
  BY DEF TermInv, WorkTypes
<1> QED BY <1>1, <1>2 DEF StruckInv, Breaking, Broken, Posting

LEMMA StruckInit == Init => StruckInv
  BY DEF Init, StruckInv

LEMMA StruckNext == ASSUME ~SignalInIdle PROVE TermInv /\ StruckInv /\ [Next]_vars => StruckInv'
<1> SUFFICES ASSUME TermInv, StruckInv, [Next]_vars PROVE StruckInv'
  OBVIOUS
<1>1. CASE Command
  BY <1>1, DrawStruck, BlankStruck, SwapFrameStruck, SetXsizeStruck, PullStruck, EndCommandStruck, QuitStruck
     DEF Command, Clear, DoubleOn, SwapBlank
<1>2. CASE User
  BY <1>2, PromptStruck, EnterStruck, BeginStruck, AnswerStruck DEF User
<1>3. CASE Post
  BY <1>3, PostCheckStruck, PostLockedStruck, PostSyncStruck DEF Post
<1>4. CASE Idle
  BY <1>4, IdleInterruptedStruck, IdleShowStruck, IdleDropStruck, IdleForgetStruck, IdlePrintStruck,
     IdleClearStruck DEF Idle
<1>5. CASE Gone
  BY <1>5, StopStruck, JoinStruck DEF Gone
<1>6. CASE Worker
  BY <1>6, WTakeStruck, WLookStruck, WPublishStruck, WFailStruck, WSendStruck, WFinishStruck,
     WResizeStruck, WExitStruck DEF Worker
<1>7. CASE Signal
  BY <1>7, SignalStruck
<1>8. CASE Pane
  BY <1>8, PaneStruck
<1>9. CASE UNCHANGED vars
  BY <1>9 DEF vars, StruckInv, Breaking, Broken, Posting, envvars, pagevars, postvars, panevars,
              workvars, histvars
<1> QED
  BY <1>1, <1>2, <1>3, <1>4, <1>5, <1>6, <1>7, <1>8, <1>9 DEF Next

(* After Ctrl-C in a command at most two more pictures are written: the one *)
(* being written, and one the worker took before the queue was dropped and  *)
(* looks at after intr was cleared (gxdidle, dojob in gxT.c).  Ctrl-C while *)
(* gxdidle hands the picture over is another matter: see the README.        *)
THEOREM TwoMoreAtMost == ASSUME ~SignalInIdle PROVE Spec => []AtMostTwoMore
<1>1. Init => TermInv /\ StruckInv
  BY TermInvInit, StruckInit
<1>2. TermInv /\ StruckInv /\ [Next]_vars => TermInv' /\ StruckInv'
  BY TermInvNext, StruckNext
<1>3. TermInv /\ StruckInv => AtMostTwoMore
  BY DEF TermInv, WorkTypes, StruckInv, Breaking, Broken, AtMostTwoMore
<1> QED BY <1>1, <1>2, <1>3, PTL DEF Spec

(* When the prompt is back after Ctrl-C in a command no picture of it is   *)
(* left in the queue (dropqueue, gxdidle).                                 *)
THEOREM PromptLeavesNothing == ASSUME ~SignalInIdle, ~SignalInGap PROVE Spec => []NothingLeftAtPrompt
<1>1. Init => TermInv /\ StruckInv
  BY TermInvInit, StruckInit
<1>2. TermInv /\ StruckInv /\ [Next]_vars => TermInv' /\ StruckInv'
  BY TermInvNext, StruckNext
<1>3. TermInv /\ StruckInv => NothingLeftAtPrompt
  BY DEF StruckInv, Breaking, Broken, Posting, NoPictures, NothingLeftAtPrompt
<1> QED BY <1>1, <1>2, <1>3, PTL DEF Spec

-----------------------------------------------------------------------------
(* Jobs in order.                                                          *)

Members(s) == {s[i] : i \in 1 .. Len(s)}

(* A job is of no older page than those before it, a frame of the GIF of a *)
(* newer one.                                                              *)
Before(x, y) == x.page <= y.page /\ (y.kind = "gifframe" => x.page < y.page)
AllBefore(A, B) == \A x \in A, y \in B : Before(x, y)
Ordered(s) == \A i, j \in 1 .. Len(s) : i < j => Before(s[i], s[j])
Rising(s) == \A i, j \in 1 .. Len(s) : i < j => s[i] < s[j]

LEMMA MembersFew == /\ Members(<< >>) = {}
                    /\ \A x : Members(<<x>>) = {x}
                    /\ \A x, y : Members(<<x, y>>) = {x, y}
<1>1. Members(<< >>) = {}
  BY DEF Members
<1>2. ASSUME NEW x PROVE Members(<<x>>) = {x}
  BY DEF Members
<1>3. ASSUME NEW x, NEW y PROVE Members(<<x, y>>) = {x, y}
  <2>1. Len(<<x, y>>) = 2 /\ <<x, y>>[1] = x /\ <<x, y>>[2] = y /\ 1 .. 2 = {1, 2}
    OBVIOUS
  <2> QED BY <2>1 DEF Members
<1> QED BY <1>1, <1>2, <1>3

LEMMA MembersAppend == ASSUME NEW X, NEW s \in Seq(X), NEW x
                       PROVE  Members(Append(s, x)) = Members(s) \cup {x}
<1> DEFINE t == Append(s, x)
<1>1. Len(t) = Len(s) + 1 /\ t[Len(s) + 1] = x /\ \A i \in 1 .. Len(s) : t[i] = s[i]
  OBVIOUS
<1>2. Len(s) \in Nat
  OBVIOUS
<1> HIDE DEF t
<1>3. Members(t) \subseteq Members(s) \cup {x}
  <2> SUFFICES ASSUME NEW i \in 1 .. Len(t) PROVE t[i] \in Members(s) \cup {x}
    BY DEF Members
  <2>1. i \in 1 .. Len(s) \/ i = Len(s) + 1
    BY <1>1, <1>2
  <2> QED BY <1>1, <2>1 DEF Members
<1>4. Members(s) \cup {x} \subseteq Members(t)
  <2>1. 1 .. Len(s) \subseteq 1 .. Len(t) /\ Len(s) + 1 \in 1 .. Len(t)
    BY <1>1, <1>2
  <2> QED BY <1>1, <2>1 DEF Members
<1> QED BY <1>3, <1>4 DEF t

LEMMA MembersIn == ASSUME NEW X, NEW s \in Seq(X) PROVE Members(s) \subseteq X
  BY DEF Members

LEMMA HeadFirst == ASSUME NEW s \in Seq(Jobs), s # << >>, Ordered(s)
                   PROVE  /\ Members(s) = {Head(s)} \cup Members(Tail(s))
                          /\ AllBefore({Head(s)}, Members(Tail(s)))
                          /\ Ordered(Tail(s))
<1> DEFINE t == Tail(s)
<1>1. /\ Len(t) = Len(s) - 1 /\ Len(s) \in Nat \ {0} /\ Head(s) = s[1]
      /\ \A i \in 1 .. Len(t) : t[i] = s[i + 1]
  OBVIOUS
<1> HIDE DEF t
<1>2. \A i \in 1 .. Len(t) : i + 1 \in 1 .. Len(s)
  BY <1>1
<1>3. \A i \in 1 .. Len(s) : i = 1 \/ (i - 1 \in 1 .. Len(t) /\ t[i - 1] = s[i])
  BY <1>1
<1>4. 1 \in 1 .. Len(s)
  BY <1>1
<1>5. Members(s) = {Head(s)} \cup Members(t)
  BY <1>1, <1>2, <1>3, <1>4 DEF Members
<1>6. AllBefore({Head(s)}, Members(t))
  <2> SUFFICES ASSUME NEW i \in 1 .. Len(t) PROVE Before(s[1], t[i])
    BY <1>1 DEF AllBefore, Members
  <2>1. 1 < i + 1 /\ i + 1 \in 1 .. Len(s)
    BY <1>2
  <2> QED BY <1>1, <1>4, <2>1 DEF Ordered
<1>7. Ordered(t)
  <2> SUFFICES ASSUME NEW i \in 1 .. Len(t), NEW j \in 1 .. Len(t), i < j PROVE Before(t[i], t[j])
    BY DEF Ordered
  <2>1. i + 1 < j + 1 /\ i + 1 \in 1 .. Len(s) /\ j + 1 \in 1 .. Len(s)
    BY <1>2
  <2> QED BY <1>1, <2>1 DEF Ordered
<1> QED BY <1>5, <1>6, <1>7 DEF t

LEMMA OrderedFew == /\ Ordered(<< >>)
                    /\ \A x : Ordered(<<x>>)
                    /\ \A x, y : Before(x, y) => Ordered(<<x, y>>)
<1>1. Ordered(<< >>)
  BY DEF Ordered
<1>2. ASSUME NEW x PROVE Ordered(<<x>>)
  BY DEF Ordered
<1>3. ASSUME NEW x, NEW y, Before(x, y) PROVE Ordered(<<x, y>>)
  <2>1. Len(<<x, y>>) = 2 /\ <<x, y>>[1] = x /\ <<x, y>>[2] = y
    OBVIOUS
  <2>2. \A i, j \in 1 .. 2 : i < j => i = 1 /\ j = 2
    OBVIOUS
  <2> QED BY <1>3, <2>1, <2>2 DEF Ordered
<1> QED BY <1>1, <1>2, <1>3

LEMMA OrderedAppend == ASSUME NEW X, NEW s \in Seq(X), NEW x
                       PROVE  Ordered(Append(s, x)) <=> Ordered(s) /\ AllBefore(Members(s), {x})
<1> DEFINE t == Append(s, x)
<1>1. Len(t) = Len(s) + 1 /\ t[Len(s) + 1] = x /\ \A i \in 1 .. Len(s) : t[i] = s[i]
  OBVIOUS
<1>2. Len(s) \in Nat
  OBVIOUS
<1> HIDE DEF t
<1>3. ASSUME Ordered(t) PROVE Ordered(s) /\ AllBefore(Members(s), {x})
  <2>1. \A i \in 1 .. Len(s) : i \in 1 .. Len(t) /\ i < Len(s) + 1
    BY <1>1, <1>2
  <2>2. Len(s) + 1 \in 1 .. Len(t)
    BY <1>1, <1>2
  <2>3. \A i \in 1 .. Len(s) : Before(s[i], x)
    BY <1>1, <1>3, <2>1, <2>2 DEF Ordered
  <2>4. Ordered(s)
    BY <1>1, <1>3, <2>1 DEF Ordered
  <2> QED BY <2>3, <2>4 DEF AllBefore, Members
<1>4. ASSUME Ordered(s), AllBefore(Members(s), {x}) PROVE Ordered(t)
  <2> SUFFICES ASSUME NEW i \in 1 .. Len(t), NEW j \in 1 .. Len(t), i < j PROVE Before(t[i], t[j])
    BY DEF Ordered
  <2>1. i \in 1 .. Len(s) /\ (j \in 1 .. Len(s) \/ j = Len(s) + 1)
    BY <1>1, <1>2
  <2>2. CASE j \in 1 .. Len(s)
    BY <1>1, <1>4, <2>1, <2>2 DEF Ordered
  <2>3. CASE j = Len(s) + 1
    <3>1. s[i] \in Members(s)
      BY <2>1 DEF Members
    <3> QED BY <1>1, <1>4, <2>1, <2>3, <3>1 DEF AllBefore
  <2> QED BY <2>1, <2>2, <2>3
<1> QED BY <1>3, <1>4 DEF t

LEMMA OrderedOnly == ASSUME NEW K
                     PROVE  \A q \in Seq(Jobs) :
                              /\ Members(Only(q, K)) = {x \in Members(q) : x.kind \in K}
                              /\ Ordered(q) => Ordered(Only(q, K))
<1> DEFINE Good(q) == /\ Members(Only(q, K)) = {x \in Members(q) : x.kind \in K}
                      /\ Ordered(q) => Ordered(Only(q, K))
           S == {q \in Seq(Jobs) : Good(q)}
<1>1. << >> \in S
  <2>1. Good(<< >>)
    BY OnlyEmpty, MembersFew
  <2> HIDE DEF Good
  <2> QED BY <2>1
<1>2. ASSUME NEW q \in Seq(Jobs), NEW x \in Jobs, q \in S PROVE Append(q, x) \in S
  <2> DEFINE o == Only(q, K)
             t == Append(q, x)
  <2>1. o \in Seq(Jobs) /\ t \in Seq(Jobs) /\ Good(q)
    BY <1>2, OnlyType
  <2>2. Only(t, K) = IF x.kind \in K THEN Append(o, x) ELSE o
    BY OnlyAppend
  <2>3. Members(t) = Members(q) \cup {x} /\ Members(Append(o, x)) = Members(o) \cup {x}
    BY <2>1, MembersAppend
  <2>4. Ordered(t) <=> Ordered(q) /\ AllBefore(Members(q), {x})
    BY OrderedAppend
  <2>5. Ordered(Append(o, x)) <=> Ordered(o) /\ AllBefore(Members(o), {x})
    BY <2>1, OrderedAppend
  <2>6. Members(o) = {y \in Members(q) : y.kind \in K} /\ (Ordered(q) => Ordered(o))
    BY <2>1
  <2> HIDE DEF o, t
  <2>7. Members(Only(t, K)) = {y \in Members(t) : y.kind \in K}
    BY <2>2, <2>3, <2>6
  <2>8. Ordered(t) => Ordered(Only(t, K))
    BY <2>2, <2>4, <2>5, <2>6 DEF AllBefore
  <2>9. Good(t)
    BY <2>7, <2>8
  <2> HIDE DEF Good
  <2> QED BY <2>1, <2>9 DEF t
<1> HIDE DEF S
<1>3. Seq(Jobs) \subseteq S
  BY <1>1, <1>2, SeqInSet
<1> QED BY <1>3 DEF S

LEMMA RisingAppend == ASSUME NEW s \in Seq(Pages), NEW p \in Pages, Rising(s), \A q \in Members(s) : q < p
                      PROVE  Rising(Append(s, p))
<1> DEFINE t == Append(s, p)
<1>1. Len(t) = Len(s) + 1 /\ t[Len(s) + 1] = p /\ \A i \in 1 .. Len(s) : t[i] = s[i]
  OBVIOUS
<1>2. Len(s) \in Nat
  OBVIOUS
<1> HIDE DEF t
<1>3. ASSUME NEW i \in 1 .. Len(t), NEW j \in 1 .. Len(t), i < j PROVE t[i] < t[j]
  <2>1. i \in 1 .. Len(s) /\ (j \in 1 .. Len(s) \/ j = Len(s) + 1)
    BY <1>1, <1>2, <1>3
  <2>2. s[i] \in Members(s)
    BY <2>1 DEF Members
  <2> QED BY <1>1, <1>3, <2>1, <2>2 DEF Rising
<1>4. Rising(t)
  BY <1>3 DEF Rising
<1> QED BY <1>4 DEF t

-----------------------------------------------------------------------------
(* The jobs on their way, and the GIF they lead to.                        *)

AtHand == IF wpc \in {"taken", "write"} THEN {wjob} ELSE {}
Under == AtHand \cup Members(queue) \cup Members(todo)
Rest == Members(queue) \cup Members(todo)

LineInv ==
  /\ Ordered(queue) /\ Ordered(todo)
  /\ AllBefore(AtHand, Rest)
  /\ AllBefore(Members(queue), Members(todo))
  /\ \A j \in Under : j.page <= page

RiseInv ==
  /\ Rising(gif) /\ Rising(gifpages)
  /\ \A p \in Members(gifpages) : p <= page
  /\ \A p \in Members(gif) : p <= page
  /\ \A j \in Under : j.kind = "gifframe" => \A p \in Members(gif) : p < j.page

(* Of the frames of pages p to q that are in U, all are in P.              *)
FramesIn(U, p, q, P) ==
  \A j \in U : j.kind = "gifframe" /\ p <= j.page /\ j.page <= q => j.page \in Members(P)

(* Whatever of U is skipped, the GIF at page q has frames of P only.       *)
Certain(U, g, q, P) == Members(g) \subseteq Members(P) /\ FramesIn(U, 0, q, P)

(* It has if none is skipped, since the GIF starts over at f.              *)
StartsAt(U, f, q, P) ==
  f \in U /\ f.kind = "gifframe" /\ f.first /\ f.page <= q /\ FramesIn(U, f.page, q, P)

(* Inline the main thread waits for the worker, and Ctrl-C does not come.  *)
Showing == pc = "show" \/ (Posting /\ then = "show")
InlineWait == mode = "inline" /\ Showing /\ ~intr

EndInv ==
  \A e \in Under : e.kind = "gifend" =>
    \/ Certain(Under, gif, e.page, e.pages)
    \/ InlineWait /\ \E f \in Under : StartsAt(Under, f, e.page, e.pages)

(* Both pictures of page p are still to come.                              *)
Waiting(U, p) == \E x, y \in U : /\ x.kind = "gifframe" /\ x.page = p
                                 /\ y.kind = "frame" /\ y.page = p

StartInv ==
  ~intr /\ gifpages # << >> =>
    \/ Certain(Under, gif, MaxPage, gifpages)
    \/ \E f \in Under :
         /\ StartsAt(Under, f, MaxPage, gifpages)
         /\ \A p \in Members(gifpages) : f.page <= p /\ (mode # "inline" => Waiting(Under, p))

IdleInv ==
  /\ pc \in {"show", "clear"} \/ (Posting /\ then # "command") => gifpages = << >>
  /\ then \in {"command", "show", "gap", "pull"}
  /\ pc \in {"drop", "forget"} => intr
  /\ gifpages # << >> => anim = "gif"

GifFacts == TermInv /\ LineInv /\ RiseInv /\ EndInv /\ StartInv /\ IdleInv

LEMMA UnderJobs == ASSUME TermInv
                   PROVE  /\ Under = AtHand \cup Rest /\ Under \subseteq Jobs
                          /\ MaxPage \in Nat /\ page \in Nat /\ page <= MaxPage
                          /\ \A j \in Jobs : j.page \in Nat /\ j.page <= MaxPage
<1>1. wjob \in Jobs /\ Members(queue) \subseteq Jobs /\ Members(todo) \subseteq Jobs
  BY MembersIn DEF TermInv, WorkTypes, QueueTypes, MainTypes
<1> QED BY <1>1, TermAssumption DEF Under, Rest, AtHand, Jobs, Pages, TermInv, MainTypes

LEMMA UnderJobsNext == ASSUME TermInv' PROVE Under' \subseteq Jobs
<1>1. wjob' \in Jobs /\ Members(queue') \subseteq Jobs /\ Members(todo') \subseteq Jobs
  BY MembersIn DEF TermInv, WorkTypes, QueueTypes, MainTypes
<1> QED BY <1>1 DEF Under, AtHand

(* Nothing on its way changes but stills, and the GIF does not.            *)
LEMMA SameGif == ASSUME GifFacts, TermInv',
                        \A x : x.kind # "still" => (x \in Under' <=> x \in Under),
                        UNCHANGED <<gif, gifpages, mode>>, intr' \/ intr' = intr \/ gifpages = << >>,
                        InlineWait => InlineWait' \/ Under = {}
                 PROVE  EndInv' /\ StartInv'
<1>1. ASSUME NEW p, NEW q, NEW P PROVE FramesIn(Under, p, q, P) <=> FramesIn(Under', p, q, P)
  BY DEF FramesIn
<1>2. ASSUME NEW g, NEW q, NEW P PROVE Certain(Under, g, q, P) <=> Certain(Under', g, q, P)
  BY <1>1 DEF Certain
<1>3. ASSUME NEW f, NEW q, NEW P PROVE StartsAt(Under, f, q, P) <=> StartsAt(Under', f, q, P)
  BY <1>1 DEF StartsAt
<1>4. ASSUME NEW p PROVE Waiting(Under, p) <=> Waiting(Under', p)
  BY DEF Waiting
<1>5. EndInv'
  <2> SUFFICES ASSUME NEW e \in Under', e.kind = "gifend"
               PROVE  \/ Certain(Under', gif', e.page, e.pages)
                      \/ InlineWait' /\ \E f \in Under' : StartsAt(Under', f, e.page, e.pages)
    BY DEF EndInv
  <2>1. e \in Under
    OBVIOUS
  <2>2. \/ Certain(Under, gif, e.page, e.pages)
        \/ InlineWait /\ \E f \in Under : StartsAt(Under, f, e.page, e.pages)
    BY <2>1 DEF GifFacts, EndInv
  <2>3. CASE Certain(Under, gif, e.page, e.pages)
    BY <1>2, <2>3
  <2>4. CASE InlineWait /\ \E f \in Under : StartsAt(Under, f, e.page, e.pages)
    <3>1. PICK f \in Under : StartsAt(Under, f, e.page, e.pages)
      BY <2>4
    <3>2. StartsAt(Under', f, e.page, e.pages)
      BY <1>3, <3>1
    <3> QED BY <2>4, <3>2 DEF StartsAt
  <2> QED BY <2>2, <2>3, <2>4
<1>6. StartInv'
  <2> SUFFICES ASSUME ~intr', gifpages' # << >>
               PROVE  \/ Certain(Under', gif', MaxPage, gifpages')
                      \/ \E f \in Under' :
                          /\ StartsAt(Under', f, MaxPage, gifpages')
                          /\ \A p \in Members(gifpages') : f.page <= p /\ (mode' # "inline" => Waiting(Under', p))
    BY DEF StartInv
  <2>1. ~intr /\ gifpages # << >>
    OBVIOUS
  <2>2. CASE Certain(Under, gif, MaxPage, gifpages)
    BY <1>2, <2>2
  <2>3. CASE \E f \in Under :
               /\ StartsAt(Under, f, MaxPage, gifpages)
               /\ \A p \in Members(gifpages) : f.page <= p /\ (mode # "inline" => Waiting(Under, p))
    <3>1. PICK f \in Under :
               /\ StartsAt(Under, f, MaxPage, gifpages)
               /\ \A p \in Members(gifpages) : f.page <= p /\ (mode # "inline" => Waiting(Under, p))
      BY <2>3
    <3>2. StartsAt(Under', f, MaxPage, gifpages') /\ f \in Under'
      BY <1>3, <3>1 DEF StartsAt
    <3>3. \A p \in Members(gifpages') : f.page <= p /\ (mode' # "inline" => Waiting(Under', p))
      BY <1>4, <3>1
    <3> QED BY <3>2, <3>3
  <2> QED BY <2>1, <2>2, <2>3 DEF GifFacts, StartInv
<1> QED BY <1>5, <1>6

(* Jobs that are no GIF's are added, or newer frames; some are dropped.    *)
LEMMA LessGif == ASSUME GifFacts, TermInv', ~InlineWait,
                        \A x \in Under' : x \in Under \/ (x.kind = "gifframe" /\ x.page > page)
                                          \/ x.kind \notin {"gifframe", "gifend"},
                        Members(gif') \subseteq Members(gif)
                 PROVE  EndInv'
<1> SUFFICES ASSUME NEW e \in Under', e.kind = "gifend"
             PROVE  Certain(Under', gif', e.page, e.pages)
  BY DEF EndInv
<1>1. e \in Under
  OBVIOUS
<1>2. Certain(Under, gif, e.page, e.pages)
  BY <1>1 DEF GifFacts, EndInv
<1>3. e.page <= page /\ e.page \in Nat /\ page \in Nat /\ \A j \in Under' : j.page \in Nat
  BY <1>1, UnderJobs, UnderJobsNext DEF GifFacts, LineInv
<1>4. FramesIn(Under', 0, e.page, e.pages)
  BY <1>2, <1>3 DEF FramesIn, Certain
<1> QED BY <1>2, <1>4 DEF Certain

(* The worker is done with a job that adds no frame.                       *)
LEMMA DropsHand == ASSUME GifFacts, TermInv', wpc \in {"taken", "write"}, wjob.kind # "gifframe",
                          Under' = Rest, Members(gif') \subseteq Members(gif),
                          UNCHANGED <<gifpages, mode, intr>>, InlineWait' = InlineWait
                   PROVE  EndInv' /\ StartInv'
<1>1. Under = {wjob} \cup Rest /\ Rest \subseteq Under
  BY DEF Under, Rest, AtHand
<1>2. \A r \in Rest : Before(wjob, r)
  BY DEF GifFacts, LineInv, AtHand, AllBefore
<1>3. /\ \A j \in Under : j.page \in Nat
      /\ \A p \in Members(gifpages) : p \in Nat
  BY UnderJobs, MembersIn DEF GifFacts, TermInv, MainTypes, Pages
<1>4. ASSUME NEW p, NEW q, NEW P, FramesIn(Under, p, q, P) PROVE FramesIn(Under', p, q, P)
  BY <1>1, <1>4 DEF FramesIn
<1>5. ASSUME NEW q, NEW P, Certain(Under, gif, q, P) PROVE Certain(Under', gif', q, P)
  BY <1>4, <1>5 DEF Certain
<1>6. ASSUME NEW f, NEW q, NEW P, StartsAt(Under, f, q, P) PROVE StartsAt(Under', f, q, P) /\ f \in Rest
  BY <1>1, <1>4, <1>6 DEF StartsAt
<1>7. EndInv'
  <2> SUFFICES ASSUME NEW e \in Under', e.kind = "gifend"
               PROVE  \/ Certain(Under', gif', e.page, e.pages)
                      \/ InlineWait' /\ \E f \in Under' : StartsAt(Under', f, e.page, e.pages)
    BY DEF EndInv
  <2>1. \/ Certain(Under, gif, e.page, e.pages)
        \/ InlineWait /\ \E f \in Under : StartsAt(Under, f, e.page, e.pages)
    BY <1>1 DEF GifFacts, EndInv
  <2> QED BY <1>5, <1>6, <2>1
<1>8. StartInv'
  <2> SUFFICES ASSUME ~intr, gifpages # << >>
               PROVE  \/ Certain(Under', gif', MaxPage, gifpages)
                      \/ \E f \in Under' :
                          /\ StartsAt(Under', f, MaxPage, gifpages)
                          /\ \A p \in Members(gifpages) : f.page <= p /\ (mode # "inline" => Waiting(Under', p))
    BY DEF StartInv
  <2>1. CASE Certain(Under, gif, MaxPage, gifpages)
    BY <1>5, <2>1
  <2>2. CASE \E f \in Under :
               /\ StartsAt(Under, f, MaxPage, gifpages)
               /\ \A p \in Members(gifpages) : f.page <= p /\ (mode # "inline" => Waiting(Under, p))
    <3>1. PICK f \in Under :
               /\ StartsAt(Under, f, MaxPage, gifpages)
               /\ \A p \in Members(gifpages) : f.page <= p /\ (mode # "inline" => Waiting(Under, p))
      BY <2>2
    <3>2. StartsAt(Under', f, MaxPage, gifpages) /\ f \in Rest
      BY <1>6, <3>1
    <3>3. wjob.page < f.page
      BY <1>2, <3>1, <3>2 DEF StartsAt, Before
    <3>4. ASSUME NEW p \in Members(gifpages), Waiting(Under, p) PROVE Waiting(Under', p)
      <4>1. f.page <= p /\ f.page \in Nat /\ p \in Nat /\ wjob.page \in Nat
        BY <1>1, <1>3, <3>1
      <4>2. wjob.page # p
        BY <3>3, <4>1
      <4> QED BY <1>1, <3>4, <4>2 DEF Waiting
    <3> QED BY <3>1, <3>2, <3>4
  <2> QED BY <2>1, <2>2 DEF GifFacts, StartInv
<1> QED BY <1>7, <1>8

(* The worker adds a frame to the GIF, or starts it over with it.          *)
LEMMA FoldsHand == ASSUME GifFacts, TermInv', wpc = "taken", wjob.kind = "gifframe",
                          Under' = Rest,
                          gif' = Append(IF wjob.first THEN << >> ELSE gif, wjob.page),
                          UNCHANGED <<gifpages, mode, intr>>, InlineWait' = InlineWait
                   PROVE  EndInv' /\ StartInv'
<1>1. Under = {wjob} \cup Rest /\ Rest \subseteq Under
  BY DEF Under, Rest, AtHand
<1>2. \A r \in Rest : Before(wjob, r)
  BY DEF GifFacts, LineInv, AtHand, AllBefore
<1>3. /\ \A j \in Under : j.page \in Nat /\ j.page <= MaxPage
      /\ \A p \in Members(gifpages) : p \in Nat
      /\ MaxPage \in Nat
  BY UnderJobs, MembersIn DEF GifFacts, TermInv, MainTypes, Pages
<1>4. Members(gif') = Members(IF wjob.first THEN << >> ELSE gif) \cup {wjob.page}
  <2>1. gif \in Seq(Pages) /\ << >> \in Seq(Pages)
    BY DEF GifFacts, TermInv, WorkTypes
  <2>2. (IF wjob.first THEN << >> ELSE gif) \in Seq(Pages)
    BY <2>1
  <2> QED BY <2>2, MembersAppend
<1>5. /\ Members(gif') \subseteq Members(gif) \cup {wjob.page}
      /\ wjob.first => Members(gif') = {wjob.page}
  BY <1>4, MembersFew
<1>6. ASSUME NEW p, NEW q, NEW P, FramesIn(Under, p, q, P) PROVE FramesIn(Under', p, q, P)
  BY <1>1, <1>6 DEF FramesIn
<1>7. ASSUME NEW q \in Nat, NEW P, wjob.page <= q, Certain(Under, gif, q, P)
      PROVE  Certain(Under', gif', q, P)
  <2>1. 0 <= wjob.page
    BY <1>1, <1>3
  <2>2. wjob.page \in Members(P)
    BY <1>1, <1>7, <2>1 DEF Certain, FramesIn
  <2> QED BY <1>5, <1>6, <1>7, <2>2 DEF Certain
<1>8. ASSUME NEW q \in Nat, NEW P, StartsAt(Under, wjob, q, P)
      PROVE  Certain(Under', gif', q, P)
  <2>1. wjob.page <= wjob.page /\ wjob.page <= q
    BY <1>1, <1>3, <1>8 DEF StartsAt
  <2>2. wjob.page \in Members(P)
    BY <1>8, <2>1 DEF StartsAt, FramesIn
  <2>3. ASSUME NEW j \in Under', j.kind = "gifframe", j.page <= q PROVE j.page \in Members(P)
    <3>1. j \in Under /\ wjob.page < j.page /\ j.page \in Nat /\ wjob.page \in Nat
      BY <1>1, <1>2, <1>3, <2>3 DEF Before
    <3>2. wjob.page <= j.page
      BY <3>1
    <3> QED BY <1>8, <2>3, <3>1, <3>2 DEF StartsAt, FramesIn
  <2> QED BY <1>5, <1>8, <2>2, <2>3 DEF Certain, FramesIn, StartsAt
<1>9. ASSUME NEW f, NEW q, NEW P, f # wjob, StartsAt(Under, f, q, P)
      PROVE  StartsAt(Under', f, q, P) /\ f \in Rest
  BY <1>1, <1>6, <1>9 DEF StartsAt
<1>10. EndInv'
  <2> SUFFICES ASSUME NEW e \in Under', e.kind = "gifend"
               PROVE  \/ Certain(Under', gif', e.page, e.pages)
                      \/ InlineWait' /\ \E f \in Under' : StartsAt(Under', f, e.page, e.pages)
    BY DEF EndInv
  <2>1. e.page \in Nat /\ wjob.page <= e.page
    BY <1>1, <1>2, <1>3 DEF Before
  <2>2. \/ Certain(Under, gif, e.page, e.pages)
        \/ InlineWait /\ \E f \in Under : StartsAt(Under, f, e.page, e.pages)
    BY <1>1 DEF GifFacts, EndInv
  <2> QED BY <1>7, <1>8, <1>9, <2>1, <2>2
<1>11. StartInv'
  <2> SUFFICES ASSUME ~intr, gifpages # << >>
               PROVE  \/ Certain(Under', gif', MaxPage, gifpages)
                      \/ \E f \in Under' :
                          /\ StartsAt(Under', f, MaxPage, gifpages)
                          /\ \A p \in Members(gifpages) : f.page <= p /\ (mode # "inline" => Waiting(Under', p))
    BY DEF StartInv
  <2>0. wjob.page <= MaxPage
    BY <1>1, <1>3
  <2>1. CASE Certain(Under, gif, MaxPage, gifpages)
    BY <1>3, <1>7, <2>0, <2>1
  <2>2. CASE \E f \in Under :
               /\ StartsAt(Under, f, MaxPage, gifpages)
               /\ \A p \in Members(gifpages) : f.page <= p /\ (mode # "inline" => Waiting(Under, p))
    <3>1. PICK f \in Under :
               /\ StartsAt(Under, f, MaxPage, gifpages)
               /\ \A p \in Members(gifpages) : f.page <= p /\ (mode # "inline" => Waiting(Under, p))
      BY <2>2
    <3>2. CASE f = wjob
      BY <1>3, <1>8, <3>1, <3>2
    <3>3. CASE f # wjob
      <4>1. StartsAt(Under', f, MaxPage, gifpages) /\ f \in Rest
        BY <1>9, <3>1, <3>3
      <4>2. wjob.page < f.page
        BY <1>2, <3>1, <4>1 DEF StartsAt, Before
      <4>3. ASSUME NEW p \in Members(gifpages), Waiting(Under, p) PROVE Waiting(Under', p)
        <5>1. f.page <= p /\ f.page \in Nat /\ p \in Nat /\ wjob.page \in Nat
          BY <1>1, <1>3, <3>1
        <5>2. wjob.page # p
          BY <4>2, <5>1
        <5> QED BY <1>1, <4>3, <5>2 DEF Waiting
      <4> QED BY <3>1, <4>1, <4>3
    <3> QED BY <3>2, <3>3
  <2> QED BY <2>1, <2>2 DEF GifFacts, StartInv
<1> QED BY <1>10, <1>11

(* The order is kept.                                                      *)
LEMMA NumbersHere == ASSUME TermInv, TermInv'
                     PROVE  /\ page \in Nat /\ page' \in Nat
                            /\ \A j \in Under \cup Under' : j.page \in Nat
                            /\ \A p \in Members(gif) \cup Members(gif') : p \in Nat
                            /\ \A p \in Members(gifpages) \cup Members(gifpages') : p \in Nat
<1>1. /\ Members(gif) \subseteq Pages /\ Members(gif') \subseteq Pages
      /\ Members(gifpages) \subseteq Pages /\ Members(gifpages') \subseteq Pages
      /\ page \in Pages /\ page' \in Pages
  BY MembersIn DEF TermInv, MainTypes, WorkTypes
<1>2. Under \cup Under' \subseteq Jobs /\ \A j \in Jobs : j.page \in Nat
  BY UnderJobs, UnderJobsNext
<1> QED BY <1>1, <1>2 DEF Pages

LEMMA QuietGif == ASSUME GifFacts, TermInv', UNCHANGED <<queue, todo, gif, gifpages, mode>>,
                         AtHand' = AtHand, page' >= page,
                         intr' \/ intr' = intr \/ gifpages = << >>,
                         InlineWait => InlineWait' \/ Under = {}, IdleInv'
                  PROVE  GifFacts'
<1>1. Under' = Under /\ Rest' = Rest
  BY DEF Under, Rest
<1>2. EndInv' /\ StartInv'
  BY <1>1, SameGif
<1>3. page \in Nat /\ page' \in Nat /\ \A j \in Under : j.page \in Nat
  BY NumbersHere DEF GifFacts
<1>4. LineInv'
  BY <1>1, <1>3 DEF GifFacts, LineInv
<1>5. (\A p \in Members(gif) : p \in Nat) /\ (\A p \in Members(gifpages) : p \in Nat)
  BY NumbersHere DEF GifFacts
<1>6. RiseInv'
  BY <1>1, <1>3, <1>5 DEF GifFacts, RiseInv
<1> QED BY <1>2, <1>4, <1>6 DEF GifFacts

(* What is posted is newer than what is on its way.                        *)
LEMMA AddsLine == ASSUME GifFacts, TermInv', todo = << >>, queue' = queue, AtHand' = AtHand, gif' = gif,
                         page' >= page, Ordered(todo'),
                         \A x \in Members(todo') : /\ page <= x.page /\ x.page <= page'
                                                   /\ x.kind = "gifframe" => page < x.page
                  PROVE  /\ LineInv' /\ Under' = Under \cup Members(todo')
                         /\ \A j \in Under' : j.kind = "gifframe" => \A p \in Members(gif) : p < j.page
                         /\ \A p \in Members(gif) : p <= page'
<1>1. Members(todo) = {} /\ Under' = Under \cup Members(todo') /\ Rest' = Members(queue) \cup Members(todo')
  BY MembersFew DEF Under, Rest
<1>2. /\ page \in Nat /\ page' \in Nat /\ (\A j \in Under \cup Under' : j.page \in Nat)
      /\ \A p \in Members(gif) : p \in Nat
  BY NumbersHere DEF GifFacts
<1>3. ASSUME NEW y \in Under, NEW x \in Members(todo') PROVE Before(y, x)
  <2>1. y.page <= page
    BY DEF GifFacts, LineInv
  <2>2. y.page \in Nat /\ x.page \in Nat
    BY <1>1, <1>2
  <2> QED BY <1>2, <2>1, <2>2 DEF Before
<1>4. AllBefore(AtHand, Members(queue))
  BY DEF GifFacts, LineInv, AllBefore, Rest
<1>5. AllBefore(AtHand, Rest') /\ AllBefore(Members(queue), Members(todo'))
  BY <1>1, <1>3, <1>4 DEF AllBefore, Under
<1>6. \A j \in Under' : j.page <= page'
  BY <1>1, <1>2 DEF GifFacts, LineInv
<1>7. LineInv'
  BY <1>5, <1>6 DEF GifFacts, LineInv
<1>8. \A p \in Members(gif) : p <= page
  BY DEF GifFacts, RiseInv
<1>9. \A j \in Under' : j.kind = "gifframe" => \A p \in Members(gif) : p < j.page
  <2> SUFFICES ASSUME NEW j \in Under', j.kind = "gifframe", NEW p \in Members(gif) PROVE p < j.page
    OBVIOUS
  <2>1. CASE j \in Under
    BY <2>1 DEF GifFacts, RiseInv
  <2>2. CASE j \in Members(todo')
    <3>1. page < j.page /\ p <= page /\ j.page \in Nat /\ p \in Nat
      BY <1>2, <1>8, <2>2
    <3> QED BY <1>2, <3>1
  <2> QED BY <1>1, <2>1, <2>2
<1> QED BY <1>1, <1>2, <1>7, <1>8, <1>9

(* The worker puts its job away.                                           *)
LEMMA HandLine == ASSUME GifFacts, TermInv', UNCHANGED <<queue, todo, gifpages, page>>, AtHand' = {},
                         gif' = << >> \/ gif' = gif
                  PROVE  LineInv' /\ RiseInv' /\ Under' = Rest /\ Members(gif') \subseteq Members(gif)
<1>1. Under' = Rest /\ Rest' = Rest /\ Rest \subseteq Under
  BY DEF Under, Rest
<1>2. Members(gif') \subseteq Members(gif)
  BY MembersFew
<1>3. LineInv'
  BY <1>1 DEF GifFacts, LineInv, AllBefore
<1>4. Rising(gif')
  BY DEF GifFacts, RiseInv, Rising
<1>5. RiseInv'
  BY <1>1, <1>2, <1>4 DEF GifFacts, RiseInv
<1> QED BY <1>1, <1>2, <1>3, <1>5

LEMMA FoldLine == ASSUME GifFacts, TermInv', UNCHANGED <<queue, todo, gifpages, page>>, wpc = "taken",
                         AtHand' = {}, wjob.kind = "gifframe",
                         gif' = Append(IF wjob.first THEN << >> ELSE gif, wjob.page)
                  PROVE  LineInv' /\ RiseInv' /\ Under' = Rest
<1>1. Under' = Rest /\ Rest' = Rest /\ Under = {wjob} \cup Rest /\ AtHand = {wjob}
  BY DEF Under, Rest, AtHand
<1>2. LineInv'
  BY <1>1 DEF GifFacts, LineInv, AllBefore
<1> DEFINE b == IF wjob.first THEN << >> ELSE gif
<1>3. b \in Seq(Pages) /\ wjob.page \in Pages
  <2>1. gif \in Seq(Pages) /\ << >> \in Seq(Pages) /\ wjob \in Jobs
    BY DEF GifFacts, TermInv, WorkTypes
  <2> QED BY <2>1 DEF Jobs
<1>4. Rising(b) /\ \A p \in Members(b) : p < wjob.page /\ p \in Members(gif)
  <2>1. Rising(gif) /\ \A p \in Members(gif) : p < wjob.page
    BY <1>1 DEF GifFacts, RiseInv
  <2>2. Rising(<< >>) /\ Members(<< >>) = {}
    BY MembersFew DEF Rising
  <2> QED BY <2>1, <2>2
<1>5. gif' = Append(b, wjob.page)
  OBVIOUS
<1> HIDE DEF b
<1>6. Rising(gif') /\ Members(gif') = Members(b) \cup {wjob.page}
  BY <1>3, <1>4, <1>5, RisingAppend, MembersAppend
<1>7. wjob.page <= page /\ \A j \in Rest : j.kind = "gifframe" => wjob.page < j.page
  BY <1>1 DEF GifFacts, LineInv, AllBefore, Before
<1>8. RiseInv'
  BY <1>1, <1>4, <1>6, <1>7 DEF GifFacts, RiseInv
<1> QED BY <1>1, <1>2, <1>8

-----------------------------------------------------------------------------
(* The steps that change nothing of it.                                    *)

LEMMA QuietCommand == ASSUME GifFacts, TermInv', Draw \/ SetXsize \/ Pull \/ EndCommand \/ Quit \/ User \/ Gone
                      PROVE  GifFacts'
<1>1. UNCHANGED <<queue, todo, gif, gifpages, mode, anim, intr, then, wpc, wjob>>
  BY DEF Draw, SetXsize, Pull, EndCommand, Quit, User, Prompt, Enter, Begin, Answer, Gone, Stop, Join,
         Goto, quiet, envvars, postvars, workvars, NewPage
<1>2. page' = page \/ page' = page + 1
  BY DEF Draw, SetXsize, Pull, EndCommand, Quit, User, Prompt, Enter, Begin, Answer, Gone, Stop, Join,
         Goto, pagevars, NewPage
<1>3. /\ pc \in {"command", "ending", "pull", "gap", "prompt", "begin", "quit", "join"}
      /\ pc' \in {"command", "ending", "pull", "gap", "prompt", "begin", "quit", "join", "top", "ended"}
  BY DEF Draw, SetXsize, Pull, EndCommand, Quit, User, Prompt, Enter, Begin, Answer, Gone, Stop, Join,
         Goto, postvars
<1>4. AtHand' = AtHand
  BY <1>1 DEF AtHand
<1>5. page' >= page
  BY <1>2, UnderJobs DEF GifFacts
<1>6. ~InlineWait
  BY <1>3 DEF InlineWait, Showing, Posting
<1>7. IdleInv'
  BY <1>1, <1>3 DEF GifFacts, IdleInv, Posting
<1> QED BY <1>1, <1>4, <1>5, <1>6, <1>7, QuietGif

LEMMA QuietIdle == ASSUME GifFacts, TermInv', IdleInterrupted \/ IdlePrint \/ IdleClear
                   PROVE  GifFacts'
<1>1. UNCHANGED <<queue, todo, gif, gifpages, mode, anim, then, wpc, wjob, page>>
  BY DEF IdleInterrupted, IdlePrint, IdleClear, Goto, envvars, pagevars, workvars
<1>2. AtHand' = AtHand /\ page' >= page
  BY <1>1, UnderJobs DEF AtHand, GifFacts
<1>3. CASE IdleInterrupted
  <2>1. pc = "top" /\ pc' = "drop" /\ intr /\ intr'
    BY <1>3 DEF IdleInterrupted, Goto
  <2>2. IdleInv'
    BY <1>1, <2>1 DEF GifFacts, IdleInv, Posting
  <2> QED BY <1>1, <1>2, <2>1, <2>2, QuietGif DEF InlineWait
<1>4. CASE IdlePrint
  <2>1. pc = "show" /\ pc' = "clear" /\ intr' = intr /\ (mode = "inline" => WorkDone)
    BY <1>4 DEF IdlePrint
  <2>2. IdleInv'
    BY <1>1, <2>1 DEF GifFacts, IdleInv, Posting
  <2>3. mode = "inline" => Under = {}
    <3>1. todo = << >>
      BY <2>1 DEF GifFacts, TermInv, TodoInv
    <3> QED BY <2>1, <3>1, MembersFew DEF WorkDone, busy, Under, AtHand
  <2> QED BY <1>1, <1>2, <2>1, <2>2, <2>3, QuietGif DEF InlineWait
<1>5. CASE IdleClear
  <2>1. pc = "clear" /\ pc' = ret /\ ~intr' /\ ret \in {"gap", "pull"}
    BY <1>5 DEF IdleClear, GifFacts, TermInv, MainTypes
  <2>2. gifpages = << >>
    BY <2>1 DEF GifFacts, IdleInv
  <2>3. IdleInv'
    BY <1>1, <2>1 DEF GifFacts, IdleInv, Posting
  <2>4. ~InlineWait
    BY <2>1 DEF InlineWait, Showing, Posting
  <2> QED BY <1>1, <1>2, <2>2, <2>3, <2>4, QuietGif
<1> QED BY <1>3, <1>4, <1>5

LEMMA QuietWork == ASSUME GifFacts, TermInv', WSend \/ WFinish \/ WResize \/ Pane \/ UNCHANGED vars
                   PROVE  GifFacts'
<1>1. UNCHANGED <<queue, todo, gif, gifpages, mode, anim, intr, then, pc, page>>
  BY DEF WSend, WFinish, WResize, Pane, vars, mainvars, workvars, envvars, pagevars, postvars
<1>2. (wpc' = wpc /\ wjob' = wjob) \/ (wpc = "send" /\ wpc' = "finish") \/ (wpc = "finish" /\ wpc' = "idle")
  BY DEF WSend, WFinish, WResize, Pane, vars, workvars
<1>3. AtHand' = AtHand /\ page' >= page
  BY <1>1, <1>2, UnderJobs DEF AtHand, GifFacts
<1>4. IdleInv' /\ InlineWait' = InlineWait
  BY <1>1 DEF GifFacts, IdleInv, Posting, InlineWait, Showing
<1> QED BY <1>1, <1>3, <1>4, QuietGif

LEMMA SignalGif == ASSUME ~SignalInIdle, GifFacts, TermInv', Signal PROVE GifFacts'
<1>1. UNCHANGED <<queue, todo, gif, gifpages, mode, anim, then, pc, page, wpc, wjob>> /\ intr'
  BY DEF Signal, workvars, envvars, pagevars, postvars
<1>2. ~Showing
  BY DEF Signal, InCommand, InGap, Showing, Posting
<1>3. AtHand' = AtHand /\ page' >= page
  BY <1>1, UnderJobs DEF AtHand, GifFacts
<1>4. IdleInv'
  BY <1>1 DEF GifFacts, IdleInv, Posting
<1> QED BY <1>1, <1>2, <1>3, <1>4, QuietGif DEF InlineWait
-----------------------------------------------------------------------------
(* Posting.                                                                *)

LEMMA StillPosting == ASSUME GifFacts, Posting, UNCHANGED <<then, gifpages, anim, mode, intr>>,
                             pc' \in {then, "post", "lock", "sync"}
                      PROVE  IdleInv' /\ (InlineWait => InlineWait')
<1>1. IdleInv'
  BY DEF GifFacts, IdleInv, Posting
<1>2. InlineWait => InlineWait'
  BY DEF InlineWait, Showing, Posting
<1> QED BY <1>1, <1>2

(* Jobs are taken from the line.                                           *)
LEMMA LessLine == ASSUME GifFacts, TermInv', UNCHANGED <<gif, gifpages, page>>, AtHand' = AtHand,
                         Ordered(queue'), Members(queue') \subseteq Members(queue),
                         Ordered(todo'), Members(todo') \subseteq Members(todo)
                  PROVE  LineInv' /\ RiseInv' /\ Under' \subseteq Under
<1>1. Rest' \subseteq Rest /\ Under' \subseteq Under
  BY DEF Under, Rest
<1>2. LineInv'
  BY <1>1 DEF GifFacts, LineInv, AllBefore
<1>3. RiseInv'
  BY <1>1 DEF GifFacts, RiseInv
<1> QED BY <1>1, <1>2, <1>3

(* After Ctrl-C fewer jobs are no harm.                                    *)
LEMMA LessAfter == ASSUME GifFacts, TermInv', intr, intr', Under' \subseteq Under, gif' = gif
                   PROVE  EndInv' /\ StartInv'
<1>1. EndInv'
  BY LessGif DEF InlineWait
<1>2. StartInv'
  BY DEF StartInv
<1> QED BY <1>1, <1>2

LEMMA PostSyncGif == ASSUME GifFacts, TermInv', PostSync PROVE GifFacts'
<1>1. UNCHANGED <<queue, todo, then, gif, gifpages, mode, anim, intr, page, wpc, wjob>>
  BY DEF PostSync, PostThen, envvars, pagevars, workvars
<1>2. Posting /\ pc' \in {then, "post"}
  BY DEF PostSync, PostThen, Posting
<1>3. IdleInv' /\ (InlineWait => InlineWait')
  BY <1>1, <1>2, StillPosting
<1>4. AtHand' = AtHand /\ page' >= page
  BY <1>1, UnderJobs DEF AtHand, GifFacts
<1> QED BY <1>1, <1>3, <1>4, QuietGif

LEMMA PostCheckGif == ASSUME GifFacts, TermInv', PostCheck PROVE GifFacts'
<1>1. UNCHANGED <<queue, then, gif, gifpages, mode, anim, intr, page, wpc, wjob>> /\ pc = "post"
  BY DEF PostCheck, Posted, PostThen, envvars, pagevars, workvars
<1>2. Posting /\ pc' \in {then, "post", "lock"}
  BY DEF PostCheck, Posted, PostThen, Posting
<1>3. IdleInv' /\ (InlineWait => InlineWait')
  BY <1>1, <1>2, StillPosting
<1>4. AtHand' = AtHand /\ page' >= page
  BY <1>1, UnderJobs DEF AtHand, GifFacts
<1>5. CASE todo' = todo
  BY <1>1, <1>3, <1>4, <1>5, QuietGif
<1>6. CASE intr /\ todo' = Tail(todo)
  <2>1. todo \in Seq(Jobs) /\ todo # << >> /\ Ordered(todo)
    BY <1>1 DEF GifFacts, TermInv, MainTypes, TodoInv, LineInv
  <2>2. Ordered(todo') /\ Members(todo') \subseteq Members(todo)
    BY <1>6, <2>1, HeadFirst
  <2>3. LineInv' /\ RiseInv' /\ Under' \subseteq Under
    BY <1>1, <1>4, <2>2, LessLine DEF GifFacts, LineInv
  <2>4. EndInv' /\ StartInv'
    BY <1>1, <1>6, <2>3, LessAfter
  <2> QED BY <1>3, <2>3, <2>4 DEF GifFacts
<1> QED BY <1>5, <1>6 DEF PostCheck, Posted, PostThen

LEMMA SupersededLine == ASSUME TermInv, Ordered(queue), NEW j
                        PROVE  /\ Superseded(j) \in Seq(Jobs) /\ Ordered(Superseded(j))
                               /\ Members(Superseded(j)) \subseteq Members(queue)
                               /\ \A x \in Members(queue) : x.kind # "still" => x \in Members(Superseded(j))
<1>1. queue \in Seq(Jobs) /\ Superseded(j) \in Seq(Jobs) /\ Members(queue) \subseteq Jobs
  BY SupersededType, MembersIn DEF TermInv, QueueTypes
<1> DEFINE K == Kinds \ {"still"}
<1>2. Members(Only(queue, K)) = {x \in Members(queue) : x.kind \in K} /\ Ordered(Only(queue, K))
  <2> HIDE DEF K
  <2> QED BY <1>1, OrderedOnly
<1>3. \A x \in Members(queue) : x.kind # "still" => x.kind \in K
  BY <1>1 DEF Jobs
<1>4. Superseded(j) = queue \/ Superseded(j) = Only(queue, K)
  BY DEF Superseded
<1> HIDE DEF K
<1> QED BY <1>1, <1>2, <1>3, <1>4

LEMMA PostLockedGif == ASSUME GifFacts, TermInv', PostLocked PROVE GifFacts'
<1> DEFINE j == Head(todo)
           s == Superseded(j)
<1>1. UNCHANGED <<then, gif, gifpages, mode, anim, intr, page, wpc, wjob>> /\ pc = "lock" /\ todo' = Tail(todo)
  BY DEF PostLocked, Posted, PostThen, envvars, pagevars, workvars
<1>2. Posting /\ pc' \in {then, "post", "sync"}
  BY DEF PostLocked, Posted, PostThen, Posting
<1>3. IdleInv' /\ (InlineWait => InlineWait')
  BY <1>1, <1>2, StillPosting
<1>4. AtHand' = AtHand
  BY <1>1 DEF AtHand
<1>5. /\ todo \in Seq(Jobs) /\ todo # << >> /\ Ordered(todo) /\ Ordered(queue)
      /\ AllBefore(AtHand, Rest) /\ AllBefore(Members(queue), Members(todo))
  BY <1>1 DEF GifFacts, TermInv, MainTypes, TodoInv, LineInv
<1>6. /\ Ordered(todo') /\ Members(todo) = {j} \cup Members(todo') /\ AllBefore({j}, Members(todo')) 
      /\ j \in Jobs
  <2>1. Ordered(Tail(todo)) /\ Members(todo) = {j} \cup Members(Tail(todo)) /\ AllBefore({j}, Members(Tail(todo)))
    BY <1>5, HeadFirst
  <2>2. j \in Jobs
    BY <1>5
  <2> HIDE DEF j
  <2> QED BY <1>1, <2>1, <2>2
<1>7. /\ s \in Seq(Jobs) /\ Ordered(s) /\ Members(s) \subseteq Members(queue)
      /\ \A x \in Members(queue) : x.kind # "still" => x \in Members(s)
  BY <1>5, SupersededLine DEF GifFacts
<1>8. (intr /\ queue' = s) \/ queue' = Append(s, j)
  BY DEF PostLocked
<1> HIDE DEF s, j
<1>9. CASE intr /\ queue' = s
  <2>1. LineInv' /\ RiseInv' /\ Under' \subseteq Under
    BY <1>1, <1>4, <1>6, <1>7, <1>9, LessLine
  <2>2. EndInv' /\ StartInv'
    BY <1>1, <1>9, <2>1, LessAfter
  <2> QED BY <1>3, <2>1, <2>2 DEF GifFacts
<1>10. CASE queue' = Append(s, j)
  <2>1. Members(queue') = Members(s) \cup {j}
    BY <1>7, <1>10, MembersAppend
  <2>2. Ordered(queue')
    <3>1. AllBefore(Members(s), {j})
      BY <1>5, <1>6, <1>7 DEF AllBefore
    <3> QED BY <1>7, <1>10, <3>1, OrderedAppend
  <2>3. Rest' \subseteq Rest /\ Under' \subseteq Under
    BY <1>4, <1>6, <1>7, <2>1 DEF Under, Rest
  <2>4. \A x : x.kind # "still" => (x \in Under' <=> x \in Under)
    BY <1>4, <1>6, <1>7, <2>1 DEF Under
  <2>5. AllBefore(Members(queue'), Members(todo'))
    BY <1>5, <1>6, <1>7, <2>1 DEF AllBefore
  <2>6. AllBefore(AtHand', Rest')
    BY <1>4, <1>5, <2>3 DEF AllBefore
  <2>7. LineInv'
    BY <1>1, <1>6, <2>2, <2>3, <2>5, <2>6 DEF GifFacts, LineInv
  <2>8. RiseInv'
    BY <1>1, <2>3 DEF GifFacts, RiseInv
  <2>9. EndInv' /\ StartInv'
    BY <1>1, <1>3, <2>4, SameGif
  <2> QED BY <1>3, <2>7, <2>8, <2>9 DEF GifFacts
<1> QED BY <1>8, <1>9, <1>10
-----------------------------------------------------------------------------
(* The worker.                                                             *)

LEMMA WorkKeeps == ASSUME GifFacts, UNCHANGED mainvars
                   PROVE  /\ UNCHANGED <<todo, gifpages, mode, intr, page>>
                          /\ IdleInv' /\ InlineWait' = InlineWait
<1>1. UNCHANGED <<todo, then, pc, gifpages, mode, anim, intr, page>>
  BY DEF mainvars, envvars, pagevars, postvars
<1>2. IdleInv' /\ InlineWait' = InlineWait
  BY <1>1 DEF GifFacts, IdleInv, Posting, InlineWait, Showing
<1> QED BY <1>1, <1>2

LEMMA WTakeGif == ASSUME GifFacts, TermInv', WTake PROVE GifFacts'
<1>1. UNCHANGED <<todo, gifpages, mode, intr, page>> /\ IdleInv' /\ InlineWait' = InlineWait /\ gif' = gif
  BY WorkKeeps DEF WTake
<1> DEFINE h == Head(queue)
<1>2. AtHand = {} /\ AtHand' = {h} /\ queue' = Tail(queue)
  BY DEF WTake, AtHand
<1>3. queue \in Seq(Jobs) /\ queue # << >> /\ Ordered(queue) /\ AllBefore(Members(queue), Members(todo))
  BY DEF GifFacts, TermInv, QueueTypes, LineInv, WTake
<1>4. /\ Members(queue) = {h} \cup Members(queue') /\ AllBefore({h}, Members(queue'))
      /\ Ordered(queue')
  <2>1. /\ Members(queue) = {h} \cup Members(Tail(queue)) /\ AllBefore({h}, Members(Tail(queue)))
        /\ Ordered(Tail(queue))
    BY <1>3, HeadFirst
  <2> HIDE DEF h
  <2> QED BY <1>2, <2>1
<1> HIDE DEF h
<1>5. Under' = Under
  BY <1>1, <1>2, <1>4 DEF Under
<1>6. LineInv'
  <2>1. AllBefore(AtHand', Rest') /\ AllBefore(Members(queue'), Members(todo'))
    BY <1>1, <1>2, <1>3, <1>4 DEF AllBefore, Rest
  <2> QED BY <1>1, <1>4, <1>5, <2>1 DEF GifFacts, LineInv
<1>7. RiseInv'
  BY <1>1, <1>5 DEF GifFacts, RiseInv
<1>8. EndInv' /\ StartInv'
  BY <1>1, <1>5, SameGif
<1> QED BY <1>1, <1>6, <1>7, <1>8 DEF GifFacts

LEMMA HandAway == ASSUME GifFacts, TermInv', UNCHANGED <<mainvars, queue>>, wpc \in {"taken", "write"},
                         AtHand' = {}, wjob.kind # "gifframe", gif' = << >> \/ gif' = gif
                  PROVE  GifFacts'
<1>1. UNCHANGED <<todo, gifpages, mode, intr, page>> /\ IdleInv' /\ InlineWait' = InlineWait
  BY WorkKeeps
<1>2. LineInv' /\ RiseInv' /\ Under' = Rest /\ Members(gif') \subseteq Members(gif)
  BY <1>1, HandLine
<1>3. EndInv' /\ StartInv'
  BY <1>1, <1>2, DropsHand
<1> QED BY <1>1, <1>2, <1>3 DEF GifFacts

LEMMA WLookGif == ASSUME GifFacts, TermInv', WLook PROVE GifFacts'
<1>1. /\ UNCHANGED <<todo, gifpages, mode, intr, page>> /\ IdleInv' /\ InlineWait' = InlineWait
      /\ UNCHANGED <<mainvars, queue, wjob>> /\ wpc = "taken"
  BY WorkKeeps DEF WLook
<1>2. CASE wpc' = "write" /\ gif' = gif
  <2>1. AtHand' = AtHand
    BY <1>1, <1>2 DEF AtHand
  <2>2. page' >= page
    BY <1>1, UnderJobs DEF GifFacts
  <2> QED BY <1>1, <1>2, <2>1, <2>2, QuietGif
<1>3. CASE wpc' = "finish" /\ intr /\ gif' = gif
  <2>1. AtHand' = {}
    BY <1>3 DEF AtHand
  <2>2. LineInv' /\ RiseInv' /\ Under' = Rest
    BY <1>1, <1>3, <2>1, HandLine
  <2>3. EndInv' /\ StartInv'
    BY <1>1, <1>3, <2>2, LessAfter DEF Under, Rest
  <2> QED BY <1>1, <2>2, <2>3 DEF GifFacts
<1>4. CASE wpc' = "finish" /\ wjob.kind # "gifframe" /\ (gif' = << >> \/ gif' = gif)
  <2>1. AtHand' = {}
    BY <1>4 DEF AtHand
  <2> QED BY <1>1, <1>4, <2>1, HandAway
<1>5. CASE wpc' = "finish" /\ wjob.kind = "gifframe" /\ gif' = Append(IF wjob.first THEN << >> ELSE gif, wjob.page)
  <2>1. AtHand' = {}
    BY <1>5 DEF AtHand
  <2>2. LineInv' /\ RiseInv' /\ Under' = Rest
    BY <1>1, <1>5, <2>1, FoldLine
  <2>3. EndInv' /\ StartInv'
    BY <1>1, <1>5, <2>2, FoldsHand
  <2> QED BY <1>1, <2>2, <2>3 DEF GifFacts
<1> QED BY <1>2, <1>3, <1>4, <1>5 DEF WLook

LEMMA WritesGif == ASSUME GifFacts, TermInv', WPublish \/ WFail PROVE GifFacts'
<1>1. UNCHANGED <<mainvars, queue>> /\ wpc = "write" /\ wpc' \in {"send", "finish"} /\ (gif' = << >> \/ gif' = gif)
  BY DEF WPublish, WFail
<1>2. AtHand' = {}
  BY <1>1 DEF AtHand
<1>3. wjob.kind # "gifframe"
  BY <1>1 DEF GifFacts, TermInv, WorkTypes, Pictures
<1> QED BY <1>1, <1>2, <1>3, HandAway

LEMMA WExitGif == ASSUME GifFacts, TermInv', WExit PROVE GifFacts'
<1>1. UNCHANGED <<todo, gifpages, mode, intr, page>> /\ IdleInv' /\ InlineWait' = InlineWait
  BY WorkKeeps DEF WExit
<1>2. queue' = queue /\ AtHand = {} /\ AtHand' = {} /\ gif' = << >>
  BY DEF WExit, AtHand
<1>3. LineInv' /\ RiseInv' /\ Under' = Rest /\ Members(gif') \subseteq Members(gif)
  BY <1>1, <1>2, HandLine
<1>4. Under' = Under
  BY <1>2, <1>3 DEF Under, Rest
<1>5. ASSUME NEW q, NEW P, Certain(Under, gif, q, P) PROVE Certain(Under', gif', q, P)
  BY <1>3, <1>4, <1>5 DEF Certain
<1>6. EndInv'
  BY <1>1, <1>4, <1>5 DEF GifFacts, EndInv
<1>7. StartInv'
  BY <1>1, <1>4, <1>5 DEF GifFacts, StartInv
<1> QED BY <1>1, <1>3, <1>6, <1>7 DEF GifFacts

-----------------------------------------------------------------------------
(* What a command and gxdidle hand over.                                   *)

LEMMA IdleDropGif == ASSUME GifFacts, TermInv', IdleDrop PROVE GifFacts'
<1>1. UNCHANGED <<todo, then, gif, gifpages, mode, anim, intr, page, wpc, wjob>> /\ queue' = << >>
  BY DEF IdleDrop, envvars, pagevars, workvars
<1>2. pc = "drop" /\ pc' = "forget" /\ intr
  BY DEF IdleDrop, GifFacts, IdleInv
<1>3. AtHand' = AtHand
  BY <1>1 DEF AtHand
<1>4. Ordered(queue') /\ Members(queue') = {}
  BY <1>1, MembersFew, OrderedFew
<1>5. LineInv' /\ RiseInv' /\ Under' \subseteq Under
  BY <1>1, <1>3, <1>4, LessLine DEF GifFacts, LineInv
<1>6. EndInv' /\ StartInv'
  BY <1>1, <1>2, <1>5, LessAfter
<1>7. IdleInv'
  BY <1>1, <1>2 DEF GifFacts, IdleInv, Posting
<1> QED BY <1>5, <1>6, <1>7 DEF GifFacts

LEMMA IdleForgetGif == ASSUME GifFacts, TermInv', IdleForget PROVE GifFacts'
<1> DEFINE d == Job("gifdrop", page)
           s == IF gifpages # << >> THEN <<d>> ELSE << >>
<1>1. /\ UNCHANGED <<queue, gif, mode, anim, page, wpc, wjob>> /\ gifpages' = << >> /\ ~intr'
      /\ pc = "forget" /\ PostThen(s, ret) /\ ret \in {"gap", "pull"}
  BY DEF IdleForget, envvars, pagevars, workvars, GifFacts, TermInv, MainTypes
<1>2. d.kind = "gifdrop" /\ d.page = page
  BY DEF Job
<1>3. s = << >> \/ s = <<d>>
  OBVIOUS
<1> HIDE DEF d, s
<1>4. todo' = s /\ then' = ret /\ pc' \in {ret, "post"}
  BY <1>1 DEF PostThen
<1>5. todo = << >> /\ intr
  BY <1>1 DEF GifFacts, TermInv, TodoInv, IdleInv
<1>6. AtHand' = AtHand /\ page \in Nat /\ page' >= page
  BY <1>1, UnderJobs DEF AtHand, GifFacts
<1>7. Ordered(todo') /\ Members(todo') \subseteq {d}
  BY <1>3, <1>4, MembersFew, OrderedFew
<1>8. \A x \in Members(todo') : page <= x.page /\ x.page <= page' /\ (x.kind = "gifframe" => page < x.page)
  BY <1>1, <1>2, <1>6, <1>7
<1>9. /\ LineInv' /\ Under' = Under \cup Members(todo')
      /\ \A j \in Under' : j.kind = "gifframe" => \A p \in Members(gif) : p < j.page
      /\ \A p \in Members(gif) : p <= page'
  BY <1>1, <1>5, <1>6, <1>7, <1>8, AddsLine
<1>10. RiseInv'
  <2>1. Rising(gifpages') /\ Members(gifpages') = {}
    BY <1>1, MembersFew DEF Rising
  <2> QED BY <1>1, <1>9, <2>1 DEF GifFacts, RiseInv
<1>11. EndInv'
  BY <1>1, <1>2, <1>5, <1>7, <1>9, LessGif DEF InlineWait
<1>12. StartInv'
  BY <1>1 DEF StartInv
<1>13. IdleInv'
  BY <1>1, <1>4 DEF GifFacts, IdleInv, Posting
<1> QED BY <1>9, <1>10, <1>11, <1>12, <1>13 DEF GifFacts
(* Other jobs than frames of the GIF come to it.                           *)
LEMMA MoreStart == ASSUME GifFacts, TermInv', Under \subseteq Under',
                          \A x \in Under' : x.kind = "gifframe" => x \in Under,
                          UNCHANGED <<gif, gifpages, mode, intr>>
                   PROVE  StartInv'
<1>1. ASSUME NEW p, NEW q, NEW P PROVE FramesIn(Under, p, q, P) => FramesIn(Under', p, q, P)
  BY DEF FramesIn
<1>2. ASSUME NEW f, NEW q, NEW P, StartsAt(Under, f, q, P) PROVE StartsAt(Under', f, q, P)
  BY <1>1, <1>2 DEF StartsAt
<1>3. ASSUME NEW p, Waiting(Under, p) PROVE Waiting(Under', p)
  BY <1>3 DEF Waiting
<1>4. ASSUME NEW q, NEW P, Certain(Under, gif, q, P) PROVE Certain(Under', gif', q, P)
  BY <1>1, <1>4 DEF Certain
<1> SUFFICES ASSUME ~intr, gifpages # << >>
             PROVE  \/ Certain(Under', gif', MaxPage, gifpages)
                    \/ \E f \in Under' :
                        /\ StartsAt(Under', f, MaxPage, gifpages)
                        /\ \A p \in Members(gifpages) : f.page <= p /\ (mode # "inline" => Waiting(Under', p))
  BY DEF StartInv
<1>5. CASE Certain(Under, gif, MaxPage, gifpages)
  BY <1>4, <1>5
<1>6. CASE \E f \in Under :
             /\ StartsAt(Under, f, MaxPage, gifpages)
             /\ \A p \in Members(gifpages) : f.page <= p /\ (mode # "inline" => Waiting(Under, p))
  <2>1. PICK f \in Under :
             /\ StartsAt(Under, f, MaxPage, gifpages)
             /\ \A p \in Members(gifpages) : f.page <= p /\ (mode # "inline" => Waiting(Under, p))
    BY <1>6
  <2>2. StartsAt(Under', f, MaxPage, gifpages) /\ f \in Under'
    BY <1>2, <2>1
  <2>3. \A p \in Members(gifpages) : f.page <= p /\ (mode # "inline" => Waiting(Under', p))
    BY <1>3, <2>1
  <2> QED BY <2>2, <2>3
<1> QED BY <1>5, <1>6 DEF GifFacts, StartInv

LEMMA OneBefore == /\ << >> \o << >> = << >>
                   /\ \A y : << >> \o <<y>> = <<y>>
                   /\ \A x : <<x>> \o << >> = <<x>>
                   /\ \A x, y : <<x>> \o <<y>> = <<x, y>>
<1>1. << >> \o << >> = << >>
  OBVIOUS
<1>2. ASSUME NEW x PROVE << >> \o <<x>> = <<x>> /\ <<x>> \o << >> = <<x>>
  <2>1. <<x>> \in Seq({x}) /\ << >> \in Seq({x})
    OBVIOUS
  <2> QED BY <2>1
<1>3. ASSUME NEW x, NEW y PROVE <<x>> \o <<y>> = <<x, y>>
  <2>1. <<x>> \in Seq({x, y}) /\ <<y>> \in Seq({x, y}) /\ <<x, y>> \in Seq({x, y})
    OBVIOUS
  <2>2. Len(<<x>>) = 1 /\ Len(<<y>>) = 1 /\ Len(<<x, y>>) = 2
    OBVIOUS
  <2>3. Len(<<x>> \o <<y>>) = 2 /\ (<<x>> \o <<y>>)[1] = x /\ (<<x>> \o <<y>>)[2] = y
    BY <2>1, <2>2
  <2> DEFINE c == <<x>> \o <<y>>
             d == <<x, y>>
  <2>4. c \in Seq({x, y}) /\ d \in Seq({x, y}) /\ d[1] = x /\ d[2] = y
    BY <2>1
  <2>5. Len(c) = Len(d) /\ \A i \in 1 .. Len(c) : c[i] = d[i]
    <3>1. \A i \in 1 .. 2 : i = 1 \/ i = 2
      OBVIOUS
    <3> HIDE DEF d
    <3>2. Len(c) = 2 /\ c[1] = x /\ c[2] = y /\ Len(d) = 2
      BY <2>2, <2>3 DEF d
    <3> HIDE DEF c
    <3> QED BY <2>4, <3>1, <3>2
  <2> HIDE DEF c, d
  <2>6. c = d
    BY <2>4, <2>5
  <2> QED BY <2>6 DEF c, d
<1> QED BY <1>1, <1>2, <1>3

LEMMA FrameShape == ASSUME NEW p, NEW swapped \in BOOLEAN
                    PROVE  LET G == Job("gifframe", p)
                               f == Job("frame", p)
                               s == FrameJobs(p, swapped)
                           IN  \/ s = << >> \/ s = <<f>>
                               \/ /\ s = <<G>> \/ s = <<G, f>>
                                  /\ anim = "gif" /\ swapped /\ (mode # "inline" => s = <<G, f>>)
<1> DEFINE G == Job("gifframe", p)
           f == Job("frame", p)
           s == FrameJobs(p, swapped)
           a == IF anim = "gif" /\ swapped /\ Len(gifpages) < AnimMax THEN <<G>> ELSE << >>
           b == IF anim # "off" /\ mode # "inline" THEN <<f>> ELSE << >>
<1>1. s = a \o b
  BY DEF FrameJobs
<1>2. a = << >> \/ (a = <<G>> /\ anim = "gif" /\ swapped)
  OBVIOUS
<1>3. b = << >> \/ b = <<f>>
  OBVIOUS
<1>4. anim = "gif" /\ mode # "inline" => b = <<f>>
  OBVIOUS
<1> HIDE DEF G, f, s, a, b
<1>5. /\ << >> \o << >> = << >> /\ << >> \o <<f>> = <<f>>
      /\ <<G>> \o << >> = <<G>> /\ <<G>> \o <<f>> = <<G, f>>
  BY OneBefore
<1>6. \/ s = << >> \/ s = <<f>>
      \/ /\ s = <<G>> \/ s = <<G, f>>
         /\ anim = "gif" /\ swapped /\ (mode # "inline" => s = <<G, f>>)
  BY <1>1, <1>2, <1>3, <1>4, <1>5
<1> QED BY <1>6 DEF G, f, s

(* A command hands over a frame at most, and not of the GIF.               *)
LEMMA FrameGif == ASSUME GifFacts, TermInv', UNCHANGED <<quiet, gifpages>>, pc = "command", NewPage,
                         NEW f, f.kind = "frame", f.page \in {page, page + 1},
                         NEW s \in {<< >>, <<f>>}, PostThen(s, "command")
                  PROVE  GifFacts'
<1>1. UNCHANGED <<queue, gif, gifpages, mode, anim, intr, wpc, wjob>> /\ page' = page + 1
  BY DEF quiet, envvars, workvars, NewPage
<1>2. todo' = s /\ then' = "command" /\ pc' \in {"command", "post"}
  BY DEF PostThen
<1>3. todo = << >> /\ ~InlineWait
  BY DEF GifFacts, TermInv, TodoInv, InlineWait, Showing, Posting
<1>4. AtHand' = AtHand /\ page \in Nat /\ page' >= page
  BY <1>1, UnderJobs DEF AtHand, GifFacts
<1>5. Ordered(todo') /\ Members(todo') \subseteq {f}
  BY <1>2, MembersFew, OrderedFew
<1>6. \A x \in Members(todo') : page <= x.page /\ x.page <= page' /\ (x.kind = "gifframe" => page < x.page)
  BY <1>1, <1>4, <1>5
<1>7. /\ LineInv' /\ Under' = Under \cup Members(todo')
      /\ \A j \in Under' : j.kind = "gifframe" => \A p \in Members(gif) : p < j.page
      /\ \A p \in Members(gif) : p <= page'
  BY <1>1, <1>3, <1>4, <1>5, <1>6, AddsLine
<1>8. RiseInv'
  <2>1. \A p \in Members(gifpages) : p \in Nat /\ p <= page
    BY NumbersHere DEF GifFacts, RiseInv
  <2>2. \A p \in Members(gifpages) : p <= page'
    BY <1>1, <1>4, <2>1
  <2> QED BY <1>1, <1>7, <2>2 DEF GifFacts, RiseInv
<1>9. EndInv'
  BY <1>1, <1>3, <1>5, <1>7, LessGif
<1>10. StartInv'
  BY <1>1, <1>5, <1>7, MoreStart
<1>11. IdleInv'
  BY <1>1, <1>2 DEF GifFacts, IdleInv, Posting
<1> QED BY <1>7, <1>8, <1>9, <1>10, <1>11 DEF GifFacts

LEMMA BlankGif == ASSUME GifFacts, TermInv', NEW dbl, Blank(dbl) PROVE GifFacts'
<1> DEFINE f == Job("frame", page)
           s == IF dirty /\ drawn /\ ~intr THEN FrameJobs(page, FALSE) ELSE << >>
<1>1. s \in {<< >>, <<f>>}
  <2>1. FrameJobs(page, FALSE) \in {<< >>, <<f>>}
    BY FrameShape, Zenon
  <2> QED BY <2>1
<1>2. f.kind = "frame" /\ f.page \in {page, page + 1}
  BY DEF Job
<1>3. UNCHANGED <<quiet, gifpages>> /\ pc = "command" /\ NewPage /\ PostThen(s, "command")
  BY DEF Blank
<1> HIDE DEF f, s
<1> QED BY <1>1, <1>2, <1>3, FrameGif
LEMMA SwapGifFrame == ASSUME GifFacts, TermInv', UNCHANGED <<quiet>>, pc = "command", NewPage,
                             NEW G, G = Job("gifframe", page + 1), NEW f, f = Job("frame", page + 1),
                             NEW s, s = <<G>> \/ s = <<G, f>>, mode # "inline" => s = <<G, f>>,
                             PostThen(s, "command"), ~intr, anim = "gif",
                             gifpages' = Append(gifpages, page + 1)
                      PROVE  GifFacts'
<1>1. UNCHANGED <<queue, gif, mode, anim, intr, wpc, wjob>> /\ page' = page + 1
  BY DEF quiet, envvars, workvars, NewPage
<1>2. todo' = s /\ then' = "command" /\ pc' \in {"command", "post"}
  BY DEF PostThen
<1>3. todo = << >> /\ ~InlineWait
  BY DEF GifFacts, TermInv, TodoInv, InlineWait, Showing, Posting
<1>4. AtHand' = AtHand /\ page \in Nat /\ page' >= page /\ MaxPage \in Nat /\ page + 1 <= MaxPage
  <2>1. page < MaxPage
    BY DEF NewPage
  <2> QED BY <1>1, <2>1, UnderJobs DEF AtHand, GifFacts
<1>5. /\ G.kind = "gifframe" /\ G.page = page + 1 /\ (G.first <=> gifpages = << >>)
      /\ f.kind = "frame" /\ f.page = page + 1
  BY DEF Job
<1>6. /\ Ordered(todo') /\ G \in Members(todo') /\ Members(todo') \subseteq {G, f}
      /\ mode # "inline" => f \in Members(todo')
  <2>1. Before(G, f)
    BY <1>4, <1>5 DEF Before
  <2> QED BY <1>2, <2>1, MembersFew, OrderedFew
<1>7. \A x \in Members(todo') : page <= x.page /\ x.page <= page' /\ (x.kind = "gifframe" => page < x.page)
  BY <1>1, <1>4, <1>5, <1>6
<1>8. /\ LineInv' /\ Under' = Under \cup Members(todo')
      /\ \A j \in Under' : j.kind = "gifframe" => \A p \in Members(gif) : p < j.page
      /\ \A p \in Members(gif) : p <= page'
  BY <1>1, <1>3, <1>4, <1>6, <1>7, AddsLine
<1>9. gifpages \in Seq(Pages) /\ page + 1 \in Pages /\ \A p \in Members(gifpages) : p \in Nat
  BY <1>4, NumbersHere DEF GifFacts, TermInv, MainTypes, Pages
<1>10. Members(gifpages') = Members(gifpages) \cup {page + 1}
  BY <1>9, MembersAppend
<1>11. RiseInv'
  <2>1. \A p \in Members(gifpages) : p <= page /\ p < page + 1
    BY <1>4, <1>9 DEF GifFacts, RiseInv
  <2>2. Rising(gifpages')
    BY <1>9, <2>1, RisingAppend DEF GifFacts, RiseInv
  <2>3. \A p \in Members(gifpages') : p <= page'
    BY <1>1, <1>4, <1>9, <1>10, <2>1
  <2> QED BY <1>1, <1>8, <2>2, <2>3 DEF GifFacts, RiseInv
<1>12. EndInv'
  <2>1. page < G.page
    BY <1>4, <1>5
  <2> QED BY <1>1, <1>3, <1>5, <1>6, <1>8, <2>1, LessGif
<1>13. ASSUME NEW p \in Nat, NEW q, FramesIn(Under, p, q, gifpages) PROVE FramesIn(Under', p, q, gifpages')
  BY <1>5, <1>6, <1>8, <1>10, <1>13 DEF FramesIn
<1>14. mode # "inline" => Waiting(Under', page + 1)
  BY <1>5, <1>6, <1>8 DEF Waiting
<1>15. ASSUME NEW p, Waiting(Under, p) PROVE Waiting(Under', p)
  BY <1>8, <1>15 DEF Waiting
<1>16. \A j \in Under : j.page \in Nat /\ j.page <= page
  BY NumbersHere DEF GifFacts, LineInv
<1>17. StartInv'
  <2> SUFFICES \/ Certain(Under', gif', MaxPage, gifpages')
               \/ \E k \in Under' :
                   /\ StartsAt(Under', k, MaxPage, gifpages')
                   /\ \A p \in Members(gifpages') : k.page <= p /\ (mode # "inline" => Waiting(Under', p))
    BY <1>1 DEF StartInv
  <2>1. CASE gifpages = << >>
    <3>1. Members(gifpages') = {page + 1}
      BY <1>10, <2>1, MembersFew
    <3>2. FramesIn(Under', G.page, MaxPage, gifpages')
      <4> SUFFICES ASSUME NEW j \in Under', j.kind = "gifframe", G.page <= j.page PROVE j.page = page + 1
        BY <3>1 DEF FramesIn
      <4>1. CASE j \in Under
        BY <1>4, <1>5, <1>16, <4>1
      <4>2. CASE j \in Members(todo')
        BY <1>5, <1>6, <4>2
      <4> QED BY <1>8, <4>1, <4>2
    <3>3. G \in Under' /\ StartsAt(Under', G, MaxPage, gifpages')
      BY <1>4, <1>5, <1>6, <1>8, <2>1, <3>2 DEF StartsAt
    <3>4. \A p \in Members(gifpages') : G.page <= p /\ (mode # "inline" => Waiting(Under', p))
      BY <1>4, <1>5, <1>14, <3>1
    <3> QED BY <3>3, <3>4
  <2>2. CASE gifpages # << >> /\ Certain(Under, gif, MaxPage, gifpages)
    BY <1>1, <1>10, <1>13, <2>2 DEF Certain
  <2>3. CASE \E k \in Under :
               /\ StartsAt(Under, k, MaxPage, gifpages)
               /\ \A p \in Members(gifpages) : k.page <= p /\ (mode # "inline" => Waiting(Under, p))
    <3>1. PICK k \in Under :
               /\ StartsAt(Under, k, MaxPage, gifpages)
               /\ \A p \in Members(gifpages) : k.page <= p /\ (mode # "inline" => Waiting(Under, p))
      BY <2>3
    <3>2. k.page \in Nat /\ k.page <= page + 1
      BY <1>4, <1>16, <3>1
    <3>3. k \in Under' /\ StartsAt(Under', k, MaxPage, gifpages')
      BY <1>8, <1>13, <3>1, <3>2 DEF StartsAt
    <3>4. \A p \in Members(gifpages') : k.page <= p /\ (mode # "inline" => Waiting(Under', p))
      BY <1>10, <1>14, <1>15, <3>1, <3>2
    <3> QED BY <3>3, <3>4
  <2> QED BY <2>1, <2>2, <2>3 DEF GifFacts, StartInv
<1>18. IdleInv'
  BY <1>1, <1>2 DEF GifFacts, IdleInv, Posting
<1> QED BY <1>8, <1>11, <1>12, <1>17, <1>18 DEF GifFacts

LEMMA SwapFrameGif == ASSUME GifFacts, TermInv', SwapFrame PROVE GifFacts'
<1> DEFINE G == Job("gifframe", page + 1)
           f == Job("frame", page + 1)
           s == IF intr THEN << >> ELSE FrameJobs(page + 1, TRUE)
           has(k) == \E i \in 1 .. Len(s) : s[i].kind = k
<1>1. /\ UNCHANGED quiet /\ pc = "command" /\ NewPage /\ PostThen(s, "command")
      /\ gifpages' = IF has("gifframe") THEN Append(gifpages, page + 1) ELSE gifpages
  BY DEF SwapFrame
<1>2. f.kind = "frame" /\ f.page = page + 1 /\ G.kind = "gifframe"
  BY DEF Job
<1>3. \/ s \in {<< >>, <<f>>}
      \/ /\ s = <<G>> \/ s = <<G, f>>
         /\ ~intr /\ anim = "gif" /\ (mode # "inline" => s = <<G, f>>)
  BY FrameShape, Zenon
<1> HIDE DEF f, s, G
<1>4. CASE s \in {<< >>, <<f>>}
  <2>1. ~has("gifframe")
    BY <1>2, <1>4
  <2>2. gifpages' = gifpages /\ f.page \in {page, page + 1}
    BY <1>1, <1>2, <2>1
  <2> HIDE DEF has
  <2> QED BY <1>1, <1>2, <1>4, <2>2, FrameGif
<1>5. CASE /\ s = <<G>> \/ s = <<G, f>>
           /\ ~intr /\ anim = "gif" /\ (mode # "inline" => s = <<G, f>>)
  <2>1. Len(s) \in {1, 2} /\ s[1] = G
    BY <1>5
  <2>2. has("gifframe")
    BY <1>2, <2>1
  <2> HIDE DEF has
  <2>3. gifpages' = Append(gifpages, page + 1)
    BY <1>1, <2>2
  <2>4. G = Job("gifframe", page + 1) /\ f = Job("frame", page + 1)
    BY DEF G, f
  <2> QED BY <1>1, <1>5, <2>3, <2>4, SwapGifFrame
<1> QED BY <1>3, <1>4, <1>5

(* FRAMEQ: the frames of two pages do not wait for the worker together.    *)
LEMMA ThreeFrames == ASSUME TermInv, NEW a \in Members(queue), NEW b \in Members(queue), NEW c \in Members(queue),
                            a # b, a # c, b # c, IsFrame(a.kind), IsFrame(b.kind), IsFrame(c.kind)
                     PROVE  FrameQ >= 3
<1>1. PICK i, j, k \in 1 .. Len(queue) : queue[i] = a /\ queue[j] = b /\ queue[k] = c
  BY DEF Members
<1>2. i # j /\ i # k /\ j # k
  BY <1>1
<1> DEFINE T == ({i} \cup {j}) \cup {k}
<1>3. T \in SUBSET FramesAt(queue)
  BY <1>1 DEF FramesAt
<1>4. IsFiniteSet({i}) /\ Cardinality({i}) = 1
  BY FS_Singleton
<1>5. IsFiniteSet({i} \cup {j}) /\ Cardinality({i} \cup {j}) = 2
  <2>1. j \notin {i}
    BY <1>2
  <2>2. /\ IsFiniteSet({i} \cup {j})
        /\ Cardinality({i} \cup {j}) = IF j \in {i} THEN Cardinality({i}) ELSE Cardinality({i}) + 1
    BY <1>4, FS_AddElement, Zenon
  <2>3. Cardinality({i} \cup {j}) = Cardinality({i}) + 1
    BY <2>1, <2>2, Zenon
  <2>4. Cardinality({i} \cup {j}) = 1 + 1
    BY ONLY <1>4, <2>3, Zenon
  <2>5. 1 + 1 = 2
    OBVIOUS
  <2> QED BY ONLY <2>2, <2>4, <2>5, Zenon
<1>6. IsFiniteSet(T) /\ Cardinality(T) = 3
  <2> DEFINE S == {i} \cup {j}
  <2>1. k \notin S
    BY <1>2
  <2>2. IsFiniteSet(S) /\ Cardinality(S) = 2
    BY <1>5
  <2> HIDE DEF S
  <2>3. /\ IsFiniteSet(S \cup {k})
        /\ Cardinality(S \cup {k}) = IF k \in S THEN Cardinality(S) ELSE Cardinality(S) + 1
    BY <2>2, FS_AddElement, Zenon
  <2>4. Cardinality(S \cup {k}) = Cardinality(S) + 1
    BY <2>1, <2>3, Zenon
  <2>5. IsFiniteSet(S \cup {k}) /\ Cardinality(S \cup {k}) = 3
    <3>1. Cardinality(S \cup {k}) = 2 + 1
      BY ONLY <2>2, <2>4, Zenon
    <3>2. 2 + 1 = 3
      OBVIOUS
    <3> QED BY ONLY <2>3, <3>1, <3>2, Zenon
  <2> QED BY <2>5 DEF S
<1>7. IsFiniteSet(FramesAt(queue)) /\ Frames(queue) \in Nat /\ Frames(queue) <= FrameQ
  BY FramesFinite, TermAssumption DEF TermInv, QueueTypes
<1>8. 3 <= Cardinality(FramesAt(queue))
  <2> HIDE DEF T
  <2> QED BY <1>3, <1>6, <1>7, FS_Subset
<1> QED BY <1>7, <1>8, TermAssumption DEF Frames

LEMMA NoRoom == ASSUME TermInv, FrameQ <= 2, todo = << >>, NEW p, NEW q, p # q,
                       Waiting(Under, p), Waiting(Under, q)
                PROVE  FALSE
<1>1. PICK x1, y1 \in Under : x1.kind = "gifframe" /\ x1.page = p /\ y1.kind = "frame" /\ y1.page = p
  BY DEF Waiting
<1>2. PICK x2, y2 \in Under : x2.kind = "gifframe" /\ x2.page = q /\ y2.kind = "frame" /\ y2.page = q
  BY DEF Waiting
<1>3. x1 # y1 /\ x1 # x2 /\ x1 # y2 /\ y1 # x2 /\ y1 # y2 /\ x2 # y2
  BY <1>1, <1>2
<1>4. \A x \in Under : x = wjob \/ x \in Members(queue)
  BY MembersFew DEF Under, AtHand
<1>5. IsFrame(x1.kind) /\ IsFrame(y1.kind) /\ IsFrame(x2.kind) /\ IsFrame(y2.kind)
  BY <1>1, <1>2 DEF IsFrame
<1>6. ~(FrameQ >= 3)
  BY TermAssumption
<1>7. CASE x1 = wjob
  BY <1>1, <1>2, <1>3, <1>4, <1>5, <1>6, <1>7, ThreeFrames
<1>8. CASE y1 = wjob
  BY <1>1, <1>2, <1>3, <1>4, <1>5, <1>6, <1>8, ThreeFrames
<1>9. CASE x1 # wjob /\ y1 # wjob
  <2>1. x1 \in Members(queue) /\ y1 \in Members(queue) /\ (x2 \in Members(queue) \/ y2 \in Members(queue))
    BY <1>1, <1>2, <1>3, <1>4, <1>9
  <2> QED BY <1>3, <1>5, <1>6, <2>1, ThreeFrames
<1> QED BY <1>7, <1>8, <1>9
LEMMA IdleShape == ASSUME NEW worth \in BOOLEAN
                   PROVE  LET d == Job("gifdrop", page)
                              t == Job("still", page)
                              s == (IF gifpages # << >> THEN <<d>> ELSE << >>)
                                     \o (IF worth THEN <<t>> ELSE << >>)
                          IN  s \in {<< >>, <<d>>, <<t>>, <<d, t>>}
<1> DEFINE d == Job("gifdrop", page)
           t == Job("still", page)
           a == IF gifpages # << >> THEN <<d>> ELSE << >>
           b == IF worth THEN <<t>> ELSE << >>
<1>1. a = << >> \/ a = <<d>>
  OBVIOUS
<1>2. b = << >> \/ b = <<t>>
  OBVIOUS
<1> HIDE DEF d, t, a, b
<1>3. /\ << >> \o << >> = << >> /\ << >> \o <<t>> = <<t>>
      /\ <<d>> \o << >> = <<d>> /\ <<d>> \o <<t>> = <<d, t>>
  BY OneBefore
<1>4. a \o b \in {<< >>, <<d>>, <<t>>, <<d, t>>}
  BY <1>1, <1>2, <1>3
<1> QED BY <1>4 DEF a, b, d, t

(* gxdidle: the GIF, if it has two frames at least, and what is in it.     *)
LEMMA EndsGif == ASSUME FrameQ <= 2, GifFacts, ~intr, todo = << >>, Len(gifpages) >= 2
                 PROVE  \/ Certain(Under, gif, page, gifpages)
                        \/ mode = "inline" /\ \E f \in Under : StartsAt(Under, f, page, gifpages)
<1>1. gifpages # << >> /\ gifpages \in Seq(Pages) /\ Rising(gifpages)
  BY DEF GifFacts, TermInv, MainTypes, RiseInv
<1>2. page \in Nat /\ MaxPage \in Nat /\ page <= MaxPage /\ \A j \in Under : j.page \in Nat /\ j.page <= page
  BY UnderJobs DEF GifFacts, LineInv
<1>3. ASSUME NEW p, NEW P, FramesIn(Under, p, MaxPage, P) PROVE FramesIn(Under, p, page, P)
  <2> SUFFICES ASSUME NEW j \in Under, j.kind = "gifframe", p <= j.page, j.page <= page
               PROVE  j.page \in Members(P)
    BY DEF FramesIn
  <2>1. j.page <= MaxPage
    BY <1>2
  <2> QED BY <1>3, <2>1 DEF FramesIn
<1>4. CASE Certain(Under, gif, MaxPage, gifpages)
  BY <1>3, <1>4 DEF Certain
<1>5. CASE \E f \in Under :
             /\ StartsAt(Under, f, MaxPage, gifpages)
             /\ \A p \in Members(gifpages) : f.page <= p /\ (mode # "inline" => Waiting(Under, p))
  <2>1. PICK f \in Under :
             /\ StartsAt(Under, f, MaxPage, gifpages)
             /\ \A p \in Members(gifpages) : f.page <= p /\ (mode # "inline" => Waiting(Under, p))
    BY <1>5
  <2>2. CASE mode = "inline"
    BY <1>2, <1>3, <2>1, <2>2 DEF StartsAt
  <2>3. CASE mode # "inline"
    <3>1. 1 \in 1 .. Len(gifpages) /\ 2 \in 1 .. Len(gifpages)
      BY <1>1
    <3>2. gifpages[1] < gifpages[2] /\ gifpages[1] \in Members(gifpages) /\ gifpages[2] \in Members(gifpages)
      BY <1>1, <3>1 DEF Rising, Members
    <3>3. gifpages[1] # gifpages[2]
      <4>1. gifpages[1] \in Pages /\ gifpages[2] \in Pages
        BY <1>1, <3>1
      <4> QED BY <3>2, <4>1 DEF Pages
    <3>4. Waiting(Under, gifpages[1]) /\ Waiting(Under, gifpages[2])
      BY <2>1, <2>3, <3>2
    <3> QED BY <3>3, <3>4, NoRoom DEF GifFacts
  <2> QED BY <2>2, <2>3
<1> QED BY <1>1, <1>4, <1>5 DEF GifFacts, StartInv

LEMMA IdleShowGif == ASSUME FrameQ <= 2, GifFacts, TermInv', IdleShow PROVE GifFacts'
<1> DEFINE worth == dirty /\ (drawn \/ mode = "file" \/ (mode = "tmux" /\ posted))
           e == Job("gifend", page)
           d == Job("gifdrop", page)
           t == Job("still", page)
           s == IF Len(gifpages) >= 2 THEN <<e>>
                ELSE (IF gifpages # << >> THEN <<d>> ELSE << >>) \o (IF worth THEN <<t>> ELSE << >>)
<1>1. /\ UNCHANGED <<queue, gif, mode, anim, intr, page, wpc, wjob>> /\ gifpages' = << >> /\ ~intr
      /\ pc = "top" /\ PostThen(s, "show")
  BY DEF IdleShow, envvars, workvars
<1>2. (Len(gifpages) >= 2 /\ s = <<e>>) \/ s \in {<< >>, <<d>>, <<t>>, <<d, t>>}
  <2>1. worth \in BOOLEAN
    BY DEF GifFacts, TermInv, MainFlags
  <2> HIDE DEF worth
  <2>2. CASE Len(gifpages) >= 2
    BY <2>2
  <2>3. CASE ~(Len(gifpages) >= 2)
    BY <2>1, <2>3, IdleShape
  <2> QED BY <2>2, <2>3
<1>3. /\ e.kind = "gifend" /\ e.page = page /\ e.pages = gifpages
      /\ d.kind = "gifdrop" /\ d.page = page /\ t.kind = "still" /\ t.page = page
  BY DEF Job
<1> HIDE DEF s, e, d, t, worth
<1>4. todo' = s /\ then' = "show" /\ pc' \in {"show", "post"}
  BY <1>1 DEF PostThen
<1>5. todo = << >> /\ ~InlineWait
  BY <1>1 DEF GifFacts, TermInv, TodoInv, InlineWait, Showing, Posting
<1>6. AtHand' = AtHand /\ page \in Nat /\ page' >= page
  BY <1>1, UnderJobs DEF AtHand, GifFacts
<1>7. Ordered(todo') /\ Members(todo') \subseteq {e, d, t} /\ (e \in Members(todo') => Len(gifpages) >= 2)
  <2>1. Before(d, t)
    BY <1>3, <1>6 DEF Before
  <2>2. e # d /\ e # t
    BY <1>3
  <2> QED BY <1>2, <1>4, <2>1, <2>2, MembersFew, OrderedFew
<1>8. \A x \in Members(todo') : page <= x.page /\ x.page <= page' /\ (x.kind = "gifframe" => page < x.page)
  BY <1>1, <1>3, <1>6, <1>7
<1>9. /\ LineInv' /\ Under' = Under \cup Members(todo')
      /\ \A j \in Under' : j.kind = "gifframe" => \A p \in Members(gif) : p < j.page
      /\ \A p \in Members(gif) : p <= page'
  BY <1>1, <1>5, <1>6, <1>7, <1>8, AddsLine
<1>10. RiseInv'
  <2>1. Rising(gifpages') /\ Members(gifpages') = {}
    BY <1>1, MembersFew DEF Rising
  <2> QED BY <1>1, <1>9, <2>1 DEF GifFacts, RiseInv
<1>11. ASSUME NEW p, NEW q, NEW P, FramesIn(Under, p, q, P) PROVE FramesIn(Under', p, q, P)
  BY <1>3, <1>7, <1>9, <1>11 DEF FramesIn
<1>12. ASSUME NEW q, NEW P, Certain(Under, gif, q, P) PROVE Certain(Under', gif', q, P)
  BY <1>1, <1>11, <1>12 DEF Certain
<1>13. ASSUME NEW f, NEW q, NEW P, StartsAt(Under, f, q, P) PROVE f \in Under' /\ StartsAt(Under', f, q, P)
  BY <1>9, <1>11, <1>13 DEF StartsAt
<1>14. EndInv'
  <2> SUFFICES ASSUME NEW k \in Under', k.kind = "gifend"
               PROVE  \/ Certain(Under', gif', k.page, k.pages)
                      \/ InlineWait' /\ \E f \in Under' : StartsAt(Under', f, k.page, k.pages)
    BY DEF EndInv
  <2>1. CASE k \in Under
    <3>1. Certain(Under, gif, k.page, k.pages)
      BY <1>5, <2>1 DEF GifFacts, EndInv
    <3> QED BY <1>12, <3>1
  <2>2. CASE k \in Members(todo')
    <3>1. k.page = page /\ k.pages = gifpages /\ Len(gifpages) >= 2
      BY <1>3, <1>7, <2>2
    <3>2. \/ Certain(Under, gif, page, gifpages)
          \/ mode = "inline" /\ \E f \in Under : StartsAt(Under, f, page, gifpages)
      BY <1>1, <1>5, <3>1, EndsGif
    <3>3. CASE Certain(Under, gif, page, gifpages)
      BY <1>12, <3>1, <3>3
    <3>4. CASE mode = "inline" /\ \E f \in Under : StartsAt(Under, f, page, gifpages)
      <4>1. InlineWait'
        BY <1>1, <1>4, <3>4 DEF InlineWait, Showing, Posting
      <4> QED BY <1>13, <3>1, <3>4, <4>1
    <3> QED BY <3>2, <3>3, <3>4
  <2> QED BY <1>9, <2>1, <2>2
<1>15. StartInv'
  BY <1>1 DEF StartInv
<1>16. IdleInv'
  BY <1>1, <1>4 DEF GifFacts, IdleInv, Posting
<1> QED BY <1>9, <1>10, <1>14, <1>15, <1>16 DEF GifFacts

-----------------------------------------------------------------------------
LEMMA GifInit == Init => GifFacts /\ GifIsOneCommand
<1> SUFFICES ASSUME Init PROVE GifFacts /\ GifIsOneCommand
  OBVIOUS
<1>1. TermInv
  BY TermInvInit
<1>2. AtHand = {} /\ Members(queue) = {} /\ Members(todo) = {} /\ Members(gif) = {} /\ Members(gifpages) = {}
  BY MembersFew DEF Init, AtHand
<1>3. Under = {} /\ Rest = {}
  BY <1>2 DEF Under, Rest
<1>4. LineInv
  BY <1>2, <1>3, OrderedFew DEF Init, LineInv, AllBefore
<1>5. RiseInv
  BY <1>2, <1>3 DEF Init, RiseInv, Rising
<1>6. EndInv /\ StartInv /\ IdleInv
  BY <1>3 DEF Init, EndInv, StartInv, IdleInv, Posting
<1>7. GifIsOneCommand
  BY DEF Init, GifIsOneCommand, NoPic
<1> QED BY <1>1, <1>4, <1>5, <1>6, <1>7 DEF GifFacts

LEMMA GifNext == ASSUME FrameQ <= 2, ~SignalInIdle PROVE GifFacts /\ [Next]_vars => GifFacts'
<1> SUFFICES ASSUME GifFacts, [Next]_vars PROVE GifFacts'
  OBVIOUS
<1>1. TermInv'
  BY TermInvNext DEF GifFacts
<1>2. CASE Draw \/ SetXsize \/ Pull \/ EndCommand \/ Quit \/ User \/ Gone
  BY <1>1, <1>2, QuietCommand
<1>3. CASE Clear \/ DoubleOn \/ SwapBlank
  BY <1>1, <1>3, BlankGif DEF Clear, DoubleOn, SwapBlank
<1>4. CASE SwapFrame
  BY <1>1, <1>4, SwapFrameGif
<1>5. CASE Post
  BY <1>1, <1>5, PostCheckGif, PostLockedGif, PostSyncGif DEF Post
<1>6. CASE IdleInterrupted \/ IdlePrint \/ IdleClear
  BY <1>1, <1>6, QuietIdle
<1>7. CASE IdleShow
  BY <1>1, <1>7, IdleShowGif
<1>8. CASE IdleDrop \/ IdleForget
  BY <1>1, <1>8, IdleDropGif, IdleForgetGif
<1>9. CASE WTake \/ WLook \/ WExit
  BY <1>1, <1>9, WTakeGif, WLookGif, WExitGif
<1>10. CASE WPublish \/ WFail
  BY <1>1, <1>10, WritesGif
<1>11. CASE Signal
  BY <1>1, <1>11, SignalGif
<1>12. CASE WSend \/ WFinish \/ WResize \/ Pane \/ UNCHANGED vars
  BY <1>1, <1>12, QuietWork
<1> QED BY <1>2, <1>3, <1>4, <1>5, <1>6, <1>7, <1>8, <1>9, <1>10, <1>11, <1>12
        DEF Next, Command, Idle, Worker

LEMMA GifShown == GifFacts /\ GifIsOneCommand /\ [Next]_vars => GifIsOneCommand'
<1> SUFFICES ASSUME GifFacts, GifIsOneCommand, [Next]_vars PROVE GifIsOneCommand'
  OBVIOUS
<1>1. CASE WPublish /\ wjob.kind = "gifend"
  <2>1. lastpic'.pages = gif /\ lastpic'.want = wjob.pages /\ wpc = "write"
    BY <1>1 DEF WPublish
  <2>2. AtHand = {wjob} /\ wjob \in Under
    BY <2>1 DEF AtHand, Under
  <2>3. ASSUME NEW f \in Under, StartsAt(Under, f, wjob.page, wjob.pages) PROVE FALSE
    <3>1. f \in Rest
      BY <1>1, <2>2, <2>3 DEF StartsAt, Under, Rest
    <3>2. wjob.page < f.page
      BY <2>2, <2>3, <3>1 DEF GifFacts, LineInv, AllBefore, Before, StartsAt
    <3>3. f.page <= wjob.page /\ f.page \in Nat /\ wjob.page \in Nat
      BY <2>2, <2>3, UnderJobs DEF GifFacts, StartsAt
    <3> QED BY <3>2, <3>3
  <2>4. Certain(Under, gif, wjob.page, wjob.pages)
    BY <1>1, <2>2, <2>3 DEF GifFacts, EndInv
  <2>5. gif \in Seq(Pages) /\ Rising(gif)
    BY DEF GifFacts, TermInv, WorkTypes, RiseInv
  <2>6. \A i \in 1 .. Len(gif) : \E j \in 1 .. Len(wjob.pages) : wjob.pages[j] = gif[i]
    BY <2>4 DEF Certain, Members
  <2>7. \A i \in 1 .. Len(gif) - 1 : gif[i] < gif[i + 1]
    <3> SUFFICES ASSUME NEW i \in 1 .. Len(gif) - 1 PROVE gif[i] < gif[i + 1]
      OBVIOUS
    <3>1. i \in 1 .. Len(gif) /\ i + 1 \in 1 .. Len(gif) /\ i < i + 1
      BY <2>5
    <3> QED BY <2>5, <3>1 DEF Rising
  <2> QED BY <2>1, <2>6, <2>7 DEF GifIsOneCommand
<1>2. CASE WPublish /\ wjob.kind # "gifend"
  <2>1. lastpic'.pages = << >>
    BY <1>2 DEF WPublish
  <2> QED BY <2>1 DEF GifIsOneCommand
<1>3. CASE lastpic' = lastpic
  BY <1>3 DEF GifIsOneCommand
<1>4. WPublish \/ lastpic' = lastpic
  BY DEF Next, Command, User, Post, Idle, Gone, Worker, Clear, DoubleOn, SwapBlank, Blank, Draw, SwapFrame,
         SetXsize, Pull, EndCommand, Quit, Prompt, Enter, Begin, Answer, Goto, PostCheck, PostLocked, PostSync,
         IdleInterrupted, IdleShow, IdleDrop, IdleForget, IdlePrint, IdleClear, Stop, Join, WTake, WLook,
         WFail, WSend, WFinish, WResize, WExit, Signal, Pane, quiet, workvars, vars
<1> QED BY <1>1, <1>2, <1>3, <1>4

(* A looping GIF shows the frames of one command, in the order drawn: what *)
(* an interrupted GIF left in the worker is started over by the first      *)
(* frame of the next one (post, dojob, gxdswp, gxdidle in gxT.c).  That    *)
(* frame is still to come only if no other page waits behind it, which is  *)
(* so because the queue holds FRAMEQ = 2 frames.                           *)
THEOREM GifOfOneCommand == ASSUME FrameQ <= 2, ~SignalInIdle PROVE Spec => []GifIsOneCommand
  BY GifInit, GifNext, GifShown, PTL DEF Spec

=============================================================================
