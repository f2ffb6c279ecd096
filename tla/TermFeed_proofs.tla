---------------------------- MODULE TermFeed_proofs ----------------------------
(***************************************************************************)
(* The terminal display implements PictureFeed, for every value of its     *)
(* constants: every step of TermDisplay is one of PictureFeed or changes   *)
(* neither the pictures pending nor the one shown.                         *)
(***************************************************************************)
EXTENDS TermDisplay_proofs

-----------------------------------------------------------------------------
(* The pictures in a sequence of jobs.                                     *)

Pic(j) == [kind |-> j.kind, page |-> j.page]
Shown(s) == LET all == Only(s, Pictures)
            IN  [i \in 1 .. Len(all) |-> [kind |-> all[i].kind, page |-> all[i].page]]

(* Jobs for pages up to n, and pictures of them. *)
JobsTo(n) == {j \in Jobs : j.page <= n}
PicsTo(n) == [kind : Pictures, page : {p \in Pages : p <= n}]

LEMMA ShownEmpty == Shown(<< >>) = << >>
  BY OnlyEmpty DEF Shown

LEMMA ShownType == ASSUME NEW n \in Pages, NEW s \in Seq(JobsTo(n)) PROVE Shown(s) \in Seq(PicsTo(n))
<1> DEFINE a == Only(s, Pictures)
<1>1. a \in Seq(JobsTo(n)) /\ \A i \in 1 .. Len(a) : a[i].kind \in Pictures
  BY OnlyType, OnlyKinds
<1>2. Shown(s) = [i \in 1 .. Len(a) |-> [kind |-> a[i].kind, page |-> a[i].page]]
  BY DEF Shown
<1> HIDE DEF a
<1>3. \A i \in 1 .. Len(a) : [kind |-> a[i].kind, page |-> a[i].page] \in PicsTo(n)
  BY <1>1 DEF JobsTo, PicsTo, Jobs
<1> QED BY <1>1, <1>2, <1>3

LEMMA ShownAppend == ASSUME NEW s \in Seq(Jobs), NEW x \in Jobs
                     PROVE  Shown(Append(s, x)) = IF IsPicture(x.kind) THEN Append(Shown(s), Pic(x)) ELSE Shown(s)
<1> DEFINE a == Only(s, Pictures)
           b == Only(Append(s, x), Pictures)
<1>1. a \in Seq(Jobs) /\ b = IF x.kind \in Pictures THEN Append(a, x) ELSE a
  BY OnlyType, OnlyAppend
<1>2. /\ Shown(s) = [i \in 1 .. Len(a) |-> [kind |-> a[i].kind, page |-> a[i].page]]
      /\ Shown(Append(s, x)) = [i \in 1 .. Len(b) |-> [kind |-> b[i].kind, page |-> b[i].page]]
  BY DEF Shown
<1> HIDE DEF a, b
<1>3. CASE x.kind \in Pictures
  <2>1. b = Append(a, x) /\ Len(b) = Len(a) + 1 /\ b[Len(b)] = x /\ \A i \in 1 .. Len(a) : b[i] = a[i]
    BY <1>1, <1>3
  <2> DEFINE f == [i \in 1 .. Len(a) |-> [kind |-> a[i].kind, page |-> a[i].page]]
             g == [i \in 1 .. Len(b) |-> [kind |-> b[i].kind, page |-> b[i].page]]
  <2> DEFINE P == [kind : Kinds, page : Pages]
  <2>5. \A j \in Jobs : [kind |-> j.kind, page |-> j.page] \in P
    BY DEF Jobs
  <2> HIDE DEF P
  <2>2. f \in Seq(P) /\ Len(f) = Len(a)
    <3>1. \A i \in 1 .. Len(a) : [kind |-> a[i].kind, page |-> a[i].page] \in P
      BY <1>1, <2>5
    <3> QED BY <1>1, <3>1
  <2>3. Pic(x) \in P
    BY <2>5 DEF Pic
  <2>4. g = Append(f, Pic(x))
    <3>1. g \in Seq(P) /\ Len(g) = Len(a) + 1
      <4>1. b \in Seq(Jobs)
        BY <1>1, <2>1
      <4>2. \A i \in 1 .. Len(b) : [kind |-> b[i].kind, page |-> b[i].page] \in P
        BY <4>1, <2>5
      <4> QED BY <4>1, <4>2, <2>1
    <3>2. \A i \in 1 .. Len(a) : g[i] = f[i]
      BY <1>1, <2>1
    <3>3. g[Len(a) + 1] = Pic(x)
      BY <1>1, <2>1 DEF Pic
    <3> HIDE DEF f, g
    <3>4. Append(f, Pic(x)) \in Seq(P) /\ Len(Append(f, Pic(x))) = Len(a) + 1
          /\ Append(f, Pic(x))[Len(a) + 1] = Pic(x) /\ \A i \in 1 .. Len(a) : Append(f, Pic(x))[i] = f[i]
      BY <2>2, <2>3
    <3> QED BY <1>1, <3>1, <3>2, <3>3, <3>4
  <2> QED BY <1>2, <1>3, <2>4 DEF IsPicture
<1>4. CASE x.kind \notin Pictures
  BY <1>1, <1>2, <1>4 DEF IsPicture
<1> QED BY <1>3, <1>4

LEMMA PicType == ASSUME NEW x \in Jobs, IsPicture(x.kind) PROVE Pic(x) \in [kind : Pictures, page : Pages]
  BY DEF Pic, Jobs, IsPicture

LEMMA ShownSeq == ASSUME NEW s \in Seq(Jobs) PROVE Shown(s) \in Seq([kind : Pictures, page : Pages])
<1> DEFINE a == Only(s, Pictures)
<1>1. a \in Seq(Jobs) /\ \A i \in 1 .. Len(a) : a[i].kind \in Pictures
  BY OnlyType, OnlyKinds
<1>2. Shown(s) = [i \in 1 .. Len(a) |-> [kind |-> a[i].kind, page |-> a[i].page]]
  BY DEF Shown
<1> HIDE DEF a
<1>3. \A i \in 1 .. Len(a) : [kind |-> a[i].kind, page |-> a[i].page] \in [kind : Pictures, page : Pages]
  <2> SUFFICES ASSUME NEW i \in 1 .. Len(a)
               PROVE  [kind |-> a[i].kind, page |-> a[i].page] \in [kind : Pictures, page : Pages]
    OBVIOUS
  <2>1. a[i] \in Jobs /\ a[i].kind \in Pictures
    BY <1>1
  <2> QED BY <2>1 DEF Jobs
<1> QED BY <1>1, <1>2, <1>3

LEMMA ShownConcat == ASSUME NEW s \in Seq(Jobs)
                     PROVE  \A t \in Seq(Jobs) : Shown(s \o t) = Shown(s) \o Shown(t)
<1> DEFINE S == {t \in Seq(Jobs) : Shown(s \o t) = Shown(s) \o Shown(t)}
           P == [kind : Pictures, page : Pages]
<1>1. << >> \in S
  <2>1. Shown(s) \in Seq(P)
    BY ShownSeq
  <2>3. s \o << >> = s /\ << >> \in Seq(Jobs)
    OBVIOUS
  <2> DEFINE a == Shown(s)
  <2> HIDE DEF a, P
  <2>2. a \o << >> = a
    BY <2>1 DEF a
  <2> QED BY <2>2, <2>3, ShownEmpty DEF a
<1>2. ASSUME NEW t \in Seq(Jobs), NEW x \in Jobs, t \in S PROVE Append(t, x) \in S
  <2>1. s \o Append(t, x) = Append(s \o t, x) /\ s \o t \in Seq(Jobs) /\ Append(t, x) \in Seq(Jobs)
    OBVIOUS
  <2> DEFINE a == Shown(s)
             b == Shown(t)
  <2>2. a \in Seq(P) /\ b \in Seq(P) /\ (IsPicture(x.kind) => Pic(x) \in P)
    BY ShownSeq, PicType
  <2>3. Shown(s \o t) = a \o b
    BY <1>2
  <2>4. Shown(Append(s \o t, x)) = IF IsPicture(x.kind) THEN Append(a \o b, Pic(x)) ELSE a \o b
    BY <2>1, <2>3, ShownAppend
  <2>5. Shown(Append(t, x)) = IF IsPicture(x.kind) THEN Append(b, Pic(x)) ELSE b
    BY ShownAppend
  <2> HIDE DEF a, b, P
  <2>6. ASSUME IsPicture(x.kind) PROVE Append(a \o b, Pic(x)) = a \o Append(b, Pic(x))
    <3> DEFINE p == Pic(x)
    <3>1. p \in P
      BY <2>2, <2>6
    <3> HIDE DEF p
    <3>2. a \o Append(b, p) = Append(a \o b, p)
      BY <2>2, <3>1, AppendConcat
    <3> QED BY <3>2 DEF p
  <2>7. Shown(s \o Append(t, x)) = a \o Shown(Append(t, x))
    BY <2>1, <2>4, <2>5, <2>6
  <2> QED BY <2>1, <2>7 DEF a
<1> HIDE DEF S
<1>3. Seq(Jobs) \subseteq S
  BY <1>1, <1>2, SeqInSet
<1> QED BY <1>3 DEF S

LEMMA ShownOne == ASSUME NEW x \in Jobs
                  PROVE  Shown(<<x>>) = IF IsPicture(x.kind) THEN <<Pic(x)>> ELSE << >>
<1>1. << >> \in Seq(Jobs) /\ Append(<< >>, x) = <<x>>
  OBVIOUS
<1>2. Shown(Append(<< >>, x)) = IF IsPicture(x.kind) THEN Append(Shown(<< >>), Pic(x)) ELSE Shown(<< >>)
  BY <1>1, ShownAppend
<1>3. Append(<< >>, Pic(x)) = <<Pic(x)>>
  OBVIOUS
<1> QED BY <1>1, <1>2, <1>3, ShownEmpty

LEMMA ShownHead == ASSUME NEW s \in Seq(Jobs), s # << >>
                   PROVE  Shown(s) = Shown(<<Head(s)>>) \o Shown(Tail(s))
<1>1. s = <<Head(s)>> \o Tail(s) /\ <<Head(s)>> \in Seq(Jobs) /\ Tail(s) \in Seq(Jobs)
  OBVIOUS
<1> QED BY <1>1, ShownConcat

-----------------------------------------------------------------------------
(* Ways to have one sequence from another.                                 *)

LEMMA WaySame == ASSUME NEW X, NEW s \in Seq(X) PROVE [i \in 1 .. Len(s) |-> i] \in Feed!Ways(s, s)
  BY DEF Feed!Ways

LEMMA WayNone == ASSUME NEW X, NEW s \in Seq(X) PROVE Feed!Ways(<< >>, s) # {}
<1> DEFINE f == [i \in {} |-> i]
<1>1. Len(<< >>) = 0 /\ 1 .. 0 = {}
  OBVIOUS
<1>2. f \in [1 .. Len(<< >>) -> 1 .. Len(s)]
  BY <1>1
<1>3. f \in Feed!Ways(<< >>, s)
  BY <1>1, <1>2 DEF Feed!Ways
<1> QED BY <1>3

LEMMA WayConcat == ASSUME NEW X, NEW s \in Seq(X), NEW t \in Seq(X), NEW s2 \in Seq(X), NEW t2 \in Seq(X),
                          NEW f \in Feed!Ways(s2, s), NEW g \in Feed!Ways(t2, t)
                   PROVE  [i \in 1 .. Len(s2) + Len(t2) |->
                             IF i <= Len(s2) THEN f[i] ELSE Len(s) + g[i - Len(s2)]]
                          \in Feed!Ways(s2 \o t2, s \o t)
<1> DEFINE h == [i \in 1 .. Len(s2) + Len(t2) |->
                   IF i <= Len(s2) THEN f[i] ELSE Len(s) + g[i - Len(s2)]]
<1>1. /\ f \in [1 .. Len(s2) -> 1 .. Len(s)]
      /\ \A i \in 1 .. Len(s2) : s2[i] = s[f[i]]
      /\ \A i, j \in 1 .. Len(s2) : i < j => f[i] < f[j]
  BY DEF Feed!Ways
<1>2. /\ g \in [1 .. Len(t2) -> 1 .. Len(t)]
      /\ \A i \in 1 .. Len(t2) : t2[i] = t[g[i]]
      /\ \A i, j \in 1 .. Len(t2) : i < j => g[i] < g[j]
  BY DEF Feed!Ways
<1>3. /\ Len(s2 \o t2) = Len(s2) + Len(t2) /\ Len(s \o t) = Len(s) + Len(t)
      /\ Len(s) \in Nat /\ Len(t) \in Nat /\ Len(s2) \in Nat /\ Len(t2) \in Nat
  OBVIOUS
<1>4. ASSUME NEW i \in 1 .. Len(s2)
      PROVE  h[i] = f[i] /\ h[i] \in 1 .. Len(s) /\ (s2 \o t2)[i] = (s \o t)[h[i]]
  <2>1. h[i] = f[i] /\ f[i] \in 1 .. Len(s) /\ s2[i] = s[f[i]]
    <3>1. i \in 1 .. Len(s2) + Len(t2) /\ i <= Len(s2)
      BY <1>3
    <3> QED BY <1>1, <3>1
  <2> HIDE DEF h
  <2>2. (s2 \o t2)[i] = s2[i] /\ (s \o t)[h[i]] = s[f[i]]
    BY <2>1
  <2> QED BY <2>1, <2>2
<1>5. ASSUME NEW i \in 1 .. Len(t2)
      PROVE  /\ h[Len(s2) + i] = Len(s) + g[i] /\ h[Len(s2) + i] \in Len(s) + 1 .. Len(s) + Len(t)
             /\ (s2 \o t2)[Len(s2) + i] = (s \o t)[h[Len(s2) + i]]
  <2>1. h[Len(s2) + i] = Len(s) + g[i] /\ g[i] \in 1 .. Len(t) /\ t2[i] = t[g[i]]
    BY <1>2, <1>3, SMTT(30)
  <2> HIDE DEF h
  <2>2. (s2 \o t2)[Len(s2) + i] = t2[i] /\ (s \o t)[Len(s) + g[i]] = t[g[i]]
    BY <2>1, SMTT(30)
  <2> QED BY <2>1, <2>2, <1>3
<1>6. \A i \in 1 .. Len(s2) + Len(t2) : i \in 1 .. Len(s2) \/ \E k \in 1 .. Len(t2) : i = Len(s2) + k
  <2> SUFFICES ASSUME NEW i \in 1 .. Len(s2) + Len(t2), i \notin 1 .. Len(s2)
               PROVE  \E k \in 1 .. Len(t2) : i = Len(s2) + k
    OBVIOUS
  <2>1. i - Len(s2) \in 1 .. Len(t2) /\ i = Len(s2) + (i - Len(s2))
    BY <1>3
  <2> QED BY <2>1
<1> DEFINE n == Len(s2) + Len(t2)
<1>7. h \in [1 .. n -> 1 .. Len(s) + Len(t)]
  <2>1. \A i \in 1 .. n : h[i] \in 1 .. Len(s) + Len(t)
    <3> TAKE i \in 1 .. n
    <3>1. CASE i \in 1 .. Len(s2)
      <4>1. h[i] \in 1 .. Len(s)
        BY <1>4, <3>1
      <4> HIDE DEF h
      <4> QED BY <4>1, <1>3
    <3>2. ASSUME NEW k \in 1 .. Len(t2), i = Len(s2) + k PROVE h[i] \in 1 .. Len(s) + Len(t)
      <4>1. h[i] \in Len(s) + 1 .. Len(s) + Len(t)
        BY <1>5, <3>2
      <4> HIDE DEF h
      <4> QED BY <4>1, <1>3
    <3> QED BY <3>1, <3>2, <1>6
  <2> QED BY <2>1
<1>8. \A i \in 1 .. n : (s2 \o t2)[i] = (s \o t)[h[i]]
  <2> HIDE DEF h
  <2> QED BY <1>4, <1>5, <1>6
<1>9. \A i, j \in 1 .. n : i < j => h[i] < h[j]
  <2> TAKE i, j \in 1 .. n
  <2>1. SUFFICES ASSUME i < j PROVE h[i] < h[j]
    OBVIOUS
  <2>2. CASE i \in 1 .. Len(s2) /\ j \in 1 .. Len(s2)
    <3>1. h[i] = f[i] /\ h[j] = f[j]
      BY <1>4, <2>2
    <3> HIDE DEF h
    <3> QED BY <1>1, <3>1, <2>1, <2>2
  <2>3. ASSUME i \in 1 .. Len(s2), NEW k \in 1 .. Len(t2), j = Len(s2) + k PROVE h[i] < h[j]
    <3>1. h[i] \in 1 .. Len(s) /\ h[j] \in Len(s) + 1 .. Len(s) + Len(t)
      BY <1>4, <1>5, <2>3
    <3> HIDE DEF h
    <3> QED BY <3>1, <1>3
  <2>4. ASSUME NEW l \in 1 .. Len(t2), i = Len(s2) + l, NEW k \in 1 .. Len(t2), j = Len(s2) + k
        PROVE h[i] < h[j]
    <3>1. h[i] = Len(s) + g[l] /\ h[j] = Len(s) + g[k] /\ l < k
      BY <1>5, <2>4, <2>1, <1>3
    <3> HIDE DEF h
    <3>2. g[l] < g[k] /\ g[l] \in 1 .. Len(t) /\ g[k] \in 1 .. Len(t)
      BY <3>1, <1>2
    <3> QED BY <3>1, <3>2, <1>3
  <2>5. ASSUME j \in 1 .. Len(s2), NEW k \in 1 .. Len(t2), i = Len(s2) + k PROVE FALSE
    BY <2>1, <2>5, <1>3
  <2> QED BY <2>2, <2>3, <2>4, <2>5, <1>6
<1> HIDE DEF h
<1>10. h \in [1 .. Len(s2 \o t2) -> 1 .. Len(s \o t)]
  BY <1>3, <1>7
<1>11. h \in Feed!Ways(s2 \o t2, s \o t)
  BY <1>3, <1>8, <1>9, <1>10 DEF Feed!Ways
<1> QED BY <1>11 DEF h

(* t is s with some left out, or s itself. *)
Drops(t, s) == Feed!Ways(t, s) # {} /\ (t = s \/ Len(t) < Len(s))

LEMMA DropsSame == ASSUME NEW X, NEW s \in Seq(X) PROVE Drops(s, s)
  BY WaySame DEF Drops

LEMMA DropsAll == ASSUME NEW X, NEW s \in Seq(X) PROVE Drops(<< >>, s)
<1>1. Len(<< >>) = 0 /\ (s = << >> \/ 0 < Len(s))
  OBVIOUS
<1> QED BY <1>1, WayNone DEF Drops

LEMMA DropsConcat == ASSUME NEW X, NEW s \in Seq(X), NEW t \in Seq(X), NEW s2 \in Seq(X), NEW t2 \in Seq(X),
                            Drops(s2, s), Drops(t2, t)
                     PROVE  Drops(s2 \o t2, s \o t)
<1>1. PICK f \in Feed!Ways(s2, s), g \in Feed!Ways(t2, t) : TRUE
  BY DEF Drops
<1>2. Feed!Ways(s2 \o t2, s \o t) # {}
  BY <1>1, WayConcat
<1>3. Len(s2 \o t2) = Len(s2) + Len(t2) /\ Len(s \o t) = Len(s) + Len(t)
  OBVIOUS
<1>4. s2 \o t2 = s \o t \/ Len(s2 \o t2) < Len(s \o t)
  BY <1>3 DEF Drops
<1> QED BY <1>2, <1>4 DEF Drops

(* n is a with some stills left out. *)
Thin(n, a) ==
  /\ n = a \/ Len(n) < Len(a)
  /\ \E f \in Feed!Ways(n, a) :
       \A k \in 1 .. Len(a) : a[k].kind = "still" \/ \E i \in 1 .. Len(n) : f[i] = k

LEMMA ThinSame == ASSUME NEW X, NEW s \in Seq(X) PROVE Thin(s, s)
<1> DEFINE f == [i \in 1 .. Len(s) |-> i]
<1>1. f \in Feed!Ways(s, s)
  BY WaySame
<1>2. \A k \in 1 .. Len(s) : \E i \in 1 .. Len(s) : f[i] = k
  OBVIOUS
<1> QED BY <1>1, <1>2 DEF Thin

LEMMA ThinStill == ASSUME NEW X, NEW n \in Seq(X), NEW a \in Seq(X), NEW p \in X, Thin(n, a), p.kind = "still"
                   PROVE  Thin(n, Append(a, p))
<1> DEFINE b == Append(a, p)
<1>1. Len(b) = Len(a) + 1 /\ b[Len(a) + 1] = p /\ (\A k \in 1 .. Len(a) : b[k] = a[k]) /\ Len(a) \in Nat /\ Len(n) \in Nat
  OBVIOUS
<1> HIDE DEF b
<1>2. Len(n) < Len(b)
  BY <1>1 DEF Thin
<1>3. PICK f \in Feed!Ways(n, a) : \A k \in 1 .. Len(a) : a[k].kind = "still" \/ \E i \in 1 .. Len(n) : f[i] = k
  BY DEF Thin
<1>4. f \in Feed!Ways(n, b)
  <2>1. /\ f \in [1 .. Len(n) -> 1 .. Len(a)]
        /\ \A i \in 1 .. Len(n) : n[i] = a[f[i]]
        /\ \A i, j \in 1 .. Len(n) : i < j => f[i] < f[j]
    BY DEF Feed!Ways
  <2>2. f \in [1 .. Len(n) -> 1 .. Len(b)]
    BY <2>1, <1>1
  <2>3. \A i \in 1 .. Len(n) : n[i] = b[f[i]]
    BY <2>1, <1>1
  <2> QED BY <2>1, <2>2, <2>3 DEF Feed!Ways
<1>5. \A k \in 1 .. Len(b) : b[k].kind = "still" \/ \E i \in 1 .. Len(n) : f[i] = k
  <2> TAKE k \in 1 .. Len(b)
  <2>1. CASE k = Len(a) + 1
    BY <2>1, <1>1
  <2>2. CASE k \in 1 .. Len(a)
    BY <2>2, <1>1, <1>3
  <2> QED BY <2>1, <2>2, <1>1
<1> QED BY <1>2, <1>4, <1>5 DEF Thin, b

(* A thinner sequence between two others. *)
Gives(a, b, d, n) ==
  LET s == (a \o b) \o d
      t == (a \o n) \o d
  IN  /\ t = s \/ Len(t) < Len(s)
      /\ \E f \in Feed!Ways(t, s) :
           \A k \in 1 .. Len(s) :
             \/ \E i \in 1 .. Len(t) : f[i] = k
             \/ \E m \in 1 .. Len(b) : k = Len(a) + m /\ b[m].kind = "still"

LEMMA ThinMiddle == ASSUME NEW X, NEW a \in Seq(X), NEW b \in Seq(X), NEW n \in Seq(X), NEW d \in Seq(X),
                           Thin(n, b)
                    PROVE  Gives(a, b, d, n)
<1> DEFINE s == (a \o b) \o d
           t == (a \o n) \o d
<1>1. PICK f \in Feed!Ways(n, b) : \A k \in 1 .. Len(b) : b[k].kind = "still" \/ \E i \in 1 .. Len(n) : f[i] = k
  BY DEF Thin
<1> DEFINE ia == [i \in 1 .. Len(a) |-> i]
           id == [i \in 1 .. Len(d) |-> i]
           g == [i \in 1 .. Len(a) + Len(n) |-> IF i <= Len(a) THEN ia[i] ELSE Len(a) + f[i - Len(a)]]
           h == [i \in 1 .. Len(a \o n) + Len(d) |->
                   IF i <= Len(a \o n) THEN g[i] ELSE Len(a \o b) + id[i - Len(a \o n)]]
<1>2. ia \in Feed!Ways(a, a) /\ id \in Feed!Ways(d, d)
  BY WaySame
<1>3. g \in Feed!Ways(a \o n, a \o b)
  BY <1>1, <1>2, WayConcat
<1>4. a \o n \in Seq(X) /\ a \o b \in Seq(X)
  OBVIOUS
<1>5. h \in Feed!Ways(t, s)
  <2> HIDE DEF g, id
  <2> QED BY <1>2, <1>3, <1>4, WayConcat
<1>6. /\ Len(a \o n) = Len(a) + Len(n) /\ Len(a \o b) = Len(a) + Len(b)
      /\ Len(t) = Len(a) + Len(n) + Len(d) /\ Len(s) = Len(a) + Len(b) + Len(d)
      /\ Len(a) \in Nat /\ Len(b) \in Nat /\ Len(n) \in Nat /\ Len(d) \in Nat
  OBVIOUS
<1>7. t = s \/ Len(t) < Len(s)
  <2>1. CASE n = b
    BY <2>1
  <2>2. CASE Len(n) < Len(b)
    <3> HIDE DEF s, t
    <3> QED BY <1>6, <2>2
  <2> QED BY <2>1, <2>2 DEF Thin
<1>8. f \in [1 .. Len(n) -> 1 .. Len(b)]
  BY DEF Feed!Ways
<1>9. ASSUME NEW k \in 1 .. Len(s)
      PROVE  \/ \E i \in 1 .. Len(t) : h[i] = k
             \/ \E m \in 1 .. Len(b) : k = Len(a) + m /\ b[m].kind = "still"
  <2> HIDE DEF s, t
  <2>1. CASE k \in 1 .. Len(a)
    <3>1. g[k] = k
      BY <2>1, <1>6
    <3>2. k \in 1 .. Len(a \o n) + Len(d) /\ k <= Len(a \o n) /\ k \in 1 .. Len(t)
      BY <2>1, <1>6
    <3>3. h[k] = k
      BY <3>1, <3>2
    <3> QED BY <3>2, <3>3
  <2>2. CASE k \in Len(a) + 1 .. Len(a) + Len(b)
    <3> DEFINE m == k - Len(a)
    <3>1. m \in 1 .. Len(b) /\ k = Len(a) + m
      BY <2>2, <1>6
    <3>2. SUFFICES ASSUME b[m].kind # "still" PROVE \E i \in 1 .. Len(t) : h[i] = k
      BY <3>1
    <3>3. PICK i \in 1 .. Len(n) : f[i] = m
      BY <1>1, <3>1, <3>2
    <3> HIDE DEF m
    <3> DEFINE l == Len(a) + i
    <3>4. /\ l \in 1 .. Len(a) + Len(n) /\ ~(l <= Len(a)) /\ l - Len(a) = i
          /\ l \in 1 .. Len(a \o n) + Len(d) /\ l <= Len(a \o n) /\ l \in 1 .. Len(t)
      BY <1>6
    <3> HIDE DEF l
    <3>5. g[l] = Len(a) + f[i]
      BY <3>4
    <3>6. h[l] = g[l]
      <4> HIDE DEF g
      <4> QED BY <3>4
    <3> QED BY <3>1, <3>3, <3>4, <3>5, <3>6
  <2>3. CASE k \in Len(a) + Len(b) + 1 .. Len(s)
    <3> DEFINE i == k - Len(a \o b)
               l == Len(a \o n) + i
    <3>1. /\ i \in 1 .. Len(d) /\ l \in 1 .. Len(a \o n) + Len(d) /\ ~(l <= Len(a \o n))
          /\ l - Len(a \o n) = i /\ l \in 1 .. Len(t) /\ k = Len(a \o b) + i
      BY <2>3, <1>6
    <3> HIDE DEF i, l
    <3>2. id[i] = i
      BY <3>1
    <3>3. h[l] = Len(a \o b) + id[i]
      <4> HIDE DEF id, g
      <4> QED BY <3>1
    <3> QED BY <3>1, <3>2, <3>3
  <2>4. k \in 1 .. Len(a) \/ k \in Len(a) + 1 .. Len(a) + Len(b) \/ k \in Len(a) + Len(b) + 1 .. Len(s)
    BY <1>6
  <2> QED BY <2>1, <2>2, <2>3, <2>4
<1> HIDE DEF s, t, h
<1>10. /\ t = s \/ Len(t) < Len(s)
       /\ \E ff \in Feed!Ways(t, s) :
            \A k \in 1 .. Len(s) :
              \/ \E i \in 1 .. Len(t) : ff[i] = k
              \/ \E m \in 1 .. Len(b) : k = Len(a) + m /\ b[m].kind = "still"
  BY <1>5, <1>7, <1>9
<1> QED BY <1>10 DEF s, t, Gives

LEMMA ThinAppend == ASSUME NEW X, NEW n \in Seq(X), NEW a \in Seq(X), NEW p \in X, Thin(n, a)
                    PROVE  Thin(Append(n, p), Append(a, p))
<1>1. << >> \in Seq(X) /\ <<p>> \in Seq(X)
  OBVIOUS
<1> DEFINE s == (<< >> \o a) \o <<p>>
           t == (<< >> \o n) \o <<p>>
<1>2. s = Append(a, p) /\ t = Append(n, p)
  OBVIOUS
<1>3. Gives(<< >>, a, <<p>>, n)
  BY <1>1, ThinMiddle
<1>4. \A m \in 1 .. Len(a) : Len(<< >>) + m = m /\ Append(a, p)[m] = a[m]
  OBVIOUS
<1>5. /\ t = s \/ Len(t) < Len(s)
      /\ \E f \in Feed!Ways(t, s) :
           \A k \in 1 .. Len(s) :
             \/ \E i \in 1 .. Len(t) : f[i] = k
             \/ \E m \in 1 .. Len(a) : k = Len(<< >>) + m /\ a[m].kind = "still"
  BY <1>3 DEF Gives
<1> HIDE DEF s, t
<1>6. ASSUME NEW k \in 1 .. Len(s), NEW m \in 1 .. Len(a), k = Len(<< >>) + m, a[m].kind = "still"
      PROVE  s[k].kind = "still"
  BY <1>2, <1>4, <1>6
<1>7. Thin(t, s)
  BY <1>5, <1>6 DEF Thin
<1> QED BY <1>2, <1>7

(* dropqueue(1) leaves out stills only. *)
NoStills(q) == Only(q, Kinds \ {"still"})

LEMMA StillsGive == \A q \in Seq(Jobs) : Thin(Shown(NoStills(q)), Shown(q))
<1> DEFINE S == {q \in Seq(Jobs) : Thin(Shown(NoStills(q)), Shown(q))}
           P == [kind : Pictures, page : Pages]
<1>1. << >> \in S
  <2>1. << >> \in Seq(Jobs) /\ NoStills(<< >>) = << >>
    BY OnlyEmpty DEF NoStills
  <2>2. Shown(<< >>) \in Seq(P)
    BY <2>1, ShownSeq
  <2> QED BY <2>1, <2>2, ThinSame
<1>2. ASSUME NEW q \in Seq(Jobs), NEW x \in Jobs, q \in S PROVE Append(q, x) \in S
  <2> DEFINE n == Shown(NoStills(q))
             a == Shown(q)
             p == Pic(x)
  <2>1. Append(q, x) \in Seq(Jobs) /\ NoStills(q) \in Seq(Jobs)
    BY OnlyType DEF NoStills
  <2>2. n \in Seq(P) /\ a \in Seq(P) /\ Thin(n, a)
    BY <1>2, <2>1, ShownSeq
  <2>3. Shown(Append(q, x)) = IF IsPicture(x.kind) THEN Append(a, p) ELSE a
    BY ShownAppend
  <2>4. NoStills(Append(q, x)) = IF x.kind = "still" THEN NoStills(q) ELSE Append(NoStills(q), x)
    <3>1. x.kind \in Kinds
      BY DEF Jobs
    <3> QED BY <3>1, OnlyAppend DEF NoStills
  <2>5. Shown(Append(NoStills(q), x)) = IF IsPicture(x.kind) THEN Append(n, p) ELSE n
    BY <2>1, ShownAppend
  <2>6. IsPicture(x.kind) => p \in P /\ p.kind = x.kind
    BY PicType DEF Pic
  <2> HIDE DEF n, a, p, P
  <2>7. CASE x.kind = "still"
    <3>1. IsPicture(x.kind)
      BY <2>7 DEF IsPicture, Pictures
    <3>2. Thin(n, Append(a, p))
      BY <3>1, <2>2, <2>6, <2>7, ThinStill
    <3> QED BY <2>1, <2>3, <2>4, <2>7, <3>1, <3>2 DEF n
  <2>8. CASE x.kind # "still" /\ ~IsPicture(x.kind)
    BY <2>1, <2>2, <2>3, <2>4, <2>5, <2>8
  <2>9. CASE x.kind # "still" /\ IsPicture(x.kind)
    <3>1. Thin(Append(n, p), Append(a, p))
      BY <2>2, <2>6, <2>9, ThinAppend
    <3> QED BY <2>1, <2>3, <2>4, <2>5, <2>9, <3>1
  <2> QED BY <2>7, <2>8, <2>9
<1> HIDE DEF S
<1>3. Seq(Jobs) \subseteq S
  BY <1>1, <1>2, SeqInSet
<1> QED BY <1>3 DEF S

-----------------------------------------------------------------------------
(* Pages only get newer: no job and no picture is of a page to come.       *)

PageInv ==
  /\ queue \in Seq(JobsTo(page)) /\ todo \in Seq(JobsTo(page))
  /\ wjob.page <= page /\ lastpic.page <= page
  /\ pc = "drop" => intr
  /\ then # "drop"

LEMMA JobsToMore == ASSUME NEW n \in Pages, NEW m \in Pages, n <= m
                    PROVE  /\ JobsTo(n) \subseteq JobsTo(m)
                           /\ Seq(JobsTo(n)) \subseteq Seq(JobsTo(m))
<1>1. JobsTo(n) \subseteq JobsTo(m)
  BY DEF JobsTo, Jobs, Pages
<1>2. ASSUME NEW s \in Seq(JobsTo(n)) PROVE s \in Seq(JobsTo(m))
  BY <1>1
<1> QED BY <1>1, <1>2

LEMMA JobsToJobs == ASSUME NEW n PROVE Seq(JobsTo(n)) \subseteq Seq(Jobs)
<1>1. JobsTo(n) \subseteq Jobs
  BY DEF JobsTo
<1> DEFINE J == JobsTo(n)
<1>2. ASSUME NEW s \in Seq(J) PROVE s \in Seq(Jobs)
  <2>1. J \subseteq Jobs
    BY <1>1
  <2> HIDE DEF J
  <2> QED BY <2>1
<1> QED BY <1>2

(* Jobs of which at most one is a picture, and that one of page n. *)
OnePicture(s, n) ==
  /\ s \in Seq(JobsTo(n))
  /\ Shown(s) = << >> \/ \E x : Shown(s) = <<x>> /\ x.page = n /\ x \in [kind : Pictures, page : Pages]

LEMMA OneNone == ASSUME NEW n PROVE OnePicture(<< >>, n)
<1>1. << >> \in Seq(JobsTo(n))
  OBVIOUS
<1> QED BY <1>1, ShownEmpty DEF OnePicture

LEMMA OneJob == ASSUME NEW n \in Pages, NEW x \in Jobs, x.page = n PROVE OnePicture(<<x>>, n)
<1>1. x \in JobsTo(n)
  BY DEF JobsTo, Pages
<1>2. <<x>> \in Seq(JobsTo(n))
  BY <1>1
<1>3. Shown(<<x>>) = IF IsPicture(x.kind) THEN <<Pic(x)>> ELSE << >>
  BY ShownOne
<1>4. IsPicture(x.kind) => Pic(x) \in [kind : Pictures, page : Pages] /\ Pic(x).page = n
  BY PicType DEF Pic
<1> QED BY <1>2, <1>3, <1>4 DEF OnePicture

(* A job that is no picture may come first. *)
LEMMA OneMore == ASSUME NEW n \in Pages, NEW x \in Jobs, x.page = n, ~IsPicture(x.kind),
                        NEW s, OnePicture(s, n)
                 PROVE  OnePicture(<<x>> \o s, n)
<1>0. OnePicture(<<x>>, n)
  BY OneJob
<1>1. <<x>> \in Seq(JobsTo(n)) /\ <<x>> \in Seq(Jobs)
  BY <1>0 DEF OnePicture
<1>2. s \in Seq(JobsTo(n)) /\ s \in Seq(Jobs)
  BY JobsToJobs DEF OnePicture
<1>3. <<x>> \o s \in Seq(JobsTo(n))
  <2> DEFINE J == JobsTo(n)
  <2>1. <<x>> \in Seq(J) /\ s \in Seq(J)
    BY <1>1, <1>2
  <2> HIDE DEF J
  <2>2. <<x>> \o s \in Seq(J)
    BY <2>1
  <2> QED BY <2>2 DEF J
<1>4. Shown(<<x>> \o s) = Shown(<<x>>) \o Shown(s) /\ Shown(<<x>>) = << >>
  BY <1>1, <1>2, ShownConcat, ShownOne
<1>5. << >> \o Shown(s) = Shown(s)
  <2>1. Shown(s) \in Seq([kind : Pictures, page : Pages])
    BY <1>2, ShownSeq
  <2> DEFINE a == Shown(s)
             P == [kind : Pictures, page : Pages]
  <2> HIDE DEF a, P
  <2>2. << >> \o a = a
    BY <2>1 DEF a, P
  <2> QED BY <2>2 DEF a
<1> QED BY <1>3, <1>4, <1>5 DEF OnePicture

LEMMA FrameJobsOne == ASSUME MainTypes, NEW p \in Pages, NEW swapped \in BOOLEAN
                      PROVE  OnePicture(FrameJobs(p, swapped), p)
<1> DEFINE g == Job("gifframe", p)
           f == Job("frame", p)
           b == IF anim # "off" /\ mode # "inline" THEN <<f>> ELSE << >>
<1>1. /\ g \in Jobs /\ g.page = p /\ ~IsPicture(g.kind)
      /\ f \in Jobs /\ f.page = p
  BY JobOK DEF Kinds, IsPicture, Pictures
<1>2. OnePicture(b, p)
  BY <1>1, OneJob, OneNone
<1>3. FrameJobs(p, swapped) = <<g>> \o b \/ FrameJobs(p, swapped) = << >> \o b
  BY DEF FrameJobs
<1>4. << >> \o b = b
  <2>1. b \in Seq(JobsTo(p))
    BY <1>2 DEF OnePicture
  <2> HIDE DEF b
  <2> QED BY <2>1
<1> HIDE DEF g, f, b
<1> QED BY <1>1, <1>2, <1>3, <1>4, OneMore

LEMMA IdleJobsOne == ASSUME MainTypes, NEW worth \in BOOLEAN
                     PROVE  OnePicture(IF Len(gifpages) >= 2 THEN <<Job("gifend", page)>>
                              ELSE (IF gifpages # << >> THEN <<Job("gifdrop", page)>> ELSE << >>)
                                   \o (IF worth THEN <<Job("still", page)>> ELSE << >>), page)
<1> DEFINE e == Job("gifend", page)
           d == Job("gifdrop", page)
           l == Job("still", page)
           b == IF worth THEN <<l>> ELSE << >>
           a == IF gifpages # << >> THEN <<d>> ELSE << >>
<1>0. page \in Pages
  BY DEF MainTypes
<1>1. /\ e \in Jobs /\ e.page = page
      /\ d \in Jobs /\ d.page = page /\ ~IsPicture(d.kind)
      /\ l \in Jobs /\ l.page = page
  BY <1>0, JobOK DEF Kinds, IsPicture, Pictures
<1>2. OnePicture(<<e>>, page) /\ OnePicture(b, page)
  BY <1>0, <1>1, OneJob, OneNone
<1>4. << >> \o b = b
  <2>1. b \in Seq(JobsTo(page))
    BY <1>2 DEF OnePicture
  <2> HIDE DEF b
  <2> QED BY <2>1
<1>5. a = <<d>> \/ a = << >>
  OBVIOUS
<1> HIDE DEF e, d, l, b, a
<1>6. OnePicture(a \o b, page)
  BY <1>0, <1>1, <1>2, <1>4, <1>5, OneMore
<1> QED BY <1>2, <1>6 DEF e, d, l, b, a

-----------------------------------------------------------------------------
(* The pictures pending, part by part.                                     *)

ShownPics == [kind : Pictures, page : Pages]

LEMMA PendingParts == ASSUME NEW h \in Seq(Jobs), NEW q \in Seq(Jobs), NEW t \in Seq(Jobs)
                      PROVE  /\ Shown(h \o q \o t) = (Shown(h) \o Shown(q)) \o Shown(t)
                             /\ Shown(h) \in Seq(ShownPics) /\ Shown(q) \in Seq(ShownPics)
                             /\ Shown(t) \in Seq(ShownPics)
<1>1. h \o q \in Seq(Jobs)
  OBVIOUS
<1>2. Shown((h \o q) \o t) = Shown(h \o q) \o Shown(t) /\ Shown(h \o q) = Shown(h) \o Shown(q)
  BY <1>1, ShownConcat
<1> QED BY <1>2, ShownSeq DEF ShownPics

HandOf(w, j) == IF w \in {"taken", "write"} THEN <<j>> ELSE << >>

LEMMA HandJobs == ASSUME NEW w, NEW j \in Jobs PROVE HandOf(w, j) \in Seq(Jobs)
  BY DEF HandOf

LEMMA PendingNow == ASSUME TermInv
                    PROVE  /\ Pending = (Shown(HandOf(wpc, wjob)) \o Shown(queue)) \o Shown(todo)
                           /\ Shown(HandOf(wpc, wjob)) \in Seq(ShownPics)
                           /\ Shown(queue) \in Seq(ShownPics) /\ Shown(todo) \in Seq(ShownPics)
<1>1. wjob \in Jobs /\ queue \in Seq(Jobs) /\ todo \in Seq(Jobs)
  BY DEF TermInv, WorkTypes, QueueTypes, MainTypes
<1>2. Pending = Shown(HandOf(wpc, wjob) \o queue \o todo)
  BY DEF Pending, Shown, Hand, HandOf
<1> QED BY <1>1, <1>2, HandJobs, PendingParts

LEMMA PendingNext == ASSUME TermInv'
                     PROVE  /\ Pending' = (Shown(HandOf(wpc', wjob')) \o Shown(queue')) \o Shown(todo')
                            /\ Shown(HandOf(wpc', wjob')) \in Seq(ShownPics)
                            /\ Shown(queue') \in Seq(ShownPics) /\ Shown(todo') \in Seq(ShownPics)
<1>1. wjob' \in Jobs /\ queue' \in Seq(Jobs) /\ todo' \in Seq(Jobs)
  BY DEF TermInv, WorkTypes, QueueTypes, MainTypes
<1>2. Pending' = Shown(HandOf(wpc', wjob') \o queue' \o todo')
  BY DEF Pending, Shown, Hand, HandOf
<1> QED BY <1>1, <1>2, HandJobs, PendingParts

(* A step that leaves hand, queue, todo, the picture shown and intr alone. *)
LEMMA FeedStutters == ASSUME HandOf(wpc', wjob') = HandOf(wpc, wjob),
                             UNCHANGED <<queue, todo, lastpic, intr>>
                      PROVE  UNCHANGED Feed!fvars
<1>1. Pending' = Pending
  BY DEF Pending, Hand, HandOf
<1> QED BY <1>1 DEF Feed!fvars

(* A step that only changes intr, or nothing. *)
LEMMA FeedSignals == ASSUME HandOf(wpc', wjob') = HandOf(wpc, wjob), UNCHANGED <<queue, todo, lastpic>>
                     PROVE  [Feed!FNext]_(Feed!fvars)
<1>1. Pending' = Pending
  BY DEF Pending, Hand, HandOf
<1> QED BY <1>1 DEF Feed!fvars, Feed!FNext, Feed!FSignal

(* A step that hands over at most one picture, of the page. *)
LEMMA FeedEnds == ASSUME TermInv, PageInv, TermInv', todo = << >>, OnePicture(todo', page) \/ OnePicture(todo', page + 1),
                         UNCHANGED <<wpc, wjob, queue, lastpic, intr>>
                  PROVE  [Feed!FNext]_(Feed!fvars)
<1> DEFINE h == Shown(HandOf(wpc, wjob))
           q == Shown(queue)
           a == h \o q
           P == ShownPics
<1>1. h \in Seq(P) /\ q \in Seq(P) /\ Pending = a \o Shown(todo) /\ Shown(todo) = << >>
  BY PendingNow, ShownEmpty
<1>2. Pending' = a \o Shown(todo')
  BY PendingNext
<1>3. a \in Seq(P)
  <2> HIDE DEF h, q, P
  <2> QED BY <1>1
<1>4. Pending = a
  <2> HIDE DEF a, P
  <2> QED BY <1>1, <1>3
<1>5. \A i \in 1 .. Len(a) : a[i].page <= page
  <2> DEFINE X == PicsTo(page)
  <2>0. page \in Pages
    BY DEF TermInv, MainTypes
  <2>1. HandOf(wpc, wjob) \in Seq(JobsTo(page))
    <3>1. wjob \in JobsTo(page)
      BY DEF PageInv, JobsTo, TermInv, WorkTypes
    <3>2. << >> \in Seq(JobsTo(page)) /\ <<wjob>> \in Seq(JobsTo(page))
      BY <3>1
    <3> QED BY <3>2 DEF HandOf
  <2>2. h \in Seq(X) /\ q \in Seq(X)
    BY <2>0, <2>1, ShownType DEF PageInv
  <2>3. \A x \in X : x.page <= page
    BY DEF PicsTo
  <2> HIDE DEF h, q, X
  <2>4. a \in Seq(X)
    BY <2>2
  <2> HIDE DEF a
  <2> QED BY <2>3, <2>4
<1>6. Feed!Newest <= page
  <2>1. Feed!Newest = IF a = << >> THEN lastpic.page ELSE a[Len(a)].page
    BY <1>4 DEF Feed!Newest
  <2> HIDE DEF a
  <2>2. a # << >> => Len(a) \in 1 .. Len(a)
    BY <1>3
  <2> QED BY <2>1, <2>2, <1>5 DEF PageInv
<1>7. CASE Shown(todo') = << >>
  <2>1. Pending' = Pending
    BY <1>1, <1>2, <1>7
  <2> QED BY <2>1 DEF Feed!fvars
<1>8. ASSUME NEW x \in ShownPics, Shown(todo') = <<x>>, x.page >= page PROVE Feed!FEnd
  <2> HIDE DEF a
  <2>1. Pending' = Append(a, x)
    BY <1>2, <1>3, <1>8
  <2>2. /\ Len(Append(a, x)) = Len(a) + 1 /\ SubSeq(Append(a, x), 1, Len(a)) = a
        /\ Append(a, x)[Len(a) + 1] = x
    BY <1>3, <1>8
  <2>3. Feed!Newest \in Int /\ x.page \in Int /\ page \in Int
    <3>1. Feed!Newest = IF a = << >> THEN lastpic.page ELSE a[Len(a)].page
      BY <1>4 DEF Feed!Newest
    <3>2. a # << >> => a[Len(a)] \in ShownPics
      BY <1>3
    <3>3. lastpic.page \in Pages /\ page \in Pages
      BY DEF TermInv, WorkTypes, MainTypes, Pics
    <3> QED BY <3>1, <3>2, <3>3, <1>8 DEF ShownPics, Pages
  <2>4. x.page >= Feed!Newest
    BY <2>3, <1>6, <1>8
  <2> QED BY <2>1, <2>2, <2>4, <1>4 DEF Feed!FEnd
<1>9. Shown(todo') = << >> \/ \E x \in ShownPics : Shown(todo') = <<x>> /\ x.page >= page
  <2>1. page \in Int
    BY DEF TermInv, MainTypes, Pages
  <2> QED BY <2>1 DEF OnePicture, ShownPics
<1> QED BY <1>7, <1>8, <1>9 DEF Feed!FNext

(* A step after Ctrl-C that leaves some pictures out. *)
LEMMA FeedDrops == ASSUME intr, UNCHANGED <<lastpic, intr>>, Drops(Pending', Pending)
                   PROVE  [Feed!FNext]_(Feed!fvars)
<1>1. CASE Pending' = Pending
  BY <1>1 DEF Feed!fvars
<1>2. CASE Pending' # Pending
  <2>1. Len(Pending') < Len(Pending) /\ \E f \in Feed!Ways(Pending', Pending) : TRUE
    BY <1>2 DEF Drops
  <2> QED BY <2>1 DEF Feed!FDrop, Feed!FNext
<1> QED BY <1>1, <1>2

-----------------------------------------------------------------------------
(* Every step of the display is a step of the feed, or none.               *)

(* The first job of todo goes, and nothing else of what is pending. *)
LEMMA TodoShown == ASSUME TermInv, todo # << >>
                   PROVE  /\ Shown(todo) = Shown(<<Head(todo)>>) \o Shown(Tail(todo))
                          /\ Shown(Tail(todo)) \in Seq(ShownPics)
                          /\ Shown(<<Head(todo)>>) = IF IsPicture(Head(todo).kind)
                                                     THEN <<Pic(Head(todo))>> ELSE << >>
                          /\ IsPicture(Head(todo).kind) => Pic(Head(todo)) \in ShownPics
<1>1. todo \in Seq(Jobs) /\ Head(todo) \in Jobs /\ Tail(todo) \in Seq(Jobs)
  BY TodoTail DEF TermInv, MainTypes
<1> QED BY <1>1, ShownHead, ShownOne, ShownSeq, PicType DEF ShownPics

(* What is left when the head of a sequence goes is a way to drop it. *)
LEMMA DropsHead == ASSUME NEW X, NEW o, NEW x, o = << >> \/ (o = <<x>> /\ x \in X), NEW t \in Seq(X)
                   PROVE  Drops(t, o \o t)
<1>0. << >> \in Seq(X) /\ (x \in X => <<x>> \in Seq(X))
  OBVIOUS
<1>1. o \in Seq(X) /\ << >> \in Seq(X)
  BY <1>0
<1>2. Drops(<< >>, o) /\ Drops(t, t)
  BY <1>1, DropsAll, DropsSame
<1>3. Drops(<< >> \o t, o \o t)
  BY <1>1, <1>2, DropsConcat
<1>4. << >> \o t = t
  OBVIOUS
<1> QED BY <1>3, <1>4

LEMMA TodoDrops == ASSUME TermInv, todo # << >> PROVE Drops(Shown(Tail(todo)), Shown(todo))
<1> DEFINE o == Shown(<<Head(todo)>>)
           t == Shown(Tail(todo))
           x == Pic(Head(todo))
<1>1. t \in Seq(ShownPics) /\ (o = << >> \/ (o = <<x>> /\ x \in ShownPics)) /\ Shown(todo) = o \o t
  BY TodoShown
<1> HIDE DEF o, t, x
<1>2. Drops(t, o \o t)
  BY <1>1, DropsHead
<1> QED BY <1>1, <1>2 DEF t

LEMMA PartsDrop == ASSUME NEW h \in Seq(ShownPics), NEW q \in Seq(ShownPics), NEW t \in Seq(ShownPics),
                          NEW h2 \in Seq(ShownPics), NEW q2 \in Seq(ShownPics), NEW t2 \in Seq(ShownPics),
                          Drops(h2, h), Drops(q2, q), Drops(t2, t)
                   PROVE  Drops((h2 \o q2) \o t2, (h \o q) \o t)
<1>1. h \o q \in Seq(ShownPics) /\ h2 \o q2 \in Seq(ShownPics)
  OBVIOUS
<1>2. Drops(h2 \o q2, h \o q)
  BY DropsConcat
<1> QED BY <1>1, <1>2, DropsConcat

(* Parts of what is pending are dropped after Ctrl-C. *)
LEMMA FeedDropsParts == ASSUME TermInv, TermInv', intr, UNCHANGED <<lastpic, intr>>,
                               Drops(Shown(HandOf(wpc', wjob')), Shown(HandOf(wpc, wjob))),
                               Drops(Shown(queue'), Shown(queue)), Drops(Shown(todo'), Shown(todo))
                        PROVE  [Feed!FNext]_(Feed!fvars)
<1> DEFINE h == Shown(HandOf(wpc, wjob))
           q == Shown(queue)
           t == Shown(todo)
           h2 == Shown(HandOf(wpc', wjob'))
           q2 == Shown(queue')
           t2 == Shown(todo')
<1>1. /\ h \in Seq(ShownPics) /\ q \in Seq(ShownPics) /\ t \in Seq(ShownPics)
      /\ Pending = (h \o q) \o t
  BY PendingNow
<1>2. /\ h2 \in Seq(ShownPics) /\ q2 \in Seq(ShownPics) /\ t2 \in Seq(ShownPics)
      /\ Pending' = (h2 \o q2) \o t2
  BY PendingNext
<1>3. Drops(h2, h) /\ Drops(q2, q) /\ Drops(t2, t)
  OBVIOUS
<1> HIDE DEF h, q, t, h2, q2, t2
<1>4. Drops((h2 \o q2) \o t2, (h \o q) \o t)
  BY <1>1, <1>2, <1>3, PartsDrop
<1> QED BY <1>1, <1>2, <1>4, FeedDrops

LEMMA SamePartDrops == ASSUME TermInv
                       PROVE  /\ Drops(Shown(HandOf(wpc, wjob)), Shown(HandOf(wpc, wjob)))
                              /\ Drops(Shown(queue), Shown(queue)) /\ Drops(Shown(todo), Shown(todo))
  BY PendingNow, DropsSame

LEMMA PostCheckFeed == ASSUME TermInv, TermInv', PostCheck PROVE [Feed!FNext]_(Feed!fvars)
<1>1. CASE intr /\ Head(todo).kind # "gifdrop"
  <2>1. todo # << >> /\ todo' = Tail(todo)
    BY <1>1 DEF PostCheck, Posted, PostThen, TermInv, TodoInv
  <2>2. UNCHANGED <<wpc, wjob, queue, lastpic, intr>>
    BY DEF PostCheck, workvars
  <2>3. Drops(Shown(todo'), Shown(todo))
    BY <2>1, TodoDrops
  <2> QED BY <1>1, <2>2, <2>3, SamePartDrops, FeedDropsParts
<1>2. CASE ~(intr /\ Head(todo).kind # "gifdrop")
  BY <1>2, FeedStutters DEF PostCheck, workvars, HandOf
<1> QED BY <1>1, <1>2

LEMMA IdleDropFeed == ASSUME TermInv, TermInv', PageInv, IdleDrop PROVE [Feed!FNext]_(Feed!fvars)
<1>1. intr /\ queue' = << >> /\ UNCHANGED <<wpc, wjob, todo, lastpic, intr>>
  BY DEF IdleDrop, PageInv, workvars
<1>2. Shown(queue') = << >>
  BY <1>1, ShownEmpty
<1>3. Drops(Shown(queue'), Shown(queue))
  BY <1>2, PendingNow, DropsAll
<1> QED BY <1>1, <1>3, SamePartDrops, FeedDropsParts

(* Parts that stay the same together leave the feed alone. *)
LEMMA WTakeFeed == ASSUME TermInv, TermInv', WTake PROVE [Feed!FNext]_(Feed!fvars)
<1> DEFINE j == Head(queue)
           o == Shown(<<j>>)
           q2 == Shown(Tail(queue))
           t == Shown(todo)
<1>1. /\ queue # << >> /\ queue \in Seq(Jobs) /\ wpc = "idle" /\ wpc' = "taken"
      /\ wjob' = j /\ queue' = Tail(queue) /\ UNCHANGED <<todo, lastpic, intr>>
  BY DEF WTake, TermInv, QueueTypes, mainvars, postvars
<1>2. Shown(queue) = o \o q2
  BY <1>1, ShownHead
<1>3. Shown(HandOf(wpc, wjob)) = << >> /\ Shown(HandOf(wpc', wjob')) = o
  BY <1>1, ShownEmpty DEF HandOf
<1>4. Pending = (<< >> \o (o \o q2)) \o t
  BY <1>2, <1>3, PendingNow
<1>5. Pending' = (o \o q2) \o t /\ o \in Seq(ShownPics) /\ q2 \in Seq(ShownPics)
  BY <1>1, <1>3, PendingNext
<1> HIDE DEF o, q2
<1>6. << >> \o (o \o q2) = o \o q2
  BY <1>5
<1> QED BY <1>1, <1>4, <1>5, <1>6 DEF Feed!fvars

(* The picture in the worker's hand comes first. *)
LEMMA InHand == ASSUME TermInv, TermInv', wpc \in {"taken", "write"}, IsPicture(wjob.kind),
                       wpc' \notin {"taken", "write"}, UNCHANGED <<queue, todo>>
                PROVE  /\ Pending # << >> /\ Head(Pending) = Pic(wjob) /\ Pending[1] = Pic(wjob)
                       /\ Pending' = Tail(Pending)
<1> DEFINE q == Shown(queue)
           t == Shown(todo)
           x == Pic(wjob)
           P == ShownPics
<1>1. Shown(HandOf(wpc, wjob)) = <<x>> /\ Shown(HandOf(wpc', wjob')) = << >> /\ x \in P
  BY ShownOne, ShownEmpty, PicType DEF HandOf, TermInv, WorkTypes, ShownPics
<1>2. Pending = (<<x>> \o q) \o t /\ q \in Seq(P) /\ t \in Seq(P)
  BY <1>1, PendingNow
<1>3. Pending' = (<< >> \o q) \o t
  BY <1>1, PendingNext
<1> HIDE DEF q, t, x, P
<1>4. (<< >> \o q) \o t = q \o t /\ (<<x>> \o q) \o t = <<x>> \o (q \o t) /\ q \o t \in Seq(P)
  BY <1>1, <1>2
<1> DEFINE r == q \o t
<1>5. Pending = <<x>> \o r /\ Pending' = r /\ r \in Seq(P)
  BY <1>2, <1>3, <1>4
<1> HIDE DEF r
<1>6. /\ <<x>> \o r # << >> /\ Head(<<x>> \o r) = x /\ (<<x>> \o r)[1] = x
      /\ Tail(<<x>> \o r) = r
  BY <1>1, <1>5
<1> QED BY <1>5, <1>6 DEF x

LEMMA WLookFeed == ASSUME TermInv, TermInv', WLook PROVE [Feed!FNext]_(Feed!fvars)
<1>0. wpc = "taken" /\ UNCHANGED <<queue, todo, lastpic, intr, wjob>>
  BY DEF WLook, mainvars, postvars
<1>1. CASE wpc' = "write"
  BY <1>0, <1>1, FeedStutters DEF HandOf
<1>2. CASE wpc' = "finish" /\ intr
  <2>1. Shown(HandOf(wpc', wjob')) = << >>
    BY <1>2, ShownEmpty DEF HandOf
  <2>2. Drops(Shown(HandOf(wpc', wjob')), Shown(HandOf(wpc, wjob)))
    BY <2>1, PendingNow, DropsAll
  <2> QED BY <1>0, <1>2, <2>2, SamePartDrops, FeedDropsParts
<1>3. CASE wpc' = "finish" /\ ~IsPicture(wjob.kind)
  <2>1. Shown(HandOf(wpc', wjob')) = << >> /\ Shown(HandOf(wpc, wjob)) = << >>
    BY <1>0, <1>3, ShownEmpty, ShownOne DEF HandOf, TermInv, WorkTypes
  <2>2. Pending' = Pending
    BY <1>0, <2>1, PendingNow, PendingNext
  <2> QED BY <1>0, <2>2 DEF Feed!fvars
<1>4. CASE wpc' = "finish" /\ ~intr /\ IsPicture(wjob.kind)
  <2>1. wjob.kind = "gifend"
    BY <1>4 DEF WLook, IsPicture, Pictures
  <2>2. Pending # << >> /\ Pending[1] = Pic(wjob) /\ Pending' = Tail(Pending)
    BY <1>0, <1>4, InHand
  <2> QED BY <1>0, <2>1, <2>2 DEF Feed!FNext, Feed!FFail, Pic
<1> QED BY <1>1, <1>2, <1>3, <1>4 DEF WLook

LEMMA WPublishFeed == ASSUME TermInv, TermInv', WPublish PROVE [Feed!FNext]_(Feed!fvars)
<1>1. /\ wpc = "write" /\ wpc' = "send" /\ UNCHANGED <<queue, todo, intr>>
      /\ lastpic'.kind = wjob.kind /\ lastpic'.page = wjob.page
  BY DEF WPublish, mainvars, postvars
<1>2. IsPicture(wjob.kind)
  BY <1>1 DEF TermInv, WorkTypes, IsPicture
<1>3. Pending # << >> /\ Head(Pending) = Pic(wjob) /\ Pending' = Tail(Pending)
  BY <1>1, <1>2, InHand
<1> QED BY <1>1, <1>3 DEF Feed!FNext, Feed!FShow, Pic

LEMMA WFailFeed == ASSUME TermInv, TermInv', WFail PROVE [Feed!FNext]_(Feed!fvars)
<1>1. wpc = "write" /\ wpc' = "finish" /\ UNCHANGED <<queue, todo, intr, lastpic>> /\ WriteMayFail
  BY DEF WFail, mainvars, postvars
<1>2. IsPicture(wjob.kind)
  BY <1>1 DEF TermInv, WorkTypes, IsPicture
<1>3. Pending # << >> /\ Pending' = Tail(Pending)
  BY <1>1, <1>2, InHand
<1> QED BY <1>1, <1>3 DEF Feed!FNext, Feed!FFail

LEMMA ConcatAt == ASSUME NEW X, NEW e \in Seq(X), NEW d \in Seq(X)
                  PROVE  /\ Len(e \o d) = Len(e) + Len(d)
                         /\ \A k \in 1 .. Len(e) : (e \o d)[k] = e[k]
                         /\ \A k \in 1 .. Len(d) : (e \o d)[Len(e) + k] = d[k]
  OBVIOUS

(* Three sequences in a row. *)
Parts(s, h, q, d) ==
  /\ Len(s) = Len(h) + Len(q) + Len(d)
  /\ \A m \in 1 .. Len(q) : s[Len(h) + m] = q[m]
  /\ d # << >> => s[Len(h) + Len(q) + 1] = d[1]

LEMMA ThreeParts == ASSUME NEW X, NEW h \in Seq(X), NEW q \in Seq(X), NEW d \in Seq(X),
                           NEW s, s = (h \o q) \o d
                    PROVE  Parts(s, h, q, d)
<1> DEFINE e == h \o q
<1>1. e \in Seq(X)
  OBVIOUS
<1>2. Len(e) = Len(h) + Len(q) /\ \A m \in 1 .. Len(q) : e[Len(h) + m] = q[m]
  BY ConcatAt
<1> HIDE DEF e
<1>3. /\ Len(e \o d) = Len(e) + Len(d)
      /\ \A k \in 1 .. Len(e) : (e \o d)[k] = e[k]
      /\ \A k \in 1 .. Len(d) : (e \o d)[Len(e) + k] = d[k]
  BY <1>1, ConcatAt
<1>4. d # << >> => 1 \in 1 .. Len(d)
  OBVIOUS
<1>5. Len(h) \in Nat /\ Len(q) \in Nat
  OBVIOUS
<1> DEFINE ed == e \o d
<1>6. /\ Len(ed) = Len(e) + Len(d)
      /\ \A k \in 1 .. Len(e) : ed[k] = e[k]
      /\ \A k \in 1 .. Len(d) : ed[Len(e) + k] = d[k]
  BY <1>3
<1> HIDE DEF ed
<1>7. /\ Len(ed) = Len(h) + Len(q) + Len(d)
      /\ \A m \in 1 .. Len(q) : ed[Len(h) + m] = q[m]
      /\ d # << >> => ed[Len(h) + Len(q) + 1] = d[1]
  BY <1>2, <1>4, <1>5, <1>6
<1> QED BY <1>7 DEF e, ed, Parts

Joined(h, n, x, t) == (h \o Append(n, x)) \o t = (h \o n) \o (<<x>> \o t)

LEMMA JoinMiddle == ASSUME NEW X, NEW h \in Seq(X), NEW n \in Seq(X), NEW t \in Seq(X), NEW x \in X
                    PROVE  Joined(h, n, x, t)
<1> DEFINE a == h \o n
<1>1. h \o Append(n, x) = Append(a, x)
  BY AppendConcat
<1>2. a \in Seq(X)
  OBVIOUS
<1> HIDE DEF a
<1>3. Append(a, x) \o t = a \o (<<x>> \o t)
  BY <1>2
<1> QED BY <1>1, <1>3 DEF a, Joined

(* A still or a GIF joins the queue, and the stills before it give way. *)
LEMMA FeedSupersedes == ASSUME NEW h \in Seq(ShownPics), NEW q \in Seq(ShownPics), NEW n \in Seq(ShownPics),
                               NEW x \in ShownPics, NEW t \in Seq(ShownPics), x.kind \in {"still", "gifend"},
                               Thin(n, q), UNCHANGED <<lastpic, intr>>,
                               Pending = (h \o q) \o (<<x>> \o t), Pending' = (h \o Append(n, x)) \o t
                        PROVE  [Feed!FNext]_(Feed!fvars)
<1> DEFINE P == ShownPics
           d == <<x>> \o t
           a == (h \o q) \o d
           b == (h \o n) \o d
<1>1. d \in Seq(P) /\ h \o q \in Seq(P) /\ h \o n \in Seq(P)
  <2> HIDE DEF P
  <2>1. h \in Seq(P) /\ q \in Seq(P) /\ n \in Seq(P) /\ t \in Seq(P) /\ x \in P
    BY DEF P
  <2> QED BY <2>1
<1>2. (h \o Append(n, x)) \o t = b
  <2>1. h \in Seq(P) /\ n \in Seq(P) /\ t \in Seq(P) /\ x \in P
    OBVIOUS
  <2> HIDE DEF P
  <2>2. Joined(h, n, x, t)
    BY <2>1, JoinMiddle
  <2> QED BY <2>2 DEF Joined
<1>3. Gives(h, q, d, n)
  <2> HIDE DEF d
  <2> QED BY <1>1, ThinMiddle
<1>4. PICK f \in Feed!Ways(b, a) : \A k \in 1 .. Len(a) :
                                      \/ \E i \in 1 .. Len(b) : f[i] = k
                                      \/ \E m \in 1 .. Len(q) : k = Len(h) + m /\ q[m].kind = "still"
  BY <1>3 DEF Gives
<1>5. b = a \/ Len(b) < Len(a)
  BY <1>3 DEF Gives
<1>6. Pending = a /\ Pending' = b
  BY <1>2
<1>7. ASSUME NEW m \in 1 .. Len(q), NEW k, k = Len(h) + m, q[m].kind = "still" PROVE Feed!GivesWay(k)
  <2> DEFINE j == Len(h) + Len(q) + 1
  <2>1. a[k] = q[m] /\ a[j] = x /\ k \in Int /\ j \in k + 1 .. Len(a)
    <3>1. Len(d) = 1 + Len(t) /\ d[1] = x /\ d # << >>
      OBVIOUS
    <3>2. d \in Seq(ShownPics)
      BY <1>1
    <3> HIDE DEF d
    <3>5. /\ Len(a) = Len(h) + Len(q) + Len(d)
          /\ \A l \in 1 .. Len(q) : a[Len(h) + l] = q[l]
          /\ d # << >> => a[j] = d[1]
      <4>1. Parts(a, h, q, d)
        BY <3>2, ThreeParts
      <4> HIDE DEF a
      <4> QED BY <4>1 DEF Parts
    <3>3. Len(a) = Len(h) + Len(q) + Len(d) /\ a[Len(h) + m] = q[m] /\ a[j] = d[1]
      <4> HIDE DEF a, j
      <4> QED BY <1>7, <3>1, <3>5
    <3> HIDE DEF a
    <3>4. Len(h) \in Nat /\ Len(q) \in Nat /\ Len(t) \in Nat
      OBVIOUS
    <3> QED BY <1>7, <3>1, <3>3, <3>4
  <2> HIDE DEF a, j
  <2> QED BY <2>1, <1>6, <1>7 DEF Feed!GivesWay
<1>8. CASE b = a
  BY <1>6, <1>8 DEF Feed!fvars
<1>9. CASE Len(b) < Len(a)
  <2>1. \A k \in 1 .. Len(a) : Feed!GivesWay(k) \/ \E i \in 1 .. Len(b) : f[i] = k
    <3> HIDE DEF a, b
    <3> QED BY <1>4, <1>7
  <2> HIDE DEF a, b
  <2>2. \E g \in Feed!Ways(Pending', Pending) :
          \A k \in 1 .. Len(Pending) : Feed!GivesWay(k) \/ \E i \in 1 .. Len(Pending') : g[i] = k
    <3>1. f \in Feed!Ways(Pending', Pending)
      BY <1>4, <1>6
    <3>2. \A k \in 1 .. Len(Pending) : Feed!GivesWay(k) \/ \E i \in 1 .. Len(Pending') : f[i] = k
      BY <1>6, <2>1
    <3> QED BY <3>1, <3>2
  <2>3. Len(Pending') < Len(Pending)
    BY <1>6, <1>9
  <2>4. Feed!FSupersede
    BY <2>2, <2>3 DEF Feed!FSupersede
  <2> QED BY <2>4 DEF Feed!FNext
<1> QED BY <1>5, <1>8, <1>9

LEMMA SupersededDrops == ASSUME TermInv, NEW j
                         PROVE  /\ Superseded(j) \in Seq(Jobs)
                                /\ Thin(Shown(Superseded(j)), Shown(queue))
<1>1. queue \in Seq(Jobs) /\ Superseded(j) \in Seq(Jobs)
  BY SupersededType DEF TermInv, QueueTypes
<1>2. CASE j.kind \in {"still", "gifend"}
  BY <1>1, <1>2, StillsGive DEF Superseded, NoStills
<1>3. CASE j.kind \notin {"still", "gifend"}
  BY <1>1, <1>3, ShownSeq, ThinSame DEF Superseded
<1> QED BY <1>1, <1>2, <1>3

LEMMA PostLockedFeed == ASSUME TermInv, TermInv', PostLocked PROVE [Feed!FNext]_(Feed!fvars)
<1> DEFINE j == Head(todo)
           x == Pic(j)
           h == Shown(HandOf(wpc, wjob))
           q == Shown(queue)
           n == Shown(Superseded(j))
           t == Shown(Tail(todo))
           stop == intr /\ j.kind # "gifdrop"
<1>1. /\ todo # << >> /\ todo' = Tail(todo) /\ j \in Jobs
      /\ UNCHANGED <<wpc, wjob, lastpic, intr>>
      /\ queue' = IF stop THEN Superseded(j) ELSE Append(Superseded(j), j)
  BY TodoTail DEF PostLocked, Posted, PostThen, TermInv, TodoInv, workvars
<1>2. Superseded(j) \in Seq(Jobs) /\ Thin(n, q)
  BY SupersededDrops
<1>3. n \in Seq(ShownPics)
  BY <1>2, ShownSeq DEF ShownPics
<1>4. CASE stop
  <2>1. Drops(Shown(queue'), Shown(queue))
    BY <1>1, <1>2, <1>4 DEF Thin, Drops
  <2>2. Drops(Shown(todo'), Shown(todo))
    BY <1>1, TodoDrops
  <2> QED BY <1>1, <1>4, <2>1, <2>2, SamePartDrops, FeedDropsParts
<1>5. CASE ~stop
  <2>1. Shown(queue') = IF IsPicture(j.kind) THEN Append(n, x) ELSE n
    BY <1>1, <1>2, <1>5, ShownAppend
  <2>2. /\ Shown(todo) = Shown(<<j>>) \o t /\ t \in Seq(ShownPics)
        /\ Shown(<<j>>) = IF IsPicture(j.kind) THEN <<x>> ELSE << >>
        /\ IsPicture(j.kind) => x \in ShownPics
    BY <1>1, TodoShown
  <2>3. /\ Pending = (h \o q) \o Shown(todo) /\ h \in Seq(ShownPics) /\ q \in Seq(ShownPics)
        /\ Pending' = (h \o Shown(queue')) \o t
    BY <1>1, PendingNow, PendingNext
  <2>4. CASE j.kind \in {"still", "gifend"}
    <3>1. IsPicture(j.kind) /\ x.kind \in {"still", "gifend"}
      BY <2>4 DEF IsPicture, Pictures, Pic
    <3> HIDE DEF x, h, q, n, t, stop, j
    <3> QED BY <1>1, <1>2, <1>3, <2>1, <2>2, <2>3, <3>1, FeedSupersedes
  <2>5. CASE j.kind \notin {"still", "gifend"}
    <3>1. n = q
      BY <2>5 DEF Superseded
    <3>2. Pending' = Pending
      <4> HIDE DEF x, h, q, n, t, stop, j
      <4>1. CASE IsPicture(j.kind)
        <5> DEFINE P == ShownPics
        <5>1. x \in P /\ h \in Seq(P) /\ q \in Seq(P) /\ t \in Seq(P)
          BY <4>1, <2>2, <2>3
        <5> HIDE DEF P
        <5>3. Joined(h, q, x, t)
          BY <5>1, JoinMiddle
        <5>2. (h \o Append(q, x)) \o t = (h \o q) \o (<<x>> \o t)
          BY <5>3 DEF Joined
        <5> QED BY <4>1, <3>1, <5>2, <2>1, <2>2, <2>3
      <4>2. CASE ~IsPicture(j.kind)
        <5>1. << >> \o t = t
          BY <2>2
        <5> QED BY <4>2, <3>1, <5>1, <2>1, <2>2, <2>3
      <4> QED BY <4>1, <4>2
    <3> QED BY <1>1, <3>2 DEF Feed!fvars
  <2> QED BY <2>4, <2>5
<1> QED BY <1>4, <1>5

(* The actions that may hand over a picture. *)
LEMMA BlankFeed == ASSUME TermInv, PageInv, TermInv', NEW dbl \in BOOLEAN, Blank(dbl)
                   PROVE  [Feed!FNext]_(Feed!fvars) /\ PageInv'
<1>1. page \in Pages /\ page' = page + 1 /\ page' \in Pages /\ todo = << >>
  BY TermAssumption DEF TermInv, MainTypes, Blank, NewPage, Pages, TodoInv
<1>2. OnePicture(todo', page)
  <2>1. OnePicture(FrameJobs(page, FALSE), page)
    <3>1. MainTypes /\ FALSE \in BOOLEAN
      BY DEF TermInv
    <3> QED BY <1>1, <3>1, FrameJobsOne, Zenon
  <2>2. todo' = FrameJobs(page, FALSE) \/ todo' = << >>
    BY DEF Blank, PostThen
  <2> QED BY <2>1, <2>2, OneNone
<1>3. UNCHANGED <<wpc, wjob, queue, lastpic, intr>> /\ pc' \in {"command", "post"} /\ then' = "command"
  BY DEF Blank, quiet, workvars, PostThen
<1>4. page <= page + 1
  BY <1>1 DEF Pages
<1>5. Seq(JobsTo(page)) \subseteq Seq(JobsTo(page'))
  BY <1>1, <1>4, JobsToMore
<1>6. PageInv'
  <2>1. queue' \in Seq(JobsTo(page')) /\ todo' \in Seq(JobsTo(page'))
    BY <1>2, <1>3, <1>5 DEF PageInv, OnePicture
  <2>2. wjob'.page <= page' /\ lastpic'.page <= page'
    BY <1>1, <1>3, SMTT(30) DEF PageInv, TermInv, WorkTypes, Jobs, Pics, Pages
  <2> QED BY <2>1, <2>2, <1>3 DEF PageInv
<1> QED BY <1>1, <1>2, <1>3, <1>6, FeedEnds

LEMMA SwapFrameFeed == ASSUME TermInv, PageInv, TermInv', SwapFrame
                       PROVE  [Feed!FNext]_(Feed!fvars) /\ PageInv'
<1>1. page \in Pages /\ page' = page + 1 /\ page' \in Pages /\ todo = << >>
  BY TermAssumption DEF TermInv, MainTypes, SwapFrame, NewPage, Pages, TodoInv
<1>2. OnePicture(todo', page')
  <2>1. OnePicture(FrameJobs(page', TRUE), page')
    <3>1. MainTypes /\ TRUE \in BOOLEAN
      BY DEF TermInv
    <3> QED BY <1>1, <3>1, FrameJobsOne, Zenon
  <2>2. todo' = FrameJobs(page', TRUE) \/ todo' = << >>
    BY <1>1 DEF SwapFrame, PostThen
  <2> QED BY <2>1, <2>2, OneNone
<1>3. UNCHANGED <<wpc, wjob, queue, lastpic, intr>> /\ pc' \in {"command", "post"} /\ then' = "command"
  BY DEF SwapFrame, quiet, workvars, PostThen
<1>4. page <= page + 1
  BY <1>1 DEF Pages
<1>5. Seq(JobsTo(page)) \subseteq Seq(JobsTo(page'))
  BY <1>1, <1>4, JobsToMore
<1>6. PageInv'
  <2>1. queue' \in Seq(JobsTo(page')) /\ todo' \in Seq(JobsTo(page'))
    BY <1>2, <1>3, <1>5 DEF PageInv, OnePicture
  <2>2. wjob'.page <= page' /\ lastpic'.page <= page'
    BY <1>1, <1>3, SMTT(30) DEF PageInv, TermInv, WorkTypes, Jobs, Pics, Pages
  <2> QED BY <2>1, <2>2, <1>3 DEF PageInv
<1> QED BY <1>1, <1>2, <1>3, <1>6, FeedEnds

LEMMA IdleShowFeed == ASSUME TermInv, PageInv, TermInv', IdleShow
                      PROVE  [Feed!FNext]_(Feed!fvars) /\ PageInv'
<1> DEFINE worth == dirty /\ (drawn \/ mode = "file" \/ (mode = "tmux" /\ posted))
<1>1. todo = << >> /\ page' = page
  BY DEF TermInv, IdleShow, TodoInv
<1>2. OnePicture(todo', page)
  <2>1. worth \in BOOLEAN
    BY DEF TermInv, MainFlags
  <2>2. todo' = IF Len(gifpages) >= 2 THEN <<Job("gifend", page)>>
                ELSE (IF gifpages # << >> THEN <<Job("gifdrop", page)>> ELSE << >>)
                     \o (IF worth THEN <<Job("still", page)>> ELSE << >>)
    BY DEF IdleShow, PostThen
  <2> HIDE DEF worth
  <2> QED BY <2>1, <2>2, IdleJobsOne DEF TermInv
<1>3. UNCHANGED <<wpc, wjob, queue, lastpic, intr>> /\ pc' \in {"show", "post"} /\ then' = "show"
  BY DEF IdleShow, workvars, PostThen
<1>4. PageInv'
  BY <1>1, <1>2, <1>3 DEF PageInv, OnePicture
<1> QED BY <1>1, <1>2, <1>3, <1>4, FeedEnds

LEMMA IdleForgetFeed == ASSUME TermInv, PageInv, TermInv', IdleForget
                        PROVE  [Feed!FNext]_(Feed!fvars) /\ PageInv'
<1>1. /\ todo = << >> /\ UNCHANGED <<page, wpc, wjob, queue, lastpic>> /\ pc' \in {"post", "gap", "pull"}
      /\ then' \in {"gap", "pull"}
  BY DEF TermInv, IdleForget, TodoInv, PostThen, MainTypes, workvars
<1> DEFINE d == Job("gifdrop", page)
<1>2. d \in Jobs /\ d.page = page /\ ~IsPicture(d.kind) /\ page \in Pages
  BY JobOK DEF TermInv, MainTypes, Kinds, IsPicture, Pictures
<1>3. todo' = << >> \/ todo' = <<d>>
  BY DEF IdleForget, PostThen
<1>4. Shown(todo') = << >> /\ OnePicture(todo', page)
  <2> HIDE DEF d
  <2> QED BY <1>2, <1>3, ShownEmpty, ShownOne, OneJob, OneNone
<1>5. Pending' = Pending
  BY <1>1, <1>4, ShownEmpty, PendingNow, PendingNext
<1>6. [Feed!FNext]_(Feed!fvars)
  BY <1>1, <1>5 DEF Feed!FNext, Feed!FSignal, Feed!fvars
<1>7. PageInv'
  BY <1>1, <1>4 DEF PageInv, OnePicture
<1> QED BY <1>6, <1>7

(* Commands that post nothing. *)
LEMMA QuietFeed == ASSUME TermInv, PageInv, TermInv', page' >= page, pc' # "drop" \/ intr',
                          UNCHANGED <<queue, todo, then, wpc, wjob, lastpic>>
                   PROVE  [Feed!FNext]_(Feed!fvars) /\ PageInv'
<1>1. page \in Pages /\ page' \in Pages /\ page <= page'
  BY DEF TermInv, MainTypes, Pages
<1>2. Seq(JobsTo(page)) \subseteq Seq(JobsTo(page'))
  BY <1>1, JobsToMore
<1>3. wjob'.page <= page' /\ lastpic'.page <= page'
  BY <1>1, SMTT(30) DEF PageInv, TermInv, WorkTypes, Jobs, Pics, Pages
<1>4. PageInv'
  BY <1>2, <1>3 DEF PageInv
<1> QED BY <1>4, FeedSignals DEF HandOf

LEMMA CommandFeed == ASSUME TermInv, PageInv, TermInv', Command
                     PROVE  [Feed!FNext]_(Feed!fvars) /\ PageInv'
<1>0. page \in Int
  BY DEF TermInv, MainTypes, Pages
<1>1. CASE Draw \/ SetXsize
  <2>1. page' >= page /\ UNCHANGED <<queue, todo, wpc, wjob, lastpic, then>>
    <3>1. page' = page \/ page' = page + 1
      BY <1>1 DEF Draw, SetXsize, NewPage
    <3>2. UNCHANGED <<queue, todo, wpc, wjob, lastpic, then>>
      BY <1>1 DEF Draw, SetXsize, quiet, workvars, postvars
    <3> QED BY <1>0, <3>1, <3>2
  <2>2. pc' # "drop"
    BY <1>1 DEF Draw, SetXsize, postvars
  <2> QED BY <2>1, <2>2, QuietFeed
<1>2. CASE Pull \/ EndCommand \/ Quit
  <2>1. page' >= page /\ UNCHANGED <<queue, todo, then, wpc, wjob, lastpic>> /\ pc' # "drop"
    BY <1>0, <1>2 DEF Pull, EndCommand, Quit, Goto, workvars, pagevars
  <2> QED BY <2>1, QuietFeed
<1>3. CASE Clear \/ DoubleOn \/ SwapBlank
  BY <1>3, BlankFeed DEF Clear, DoubleOn, SwapBlank
<1>4. CASE SwapFrame
  BY <1>4, SwapFrameFeed
<1> QED BY <1>1, <1>2, <1>3, <1>4 DEF Command

LEMMA UserFeed == ASSUME TermInv, PageInv, TermInv', User \/ Gone \/ IdleInterrupted \/ IdlePrint \/ IdleClear
                                                     \/ PostSync \/ Signal \/ Pane
                  PROVE  [Feed!FNext]_(Feed!fvars) /\ PageInv'
<1>0. page \in Int
  BY DEF TermInv, MainTypes, Pages
<1>1. CASE User \/ Gone
  <2>1. page' = page /\ UNCHANGED <<queue, todo, then, wpc, wjob, lastpic>> /\ pc' # "drop"
    BY <1>1 DEF User, Gone, Prompt, Enter, Begin, Answer, Stop, Join, Goto, workvars, pagevars
  <2> QED BY <1>0, <2>1, QuietFeed
<1>2. CASE IdleInterrupted
  <2>1. page' = page /\ UNCHANGED <<queue, todo, then, wpc, wjob, lastpic>> /\ intr'
    BY <1>2 DEF IdleInterrupted, Goto, workvars, pagevars
  <2> QED BY <1>0, <2>1, QuietFeed
<1>3. CASE IdlePrint \/ IdleClear
  <2>1. page' = page /\ UNCHANGED <<queue, todo, then, wpc, wjob, lastpic>> /\ pc' # "drop"
    BY <1>3 DEF IdlePrint, IdleClear, workvars, pagevars, TermInv, MainTypes
  <2> QED BY <1>0, <2>1, QuietFeed
<1>4. CASE PostSync
  <2>1. page' = page /\ UNCHANGED <<queue, todo, then, wpc, wjob, lastpic, intr>>
    BY <1>4 DEF PostSync, PostThen, workvars, pagevars
  <2>2. [Feed!FNext]_(Feed!fvars)
    BY <2>1, FeedStutters DEF HandOf
  <2>3. pc' = "drop" => intr'
    <3>1. pc' = "drop" => todo' = << >> /\ then = "drop"
      BY <1>4 DEF PostSync, PostThen
    <3> QED BY <3>1 DEF PageInv, TermInv
  <2> QED BY <2>1, <2>2, <2>3 DEF PageInv
<1>5. CASE Signal
  <2>1. page' = page /\ UNCHANGED <<queue, todo, then, wpc, wjob, lastpic>> /\ intr'
    BY <1>5 DEF Signal, workvars, pagevars, postvars
  <2> QED BY <1>0, <2>1, QuietFeed
<1>6. CASE Pane
  <2>1. page' = page /\ UNCHANGED <<queue, todo, then, wpc, wjob, lastpic, intr, pc>>
    BY <1>6 DEF Pane, workvars, mainvars, pagevars, postvars
  <2>2. pc' # "drop" \/ intr'
    BY <2>1 DEF PageInv
  <2> QED BY <1>0, <2>1, <2>2, QuietFeed
<1> QED BY <1>1, <1>2, <1>3, <1>4, <1>5, <1>6

(* What the main thread has posted, or the queue, only gets shorter. *)
LEMMA PostCheckPage == ASSUME TermInv, PageInv, PostCheck PROVE PageInv'
<1>1. UNCHANGED <<queue, page, wjob, lastpic, then>> /\ (todo' = todo \/ todo' = Tail(todo)) /\ pc' # "drop"
  BY DEF PostCheck, Posted, PostThen, PageInv, workvars, pagevars
<1>2. todo # << >>
  BY DEF PostCheck, TermInv, TodoInv
<1>3. todo' \in Seq(JobsTo(page))
  <2> DEFINE J == JobsTo(page)
  <2>1. todo \in Seq(J)
    BY DEF PageInv
  <2> HIDE DEF J
  <2>2. Tail(todo) \in Seq(J)
    BY <1>2, <2>1
  <2> QED BY <1>1, <2>1, <2>2 DEF J
<1> QED BY <1>1, <1>3 DEF PageInv

LEMMA PostLockedPage == ASSUME TermInv, PageInv, PostLocked PROVE PageInv'
<1> DEFINE J == JobsTo(page)
           j == Head(todo)
<1>1. /\ UNCHANGED <<page, wjob, lastpic, then>> /\ todo' = Tail(todo) /\ pc' # "drop"
      /\ queue' = Superseded(j) \/ queue' = Append(Superseded(j), j)
  BY DEF PostLocked, Posted, PostThen, PageInv, workvars, pagevars
<1>2. todo # << >>
  BY DEF PostLocked, TermInv, TodoInv
<1>3. todo \in Seq(J) /\ queue \in Seq(J)
  BY DEF PageInv
<1> HIDE DEF J
<1>4. Tail(todo) \in Seq(J) /\ j \in J
  BY <1>2, <1>3
<1>5. Superseded(j) \in Seq(J)
  BY <1>3, OnlyType DEF Superseded
<1> HIDE DEF j
<1>6. Append(Superseded(j), j) \in Seq(J)
  BY <1>4, <1>5
<1> QED BY <1>1, <1>4, <1>5, <1>6 DEF PageInv, J

LEMMA WTakePage == ASSUME TermInv, PageInv, WTake PROVE PageInv'
<1> DEFINE J == JobsTo(page)
<1>1. /\ queue # << >> /\ wjob' = Head(queue) /\ queue' = Tail(queue)
      /\ UNCHANGED <<page, todo, then, pc, intr, lastpic>>
  BY DEF WTake, mainvars, pagevars, postvars
<1>2. queue \in Seq(J)
  BY DEF PageInv
<1>3. \A j \in J : j.page <= page
  BY DEF JobsTo
<1> HIDE DEF J
<1>4. Tail(queue) \in Seq(J) /\ Head(queue) \in J
  BY <1>1, <1>2
<1> QED BY <1>1, <1>3, <1>4 DEF PageInv, J

LEMMA WorkPage == ASSUME TermInv, PageInv, WLook \/ WPublish \/ WFail \/ WSend \/ WFinish \/ WResize \/ WExit
                  PROVE  PageInv'
<1>1. UNCHANGED <<page, todo, then, pc, intr, queue>>
  BY DEF WLook, WPublish, WFail, WSend, WFinish, WResize, WExit, mainvars, pagevars, postvars
<1>2. wjob' = wjob \/ wjob'.page = 0
  BY DEF WLook, WPublish, WFail, WSend, WFinish, WResize, WExit, workvars, NoJob
<1>3. lastpic' = lastpic \/ lastpic'.page = wjob.page
  BY DEF WLook, WPublish, WFail, WSend, WFinish, WResize, WExit, workvars
<1>4. 0 <= page
  BY DEF TermInv, MainTypes, Pages
<1> QED BY <1>1, <1>2, <1>3, <1>4 DEF PageInv

LEMMA IdleDropPage == ASSUME TermInv, PageInv, IdleDrop PROVE PageInv'
<1>1. queue' = << >> /\ UNCHANGED <<page, todo, then, wjob, lastpic>> /\ pc' # "drop"
  BY DEF IdleDrop, workvars, pagevars
<1>2. << >> \in Seq(JobsTo(page))
  OBVIOUS
<1> QED BY <1>1, <1>2 DEF PageInv

LEMMA WorkerFeed == ASSUME TermInv, TermInv', Worker PROVE [Feed!FNext]_(Feed!fvars)
<1>1. CASE WSend \/ WFinish \/ WResize \/ WExit
  <2>1. HandOf(wpc', wjob') = << >> /\ HandOf(wpc, wjob) = << >>
    BY <1>1 DEF WSend, WFinish, WResize, WExit, HandOf, workvars
  <2>2. UNCHANGED <<queue, todo, lastpic, intr>>
    BY <1>1 DEF WSend, WFinish, WResize, WExit, mainvars, postvars, workvars
  <2> QED BY <2>1, <2>2, FeedStutters
<1> QED BY <1>1, WTakeFeed, WLookFeed, WPublishFeed, WFailFeed DEF Worker

LEMMA FeedNext == TermInv /\ PageInv /\ TermInv' /\ [Next]_vars => [Feed!FNext]_(Feed!fvars) /\ PageInv'
<1> SUFFICES ASSUME TermInv, PageInv, TermInv', [Next]_vars
             PROVE  [Feed!FNext]_(Feed!fvars) /\ PageInv'
  OBVIOUS
<1>1. CASE Command
  BY <1>1, CommandFeed
<1>2. CASE User \/ Gone \/ Signal \/ Pane
  BY <1>2, UserFeed
<1>3. CASE Post
  BY <1>3, PostCheckFeed, PostCheckPage, PostLockedFeed, PostLockedPage, UserFeed DEF Post
<1>4. CASE Idle
  BY <1>4, UserFeed, IdleShowFeed, IdleDropFeed, IdleDropPage, IdleForgetFeed DEF Idle
<1>5. CASE Worker
  BY <1>5, WorkerFeed, WTakePage, WorkPage DEF Worker
<1>6. CASE UNCHANGED vars
  <2>1. UNCHANGED <<queue, todo, then, pc, wpc, wjob, lastpic, intr, page>>
    BY <1>6 DEF vars, pagevars, postvars, workvars
  <2>2. [Feed!FNext]_(Feed!fvars)
    BY <2>1, FeedStutters DEF HandOf
  <2> QED BY <2>1, <2>2 DEF PageInv
<1> QED BY <1>1, <1>2, <1>3, <1>4, <1>5, <1>6 DEF Next

LEMMA FeedInit == Init => Feed!FInit /\ PageInv
<1> SUFFICES ASSUME Init PROVE Feed!FInit /\ PageInv
  OBVIOUS
<1>1. /\ queue = << >> /\ todo = << >> /\ wpc = "idle" /\ page = 0 /\ wjob.page = 0
      /\ lastpic.page = 0 /\ ~intr /\ pc = "top" /\ then = "command"
  BY DEF Init, NoJob, NoPic
<1>2. Pending = << >>
  <2>1. Pending = Shown(Hand \o queue \o todo)
    BY DEF Pending, Shown
  <2>2. Hand = << >>
    BY <1>1 DEF Hand
  <2>3. (<< >> \o << >>) \o << >> = << >>
    OBVIOUS
  <2> QED BY <1>1, <2>1, <2>2, <2>3, ShownEmpty
<1>3. << >> \in Seq(JobsTo(page))
  OBVIOUS
<1>4. PageInv
  BY <1>1, <1>3 DEF PageInv
<1> QED BY <1>1, <1>2, <1>4 DEF Feed!FInit

(* The display implements the feed: every picture handed over is shown, in *)
(* the order drawn, and the only ones that are not are a still followed by *)
(* a newer picture, what Ctrl-C drops, a picture that cannot be written    *)
(* and a GIF without frames (post, dropqueue, work and publish in gxT.c).  *)
THEOREM ShowsEveryPicture == Spec => RefinesPictureFeed
<1>1. Init => Feed!FInit /\ PageInv
  BY FeedInit
<1>2. TermInv /\ PageInv /\ TermInv' /\ [Next]_vars => [Feed!FNext]_(Feed!fvars) /\ PageInv'
  BY FeedNext
<1> QED BY <1>1, <1>2, TermInvHolds, PTL DEF Spec, RefinesPictureFeed, Feed!FSpec

=============================================================================
