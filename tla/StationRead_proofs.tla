------------------------- MODULE StationRead_proofs -------------------------
(***************************************************************************)
(* Theorems about StationRead, for any layouts, requests and cache sizes.  *)
(***************************************************************************)
EXTENDS StationRead, SequenceTheorems, FiniteSetTheorems, Induction

-----------------------------------------------------------------------------
(* Least elements and quotients.                                           *)

LEMMA LeastIs ==
  ASSUME NEW S \in SUBSET Nat, S # {}
  PROVE  Min(S) \in S /\ \A y \in S : Min(S) <= y
  <1> DEFINE R == OpToRel(<, Nat)
  <1>1. IsWellFoundedOn(R, Nat)
    BY NatLessThanWellFounded
  <1>2. \A y, x \in Nat : y < x => <<y, x>> \in R
    BY Zenon DEF OpToRel
  <1> HIDE DEF R
  <1>3. PICK x \in S : \A y \in S : ~(<<y, x>> \in R)
    BY <1>1, WFMin, Zenon
  <1>4. ASSUME NEW y \in S PROVE x <= y
    <2>1. x \in Nat /\ y \in Nat
      OBVIOUS
    <2>2. ~(y < x)
      BY <1>2, <1>3, <2>1, Zenon
    <2>3. QED
      BY <2>1, <2>2
  <1>5. QED
    BY <1>4 DEF Min

LEMMA GreatestIs ==
  ASSUME NEW n \in Nat, NEW S \in SUBSET (1 .. n), S # {}
  PROVE  \E x \in S : \A y \in S : y <= x
  <1> DEFINE D == {k \in Nat : n - k \in S}
  <1>1. PICK z \in S : TRUE
    OBVIOUS
  <1>2. n - z \in Nat /\ n - (n - z) = z
    BY <1>1
  <1>3. D # {} /\ D \in SUBSET Nat
    BY <1>1, <1>2
  <1> DEFINE m == Min(D)
  <1>4. m \in D /\ \A k \in D : m <= k
    BY <1>3, LeastIs
  <1>5. n - m \in S
    BY <1>4
  <1>6. ASSUME NEW y \in S PROVE y <= n - m
    <2>1. n - y \in Nat /\ n - (n - y) = y
      OBVIOUS
    <2>2. n - y \in D
      BY <2>1
    <2>3. m <= n - y /\ m \in Nat
      BY <1>4, <2>2
    <2> HIDE DEF m
    <2>4. QED
      BY <2>3
  <1>7. QED
    BY <1>5, <1>6

LEMMA QuotientGrows ==
  ASSUME NEW a \in Int, NEW b \in Int, a <= b, NEW n \in Nat, n # 0
  PROVE  a \div n \in Int /\ a \div n <= b \div n
  OBVIOUS

-----------------------------------------------------------------------------
(* The layout of a data set and the names of its files.                    *)

LayoutOK(L) ==
  /\ L.nt \in Nat /\ L.span \in Nat /\ L.span # 0 /\ L.size \in Nat
  /\ L.tmplat \in 0 .. 3 /\ L.kind \in Kinds
  /\ L.gt \in Seq(Nat) /\ L.gt # << >> /\ L.length \in Seq(Nat)
  /\ Len(L.gt) = Len(L.length)
  /\ \A e \in Members(L) : Times(L, e) \subseteq 1 .. L.nt
  /\ L.tmplat < 2 => \A e \in Members(L) : Times(L, e) = 1 .. L.nt

LEMMA LayoutFields ==
  ASSUME LayoutAssumption, NEW k \in 1 .. Len(Layout)
  PROVE  LayoutOK(Layout[k])
  <1>1. Layout[k] \in Layouts /\ k \in DOMAIN Layout
    BY DEF LayoutAssumption
  <1>2. \A s \in Seq(Nat \ {0}) : s \in Seq(Nat)
    OBVIOUS
  <1>3. QED
    BY <1>1, <1>2 DEF Layouts, LayoutOK, LayoutAssumption

LEMMA MemberTimes ==
  ASSUME NEW L, LayoutOK(L), NEW e \in Members(L)
  PROVE  /\ e \in Nat /\ e >= 1 /\ L.gt[e] \in Nat /\ L.length[e] \in Nat
         /\ \A t \in Times(L, e) : t \in Nat /\ t >= 1 /\ t <= L.nt /\ L.gt[e] <= t
  <1>1. e \in 1 .. Len(L.gt) /\ e \in 1 .. Len(L.length) /\ Len(L.gt) \in Nat
    BY DEF Members, LayoutOK
  <1>2. L.gt[e] \in Nat /\ L.length[e] \in Nat /\ L.nt \in Nat
    <2>1. L.gt \in Seq(Nat) /\ L.length \in Seq(Nat) /\ L.nt \in Nat
      BY DEF LayoutOK
    <2>2. QED
      BY <1>1, <2>1, SMTT(30)
  <1>3. \A t \in Times(L, e) : t \in 1 .. L.nt
    BY DEF LayoutOK
  <1>4. \A t \in Times(L, e) : L.gt[e] <= t
    BY <1>2 DEF Times
  <1>5. QED
    BY <1>1, <1>2, <1>3, <1>4

Names == Int \X Int

LEMMA NameIsFile ==
  ASSUME NEW L, LayoutOK(L), NEW t \in Int, NEW e \in Nat
  PROVE  Gafndt(L, t, e) \in Names /\ Gafndt(L, t, e) \notin NoStream
  <1> DEFINE q == (t - 1) \div L.span
  <1>1. q \in Int
    BY DEF LayoutOK
  <1> HIDE DEF q
  <1>2. Gafndt(L, t, e) = <<IF L.tmplat >= 2 THEN e ELSE 0,
                            IF L.tmplat \in {1, 3} THEN q ELSE 0>>
    BY DEF Gafndt, q
  <1>3. QED
    BY <1>1, <1>2 DEF Names, NoStream, NoFile, Unopened, Dangling

(* The file of a time begins at a time of the same name and all between.   *)
LEMMA FnumIs ==
  ASSUME NEW L, LayoutOK(L), NEW e \in Members(L), NEW t \in Times(L, e)
  PROVE  /\ Fnum(L, t, e) \in Nat /\ L.gt[e] <= Fnum(L, t, e) /\ Fnum(L, t, e) <= t
         /\ Fnum(L, t, e) \in Times(L, e)
         /\ \A w \in Fnum(L, t, e) .. t : Gafndt(L, w, e) = Gafndt(L, t, e)
         /\ \A u \in L.gt[e] .. t :
              (\A w \in u .. t : Gafndt(L, w, e) = Gafndt(L, t, e)) => Fnum(L, t, e) <= u
  <1> DEFINE S == {u \in L.gt[e] .. t :
                     \A w \in u .. t : Gafndt(L, w, e) = Gafndt(L, t, e)}
  <1>1. t \in Nat /\ t >= 1 /\ L.gt[e] \in Nat /\ L.gt[e] <= t /\ L.length[e] \in Nat
    BY MemberTimes
  <1>2. \A w \in t .. t : w = t
    BY <1>1
  <1>3. t \in S /\ S \in SUBSET Nat
    BY <1>1, <1>2
  <1>4. Fnum(L, t, e) = Min(S)
    BY DEF Fnum
  <1>5. Min(S) \in S /\ \A y \in S : Min(S) <= y
    BY <1>3, LeastIs
  <1> DEFINE m == Min(S)
  <1>6. m \in L.gt[e] .. t /\ \A w \in m .. t : Gafndt(L, w, e) = Gafndt(L, t, e)
    BY <1>5
  <1>7. m \in Times(L, e)
    BY <1>1, <1>6 DEF Times
  <1>8. QED
    BY <1>1, <1>4, <1>5, <1>6, <1>7

-----------------------------------------------------------------------------
(* Data sets and the file each holds.                                      *)

Sets == [fseq : Nat, src : Nat, lay : 0 .. Len(Layout), fnumc : Nat, fnume : Nat,
         infile : Names]

(* The slots, each with its own number while it is open.                   *)
SetsInv ==
  /\ ds \in [Slot -> Sets] /\ opened \in Nat /\ sources \in Nat
  /\ \A d \in Slot : ~IsOpen(d) => ds[d].infile = NoFile
  /\ \A d \in Slot : ds[d].fseq <= opened
  /\ \A d, d2 \in Slot : IsOpen(d) /\ IsOpen(d2) /\ ds[d].fseq = ds[d2].fseq => d = d2
  /\ OneFileOpen

(* A request is of an open data set and of its members.                    *)
Rows(L) == Seq(Int \X Members(L))
ReqInv ==
  /\ pc \in {"idle", "row", "read", "done", "undefined"}
  /\ pc # "idle" => /\ req.d \in Slot /\ IsOpen(req.d)
                    /\ req \in [d : Slot, rows : Rows(Lay(File)), toff : BOOLEAN]
  /\ pc \in {"row", "read"} => req.rows # << >>

(* What gaopfn leaves of a data set: one file is open in place of another. *)
Kept(f, g) == g.fseq = f.fseq /\ g.src = f.src /\ g.lay = f.lay

LEMMA LayOf ==
  ASSUME LayoutAssumption, NEW f \in Sets, f.lay # 0
  PROVE  LayoutOK(Lay(f)) /\ f.lay \in 1 .. Len(Layout)
  <1>1. f.lay \in 1 .. Len(Layout)
    BY DEF Sets, LayoutAssumption
  <1>2. QED
    BY <1>1, LayoutFields DEF Lay

LEMMA GaopfnKeeps ==
  ASSUME LayoutAssumption, NEW f \in Sets, f.lay # 0, NEW t \in Int,
         NEW e \in Members(Lay(f)), NEW o \in Gaopfn(f, t, e)
  PROVE  /\ o.file \in Sets /\ Kept(f, o.file)
         /\ o.took = Holds(o.file) - Holds(f)
         /\ o.rc \in {"read", "missing", "error", "undefined"}
  <1> DEFINE L == Lay(f)
             i == Fnum(L, t, e)
             n == Gafndt(L, t, e)
             gone1 == [rc |-> "missing", file |-> FileGone(f, i, e), oflg |-> FALSE,
                       took |-> -Shut(f)]
             new == [rc |-> "read", file |-> [f EXCEPT !.fnumc = i, !.fnume = e, !.infile = n],
                     oflg |-> TRUE, took |-> 1 - Shut(f)]
             err == [rc |-> "error", file |-> Nameless(f), oflg |-> FALSE, took |-> -Shut(f)]
  <1>1. /\ LayoutOK(L) /\ e \in Nat /\ Holds(f) \in {0, 1} /\ Shut(f) = Holds(f)
        /\ NoStream \subseteq Names /\ f.infile \in Names
        /\ NoFile \in NoStream /\ Unopened \in NoStream /\ Dangling \in NoStream
    BY LayOf, MemberTimes DEF Holds, Shut, NoStream, NoFile, Unopened, Dangling, Names, Sets
  <1>2. CASE o.file = f /\ o.took = 0 /\ o.rc \in {"read", "undefined"}
    <2>1. Holds(o.file) = Holds(f) /\ Kept(f, o.file) /\ o.file \in Sets
      BY <1>2 DEF Kept
    <2>2. QED
      BY <1>1, <1>2, <2>1
  <1>3. CASE o = [rc |-> "missing", file |-> Forgotten(f), oflg |-> FALSE, took |-> 0]
    <2>1. Forgotten(f) \in Sets /\ Kept(f, Forgotten(f)) /\ Forgotten(f).infile = f.infile
      BY DEF Forgotten, Kept, Sets
    <2>2. o.file = Forgotten(f) /\ o.took = 0 /\ o.rc = "missing"
      BY <1>3
    <2>3. Holds(o.file) = Holds(f)
      BY <2>1, <2>2 DEF Holds
    <2>4. QED
      BY <1>1, <2>1, <2>2, <2>3
  <1>4. CASE o = gone1
    <2> DEFINE g == FileGone(f, i, e)
    <2>1. g \in Sets /\ Kept(f, g) /\ g.infile = Unopened
      BY <1>1 DEF FileGone, Forgotten, Kept, Sets
    <2>2. o.file = g /\ o.took = -Shut(f) /\ o.rc = "missing"
      BY <1>4
    <2>3. Holds(g) = 0
      BY <1>1, <2>1 DEF Holds
    <2> HIDE DEF g
    <2>4. QED
      BY <1>1, <2>1, <2>2, <2>3
  <1>5. CASE o = err
    <2> DEFINE g == Nameless(f)
    <2>1. g \in Sets /\ Kept(f, g) /\ g.infile \in {NoFile, Dangling}
      BY <1>1 DEF Nameless, Kept, Sets
    <2>2. o.file = g /\ o.took = -Shut(f) /\ o.rc = "error"
      BY <1>5
    <2>3. Holds(g) = 0
      BY <1>1, <2>1 DEF Holds
    <2> HIDE DEF g
    <2>4. QED
      BY <1>1, <2>1, <2>2, <2>3
  <1>6. CASE o = new /\ i # -1
    <2>1. t \in Times(L, e)
      BY <1>6 DEF Fnum
    <2>2. i \in Nat
      BY <1>1, <2>1, FnumIs
    <2>3. n \in Names /\ n \notin NoStream
      BY <1>1, NameIsFile
    <2> HIDE DEF i, n
    <2>4. o.file = [f EXCEPT !.fnumc = i, !.fnume = e, !.infile = n]
          /\ o.took = 1 - Holds(f) /\ o.rc = "read"
      BY <1>1, <1>6
    <2>5. o.file \in Sets /\ o.file.infile = n /\ Kept(f, o.file)
      BY <1>1, <2>2, <2>3, <2>4 DEF Sets, Kept
    <2>6. Holds(o.file) = 1
      BY <2>3, <2>5 DEF Holds
    <2>7. QED
      BY <1>1, <2>4, <2>5, <2>6
  <1>7. \/ o.file = f /\ o.took = 0 /\ o.rc \in {"read", "undefined"}
        \/ o = [rc |-> "missing", file |-> Forgotten(f), oflg |-> FALSE, took |-> 0]
        \/ o = gone1 \/ o = err \/ (o = new /\ i # -1)
    <2>1. o \in IF L.tmplat = 0
                THEN {[rc |-> "read", file |-> f, oflg |-> FALSE, took |-> 0]}
                ELSE IF i = -1
                THEN {[rc |-> "missing", file |-> Forgotten(f), oflg |-> FALSE, took |-> 0]}
                ELSE IF ~Needs(f, i, e)
                THEN {[rc |-> "read", file |-> f, oflg |-> FALSE, took |-> 0]}
                ELSE IF f.infile = Dangling
                THEN {[rc |-> "undefined", file |-> f, oflg |-> FALSE, took |-> 0]}
                ELSE {IF Gone(f, t, e) THEN gone1 ELSE new}
                     \cup {err : x \in {y \in {1} : NamesFail}}
      BY DEF Gaopfn
    <2> HIDE DEF L, i, n, gone1, new, err
    <2>2. QED
      BY <2>1
  <1>8. QED
    BY <1>2, <1>3, <1>4, <1>5, <1>6, <1>7

-----------------------------------------------------------------------------
(* The count of open files.                                                *)

LEMMA CountChanges ==
  ASSUME LayoutAssumption, ds \in [Slot -> Sets], OneFileOpen, NEW d \in Slot, NEW f \in Sets,
         ds' = [ds EXCEPT ![d] = f], handles' = handles + (Holds(f) - Holds(ds[d]))
  PROVE  OneFileOpen'
  <1> DEFINE O == {x \in Slot : Holds(ds[x]) = 1}
             N == {x \in Slot : Holds(ds'[x]) = 1}
  <1>1. IsFiniteSet(O) /\ Cardinality(O) \in Nat /\ handles = Cardinality(O)
    BY FS_Subset, FS_CardinalityType DEF LayoutAssumption, OneFileOpen
  <1>2. Holds(f) \in {0, 1} /\ Holds(ds[d]) \in {0, 1} /\ ds'[d] = f
        /\ \A x \in Slot : x # d => ds'[x] = ds[x]
    BY DEF Holds
  <1>3. N = IF Holds(f) = 1 THEN O \cup {d} ELSE O \ {d}
    BY <1>2
  <1>4. d \in O <=> Holds(ds[d]) = 1
    OBVIOUS
  <1>5. (OneFileOpen)' <=> handles' = Cardinality(N)
    BY DEF OneFileOpen, Holds, NoStream, NoFile, Unopened, Dangling
  <1> HIDE DEF O, N
  <1>6. Cardinality(N) = Cardinality(O) + (Holds(f) - Holds(ds[d]))
    <2> DEFINE a == Holds(f)
               b == Holds(ds[d])
               c == Cardinality(O)
    <2>1. /\ Cardinality(O \cup {d}) = IF d \in O THEN c ELSE c + 1
          /\ Cardinality(O \ {d}) = IF d \in O THEN c - 1 ELSE c
      BY <1>1, FS_AddElement, FS_RemoveElement
    <2>2. a \in {0, 1} /\ b \in {0, 1} /\ (d \in O <=> b = 1) /\ c \in Nat
          /\ N = IF a = 1 THEN O \cup {d} ELSE O \ {d}
      BY <1>1, <1>2, <1>3, <1>4
    <2> HIDE DEF a, b, c
    <2>3. Cardinality(N) = c + (a - b)
      <3>1. CASE a = 1
        BY <2>1, <2>2, <3>1
      <3>2. CASE a = 0
        BY <2>1, <2>2, <3>2
      <3>3. QED
        BY <2>2, <3>1, <3>2
    <2>4. QED
      BY <2>3 DEF a, b, c
  <1>7. QED
    BY <1>1, <1>5, <1>6


-----------------------------------------------------------------------------
(* Requests.                                                               *)

LEMMA InitRead ==
  ASSUME LayoutAssumption, Init
  PROVE  SetsInv /\ ReqInv
  <1>1. /\ ds = [d \in Slot |-> NoSet] /\ opened = 0 /\ sources = 0 /\ handles = 0
        /\ pc = "idle"
    BY DEF Init, FileInit, GridInit
  <1>2. NoSet \in Sets /\ NoSet.lay = 0 /\ NoSet.infile = NoFile /\ Holds(NoSet) = 0
        /\ NoSet.fseq = 0
    BY DEF NoSet, Sets, Names, NoStream, NoFile, Holds, LayoutAssumption
  <1>3. \A d \in Slot : Holds(ds[d]) = 0 /\ ~IsOpen(d) /\ ds[d].infile = NoFile
                        /\ ds[d].fseq = 0
    BY <1>1, <1>2 DEF IsOpen
  <1>4. OneFileOpen
    <2>1. {d \in Slot : Holds(ds[d]) = 1} = {}
      BY <1>3
    <2>2. QED
      BY <1>1, <2>1, FS_EmptySet DEF OneFileOpen
  <1>5. SetsInv
    BY <1>1, <1>2, <1>3, <1>4 DEF SetsInv
  <1>6. QED
    BY <1>1, <1>5 DEF ReqInv

LEMMA SetsStay ==
  ASSUME SetsInv, UNCHANGED filevars
  PROVE  SetsInv'
  BY DEF SetsInv, filevars, OneFileOpen, IsOpen, Holds

LEMMA FunctionIsSeq ==
  ASSUME NEW X, NEW n \in Nat, NEW f \in [1 .. n -> X]
  PROVE  f \in Seq(X) /\ Len(f) = n /\ (n > 0 => f # << >>)
  <1>1. f \in Seq(X) /\ Len(f) = n
    OBVIOUS
  <1>2. QED
    BY <1>1

(* What a request asks for is in order: rows of times and members.         *)
LEMMA RequestsAre ==
  ASSUME LayoutAssumption, SetsInv, NEW d \in Slot, IsOpen(d), NEW r \in Requests(d)
  PROVE  /\ r \in [d : Slot, rows : Rows(Lay(ds[d])), toff : BOOLEAN]
         /\ r.d = d /\ r.rows # << >>
  <1> DEFINE L == Lay(ds[d])
             M == Members(L)
  <1>1. /\ LayoutOK(L) /\ L.nt \in Nat /\ L.gt \in Seq(Nat) /\ L.gt # << >>
    BY LayOf DEF SetsInv, IsOpen, LayoutOK
  <1>2. M = 1 .. Len(L.gt) /\ Len(L.gt) \in Nat /\ Len(L.gt) > 0
    BY <1>1 DEF Members
  <1>3. \A t \in Int, e \in M : /\ << <<t, e>>, <<t, e>> >> \in Seq(Int \X M)
                                /\ << <<t, e>>, <<t, e>> >> # << >>
    OBVIOUS
  <1>4. ASSUME NEW e \in M
        PROVE  /\ [i \in 1 .. L.nt + 2 |-> <<i - 1, e>>] \in Seq(Int \X M)
               /\ [i \in 1 .. L.nt + 2 |-> <<i - 1, e>>] # << >>
    <2> DEFINE n == L.nt + 2
               f == [i \in 1 .. n |-> <<i - 1, e>>]
    <2>1. n \in Nat /\ n > 0
      BY <1>1
    <2> HIDE DEF n, M
    <2>2. f \in [1 .. n -> Int \X M]
      BY <2>1
    <2> HIDE DEF f
    <2>3. f \in Seq(Int \X M) /\ f # << >>
      BY <2>1, <2>2, FunctionIsSeq
    <2>4. QED
      BY <2>3 DEF f, n
  <1>5. ASSUME NEW t \in Int
        PROVE  /\ [e \in M |-> <<t, e>>] \in Seq(Int \X M)
               /\ [e \in M |-> <<t, e>>] # << >>
    <2> DEFINE n == Len(L.gt)
               f == [e \in M |-> <<t, e>>]
    <2>1. f \in [1 .. n -> Int \X M] /\ n \in Nat /\ n > 0
      BY <1>2
    <2> HIDE DEF f, n, M
    <2>2. QED
      BY <2>1, FunctionIsSeq DEF f
  <1> HIDE DEF M, L
  <1>6. \/ \E t \in 1 .. L.nt, e \in M :
             r = [d |-> d, rows |-> << <<t, e>>, <<t, e>> >>, toff |-> FALSE]
        \/ \E e \in M : r = [d |-> d, rows |-> [i \in 1 .. L.nt + 2 |-> <<i - 1, e>>],
                             toff |-> FALSE]
        \/ \E t \in 0 .. L.nt - 1, toff \in BOOLEAN :
             r = [d |-> d, rows |-> [e \in M |-> <<t, e>>], toff |-> toff]
    BY DEF Requests, L, M
  <1>7. \E rows \in Rows(L), toff \in BOOLEAN :
          r = [d |-> d, rows |-> rows, toff |-> toff] /\ rows # << >>
    <2>1. \A t \in 1 .. L.nt : t \in Int
      OBVIOUS
    <2>2. \A t \in 0 .. L.nt - 1 : t \in Int
      OBVIOUS
    <2>3. Rows(L) = Seq(Int \X M)
      BY DEF Rows, M
    <2>4. QED
      BY <1>3, <1>4, <1>5, <1>6, <2>1, <2>2, <2>3
  <1>8. QED
    BY <1>7 DEF L


(* The row asked for next.                                                 *)
LEMMA NextRow ==
  ASSUME LayoutAssumption, SetsInv, ReqInv, pc \in {"row", "read"}
  PROVE  /\ req.d \in Slot /\ IsOpen(req.d) /\ File \in Sets /\ File.lay # 0
         /\ LayoutOK(Lay(File))
         /\ E \in Members(Lay(File)) /\ T \in Int
         /\ req.rows \in Rows(Lay(File)) /\ req.rows # << >> /\ req.toff \in BOOLEAN
  <1>1. /\ req.d \in Slot /\ IsOpen(req.d) /\ File \in Sets /\ File.lay # 0
        /\ req.rows \in Rows(Lay(File)) /\ req.rows # << >> /\ req.toff \in BOOLEAN
    BY DEF ReqInv, SetsInv, IsOpen, File
  <1>2. LayoutOK(Lay(File))
    BY <1>1, LayOf
  <1>3. Current \in Int \X Members(Lay(File))
    BY <1>1 DEF Rows, Current
  <1>4. E \in Members(Lay(File)) /\ Current[1] \in Int
    BY <1>3 DEF E
  <1>5. Lay(File).gt[E] \in Nat
    BY <1>2, <1>4, MemberTimes
  <1>6. T \in Int
    BY <1>4, <1>5 DEF T
  <1>7. QED
    BY <1>1, <1>2, <1>4, <1>6

LEMMA TailIs ==
  ASSUME NEW X, NEW s \in Seq(X), s # << >>
  PROVE  Tail(s) \in Seq(X) /\ (Len(s) # 1 => Tail(s) # << >>)
  <1> DEFINE n == Len(s)
             t == Tail(s)
  <1>1. t \in Seq(X) /\ Len(t) = n - 1
    BY HeadTailProperties
  <1>2. n \in Nat
    OBVIOUS
  <1> HIDE DEF n, t
  <1>3. t = << >> => n = 1
    <2>1. Len(<< >>) = 0
      OBVIOUS
    <2>2. QED
      BY <1>1, <1>2, <2>1
  <1>4. QED
    BY <1>1, <1>3 DEF n, t

LEMMA GoesOn ==
  ASSUME ReqInv, pc \in {"row", "read"}, req' = [req EXCEPT !.rows = Tail(@)],
         pc' = (IF Len(req.rows) = 1 THEN "done" ELSE "row"),
         ds'[req.d].lay = ds[req.d].lay
  PROVE  ReqInv'
  <1> DEFINE M == Int \X Members(Lay(File))
  <1>1. /\ req.d \in Slot /\ req.rows \in Seq(M) /\ req.rows # << >> /\ IsOpen(req.d)
        /\ req \in [d : Slot, rows : Seq(M), toff : BOOLEAN]
    BY DEF ReqInv, Rows
  <1> HIDE DEF M
  <1>2. Tail(req.rows) \in Seq(M) /\ (Len(req.rows) # 1 => Tail(req.rows) # << >>)
    BY <1>1, TailIs
  <1>3. /\ req'.d = req.d /\ req' \in [d : Slot, rows : Seq(M), toff : BOOLEAN]
        /\ (pc' = "row" => req'.rows # << >>)
    BY <1>1, <1>2
  <1>4. Lay(File)' = Lay(File) /\ (IsOpen(req.d))' /\ File' = ds'[req.d]
    BY <1>1, <1>3 DEF Lay, File, IsOpen
  <1>5. Rows(Lay(File))' = Seq(M)
    BY <1>4 DEF Rows, M, Members
  <1>6. pc' \in {"done", "row"}
    OBVIOUS
  <1>7. (IsOpen(req.d))' <=> ds'[req'.d].lay # 0
    BY DEF IsOpen
  <1>8. QED
    BY <1>3, <1>4, <1>5, <1>6, <1>7 DEF ReqInv

LEMMA GoesNoFurther ==
  ASSUME ReqInv, pc # "idle", req' = req, ds'[req.d].lay = ds[req.d].lay,
         pc' \in {"read", "done", "undefined"}, pc' = "read" => pc \in {"row", "read"}
  PROVE  ReqInv'
  <1>1. Lay(File)' = Lay(File) /\ (IsOpen(req.d))' = IsOpen(req.d)
    BY DEF Lay, File, IsOpen
  <1>2. Rows(Lay(File))' = Rows(Lay(File))
    BY <1>1 DEF Rows, Members
  <1>3. QED
    BY <1>1, <1>2 DEF ReqInv

LEMMA NoRequest ==
  ASSUME pc' = "idle"
  PROVE  ReqInv'
  BY DEF ReqInv

LEMMA ReqStays ==
  ASSUME ReqInv, UNCHANGED <<pc, req>>, pc # "idle" => ds'[req.d].lay = ds[req.d].lay
  PROVE  ReqInv'
  <1>1. CASE pc = "idle"
    BY <1>1, NoRequest
  <1>2. CASE pc # "idle"
    <2>1. Lay(File)' = Lay(File) /\ (IsOpen(req.d))' = IsOpen(req.d)
      BY <1>2 DEF Lay, File, IsOpen
    <2>2. Rows(Lay(File))' = Rows(Lay(File))
      BY <2>1 DEF Rows, Members
    <2>3. QED
      BY <1>2, <2>1, <2>2 DEF ReqInv
  <1>3. QED
    BY <1>1, <1>2

-----------------------------------------------------------------------------
(* Steps on data sets.                                                     *)

(* The data set d becomes f, of the same opening.                          *)
LEMMA SetChanges ==
  ASSUME LayoutAssumption, SetsInv, NEW d \in Slot, IsOpen(d), NEW f \in Sets,
         Kept(ds[d], f), ds' = [ds EXCEPT ![d] = f],
         handles' = handles + (Holds(f) - Holds(ds[d])), UNCHANGED <<opened, sources>>
  PROVE  /\ SetsInv' /\ ds'[d] = f
         /\ \A x \in Slot : Kept(ds[x], ds'[x])
  <1>1. ds \in [Slot -> Sets] /\ OneFileOpen
    BY DEF SetsInv
  <1>2. ds' \in [Slot -> Sets] /\ ds'[d] = f /\ \A x \in Slot : x # d => ds'[x] = ds[x]
    BY <1>1
  <1>3. \A x \in Slot : Kept(ds[x], ds'[x])
    BY <1>2 DEF Kept
  <1>4. OneFileOpen'
    BY <1>1, CountChanges
  <1>5. \A x \in Slot : (IsOpen(x))' = IsOpen(x) /\ ds'[x].fseq = ds[x].fseq
    BY <1>3 DEF Kept, IsOpen
  <1>6. \A x \in Slot : ~IsOpen(x) => ds'[x].infile = NoFile
    BY <1>2 DEF SetsInv, IsOpen
  <1>7. \A x \in Slot : (IsOpen(x))' <=> ds'[x].lay # 0
    BY DEF IsOpen
  <1>8. SetsInv'
    BY <1>2, <1>4, <1>5, <1>6, <1>7 DEF SetsInv, IsOpen
  <1>9. QED
    BY <1>2, <1>3, <1>8

LEMMA OpenSets ==
  ASSUME LayoutAssumption, SetsInv, NEW d \in Slot, NEW k \in DOMAIN Layout, OpenSet(d, k)
  PROVE  /\ SetsInv' /\ opened' = opened + 1 /\ ds'[d].fseq = opened'
         /\ ds'[d].lay # 0 /\ ds'[d] \in Sets
         /\ \A x \in Slot : x # d => ds'[x] = ds[x]
  <1> DEFINE L == Layout[k]
             f == [fseq |-> NextFseq, src |-> sources + 1, lay |-> k, fnumc |-> 0,
                   fnume |-> 0, infile |-> IF L.tmplat = 0 THEN Gafndt(L, 1, 1) ELSE NoFile]
  <1>1. /\ ~IsOpen(d) /\ opened' = NextFseq /\ sources' = sources + 1
        /\ ds' = [ds EXCEPT ![d] = f] /\ handles' = handles + Holds(f)
    BY DEF OpenSet
  <1>2. /\ ds \in [Slot -> Sets] /\ opened \in Nat /\ sources \in Nat /\ NextFseq = opened + 1
        /\ OneFileOpen /\ ds[d].infile = NoFile
    BY <1>1 DEF SetsInv, NextFseq
  <1>3. k \in 1 .. Len(Layout) /\ LayoutOK(L)
    BY LayoutFields DEF LayoutAssumption
  <1>4. f.infile \in Names
    <2>1. 1 \in Int /\ 1 \in Nat /\ NoFile \in Names
      BY DEF Names, NoFile
    <2> HIDE DEF L
    <2>2. Gafndt(L, 1, 1) \in Names
      BY <1>3, <2>1, NameIsFile
    <2>3. QED
      BY <2>1, <2>2
  <1>5. f \in Sets
    BY <1>2, <1>3, <1>4 DEF Sets
  <1>6. f.fseq = opened + 1 /\ f.lay = k /\ k # 0
    BY <1>2, <1>3
  <1> HIDE DEF f
  <1>7. ds' \in [Slot -> Sets] /\ ds'[d] = f /\ \A x \in Slot : x # d => ds'[x] = ds[x]
    BY <1>1, <1>2, <1>5
  <1>8. Holds(ds[d]) = 0 /\ Holds(f) \in {0, 1}
    BY <1>2 DEF Holds, NoStream
  <1>9. handles' = handles + (Holds(f) - Holds(ds[d]))
    BY <1>1, <1>8
  <1>10. OneFileOpen'
    BY <1>1, <1>2, <1>5, <1>9, CountChanges
  <1>11. \A x \in Slot : x # d => ds[x].fseq <= opened /\ ds[x].fseq \in Nat
    BY <1>2 DEF SetsInv, Sets
  <1>12. \A x \in Slot : ds'[x].fseq <= opened'
    BY <1>1, <1>2, <1>6, <1>7, <1>11
  <1>13. \A x, y \in Slot : ds'[x].lay # 0 /\ ds'[y].lay # 0 /\ ds'[x].fseq = ds'[y].fseq
                              => x = y
    <2>1. ds'[d].fseq = opened + 1
      BY <1>6, <1>7
    <2>2. \A x \in Slot : x # d => ds'[x].fseq # opened + 1
      BY <1>2, <1>7, <1>11
    <2>3. \A x, y \in Slot : ds[x].lay # 0 /\ ds[y].lay # 0 /\ ds[x].fseq = ds[y].fseq
                                => x = y
      BY DEF SetsInv, IsOpen
    <2>4. SUFFICES ASSUME NEW x \in Slot, NEW y \in Slot, ds'[x].lay # 0,
                          ds'[y].lay # 0, ds'[x].fseq = ds'[y].fseq
                   PROVE  x = y
      OBVIOUS
    <2>5. CASE x # d /\ y # d
      BY <1>7, <2>3, <2>4, <2>5
    <2>6. CASE x = d \/ y = d
      BY <2>1, <2>2, <2>4, <2>6
    <2>7. QED
      BY <2>5, <2>6
  <1>14. \A x \in Slot : ds'[x].lay = 0 => ds'[x].infile = NoFile
    BY <1>6, <1>7 DEF SetsInv, IsOpen
  <1>15. SetsInv'
    BY <1>1, <1>2, <1>7, <1>10, <1>12, <1>13, <1>14 DEF SetsInv, IsOpen
  <1>16. QED
    BY <1>1, <1>2, <1>5, <1>6, <1>7, <1>15

LEMMA CloseSets ==
  ASSUME LayoutAssumption, SetsInv, NEW d \in Slot, CloseSet(d)
  PROVE  /\ SetsInv' /\ opened' = opened /\ ds'[d].lay = 0
         /\ \A x \in Slot : x # d => ds'[x] = ds[x]
  <1>1. NoSet \in Sets /\ NoSet.lay = 0 /\ NoSet.infile = NoFile /\ Holds(NoSet) = 0
        /\ NoSet.fseq = 0
    BY DEF NoSet, Sets, Names, NoStream, NoFile, Holds, LayoutAssumption
  <1>2. /\ ds' = [ds EXCEPT ![d] = NoSet] /\ handles' = handles - Holds(ds[d])
        /\ UNCHANGED <<opened, sources>>
    BY DEF CloseSet, Freed
  <1>3. ds \in [Slot -> Sets] /\ OneFileOpen /\ opened \in Nat
    BY DEF SetsInv
  <1>4. handles \in Nat /\ Holds(ds[d]) \in {0, 1}
    BY <1>3, FS_Subset, FS_CardinalityType DEF OneFileOpen, LayoutAssumption, Holds
  <1>5. handles' = handles + (Holds(NoSet) - Holds(ds[d]))
    BY <1>1, <1>2, <1>4
  <1>6. OneFileOpen'
    BY <1>1, <1>2, <1>3, <1>5, CountChanges
  <1>7. ds' \in [Slot -> Sets] /\ ds'[d] = NoSet /\ \A x \in Slot : x # d => ds'[x] = ds[x]
    BY <1>1, <1>2, <1>3
  <1>8. /\ \A x \in Slot : ds'[x].fseq <= opened
        /\ \A x \in Slot : ds'[x].lay = 0 => ds'[x].infile = NoFile
        /\ \A x, y \in Slot : ds'[x].lay # 0 /\ ds'[y].lay # 0 /\ ds'[x].fseq = ds'[y].fseq
                                => x = y
    <2>1. /\ \A x \in Slot : ds[x].fseq <= opened
          /\ \A x \in Slot : ds[x].lay = 0 => ds[x].infile = NoFile
          /\ \A x, y \in Slot : ds[x].lay # 0 /\ ds[y].lay # 0 /\ ds[x].fseq = ds[y].fseq
                                  => x = y
      BY DEF SetsInv, IsOpen
    <2>2. ds'[d].lay = 0 /\ ds'[d].fseq <= opened /\ ds'[d].infile = NoFile
      BY <1>1, <1>3, <1>7
    <2>3. QED
      BY <1>7, <2>1, <2>2
  <1>9. SetsInv'
    BY <1>2, <1>6, <1>7, <1>8 DEF SetsInv, IsOpen
  <1>10. QED
    BY <1>1, <1>2, <1>7, <1>9


LEMMA FileAsked ==
  ASSUME LayoutAssumption, SetsInv, ReqInv, pc = "row", NEW o \in Gaopfn(File, T, E),
         ds' = [ds EXCEPT ![req.d] = o.file], handles' = handles + o.took,
         UNCHANGED <<opened, sources>>
  PROVE  /\ SetsInv' /\ ds'[req.d] = o.file /\ ds'[req.d].lay = ds[req.d].lay
         /\ \A x \in Slot : Kept(ds[x], ds'[x])
  <1>1. /\ req.d \in Slot /\ IsOpen(req.d) /\ File \in Sets /\ File.lay # 0
        /\ E \in Members(Lay(File)) /\ T \in Int
    BY NextRow
  <1>2. o.file \in Sets /\ Kept(File, o.file) /\ o.took = Holds(o.file) - Holds(File)
    BY <1>1, GaopfnKeeps
  <1>3. /\ SetsInv' /\ ds'[req.d] = o.file
        /\ \A x \in Slot : Kept(ds[x], ds'[x])
    BY <1>1, <1>2, SetChanges DEF File
  <1>4. QED
    BY <1>1, <1>3 DEF Kept

(* Steps that leave the data sets alone and go on with the request.        *)
LEMMA ReadingStays ==
  ASSUME ReqInv, UNCHANGED ds,
         ReadPlain \/ ReadGrib1 \/ ReadFails \/ ReadUndefined \/ ReadUnindexed
           \/ ReadCached \/ ReadGrib2 \/ ReadTooLarge \/ RowOutside \/ Finish
  PROVE  ReqInv'
  <1>1. CASE ReadPlain
    BY <1>1, GoesOn DEF ReadPlain, Reads, Filled
  <1>2. CASE ReadGrib1
    BY <1>2, GoesOn DEF ReadGrib1, Reads, Filled
  <1>3. CASE ReadFails
    BY <1>3, GoesNoFurther DEF ReadFails, Fails
  <1>4. CASE ReadUndefined
    BY <1>4, GoesNoFurther DEF ReadUndefined
  <1>5. CASE ReadUnindexed
    BY <1>5, GoesOn DEF ReadUnindexed, Reads, Filled
  <1>6. CASE ReadCached
    BY <1>6, GoesOn DEF ReadCached, Reads, Filled
  <1>7. CASE ReadGrib2
    BY <1>7, GoesOn DEF ReadGrib2, Reads, Filled
  <1>8. CASE ReadTooLarge
    BY <1>8, GoesNoFurther DEF ReadTooLarge, Reads, Fails
  <1>9. CASE RowOutside
    BY <1>9, GoesOn DEF RowOutside, GridRow, Filled
  <1>10. CASE Finish
    BY <1>10, NoRequest DEF Finish
  <1>11. QED
    BY <1>1, <1>2, <1>3, <1>4, <1>5, <1>6, <1>7, <1>8, <1>9, <1>10

LEMMA StationStays ==
  ASSUME ReqInv, UNCHANGED ds,
         StnCached \/ StnRead \/ StnReadFails \/ StnCachedFails \/ StnUndefined \/ StnFinish
  PROVE  ReqInv'
  <1>1. CASE StnCached
    BY <1>1, GoesOn DEF StnCached, StnRow, Chained
  <1>2. CASE StnRead
    BY <1>2, GoesOn DEF StnRead, Reads, Chained
  <1>3. CASE StnReadFails \/ StnCachedFails
    BY <1>3, NoRequest DEF StnReadFails, StnCachedFails, StnFails
  <1>4. CASE StnUndefined
    BY <1>4, GoesNoFurther DEF StnUndefined
  <1>5. CASE StnFinish
    BY <1>5, NoRequest DEF StnFinish
  <1>6. QED
    BY <1>1, <1>2, <1>3, <1>4, <1>5

(* A request begins.                                                       *)
LEMMA AskStays ==
  ASSUME LayoutAssumption, SetsInv, ReqInv, NEW d \in Slot, AskGrid(d) \/ AskStations(d)
  PROVE  ReqInv'
  <1>1. UNCHANGED ds /\ pc' = "row" /\ IsOpen(d)
    BY DEF AskGrid, AskStations, filevars
  <1>2. /\ req' \in [d : Slot, rows : Rows(Lay(ds[d])), toff : BOOLEAN]
        /\ req'.d = d /\ req'.rows # << >>
    <2>1. CASE AskGrid(d)
      BY <1>1, <2>1, RequestsAre DEF AskGrid
    <2>2. CASE AskStations(d)
      <3>1. PICK lo, hi \in 1 .. Lay(ds[d]).nt :
              /\ lo <= hi
              /\ req' = [d |-> d, rows |-> [i \in 1 .. 1 + hi - lo |-> <<lo + i - 1, 1>>],
                         toff |-> FALSE]
        BY <2>2 DEF AskStations
      <3>2. LayoutOK(Lay(ds[d])) /\ Lay(ds[d]).nt \in Nat
        BY <1>1, LayOf DEF SetsInv, IsOpen, LayoutOK
      <3>3. 1 \in Members(Lay(ds[d]))
        BY <3>2 DEF LayoutOK, Members
      <3> DEFINE M == Int \X Members(Lay(ds[d]))
                 n == 1 + hi - lo
                 f == [i \in 1 .. n |-> <<lo + i - 1, 1>>]
      <3>4. n \in Nat /\ n > 0 /\ lo \in Int
        BY <3>1, <3>2
      <3> HIDE DEF n
      <3>5. f \in [1 .. n -> M]
        BY <3>3, <3>4
      <3> HIDE DEF f, M
      <3>6. f \in Seq(M) /\ f # << >>
        BY <3>4, <3>5, FunctionIsSeq
      <3>7. req' = [d |-> d, rows |-> f, toff |-> FALSE]
        BY <3>1 DEF f, n
      <3>8. Rows(Lay(ds[d])) = Seq(M)
        BY DEF Rows, M
      <3>9. QED
        BY <3>6, <3>7, <3>8
    <2>3. QED
      BY <2>1, <2>2
  <1>3. Lay(File)' = Lay(ds[d]) /\ (IsOpen(req.d))' = IsOpen(d)
    BY <1>1, <1>2 DEF Lay, File, IsOpen
  <1>4. Rows(Lay(File))' = Rows(Lay(ds[d]))
    BY <1>3 DEF Rows, Members
  <1>5. QED
    BY <1>1, <1>2, <1>3, <1>4 DEF ReqInv

LEMMA ReadStays ==
  ASSUME LayoutAssumption, SetsInv, ReqInv, [Next]_vars
  PROVE  SetsInv' /\ ReqInv'
  <1>1. CASE \E d \in Slot : AskGrid(d) \/ AskStations(d)
    BY <1>1, SetsStay, AskStays DEF AskGrid, AskStations
  <1>2. CASE \E d \in Slot : Close(d)
    BY <1>2, CloseSets, ReqStays DEF Close, gridvars
  <1>3. CASE \E d \in Slot, k \in DOMAIN Layout : Open(d, k)
    BY <1>3, OpenSets, ReqStays DEF Open, gridvars
  <1>4. CASE \E d \in Slot : RemoveFile(d)
    <2>1. UNCHANGED <<ds, opened, sources, handles>>
      BY <1>4 DEF RemoveFile, Remove
    <2>2. SetsInv'
      BY <2>1 DEF SetsInv, OneFileOpen, IsOpen, Holds
    <2>3. QED
      BY <1>4, <2>1, <2>2, ReqStays DEF RemoveFile, gridvars
  <1>5. CASE RowFile
    <2>1. pc = "row"
      BY <1>5 DEF RowFile, GridRow
    <2>2. PICK o \in Gaopfn(File, T, E) :
            /\ ds' = [ds EXCEPT ![req.d] = o.file] /\ handles' = handles + o.took
            /\ \/ \E w : Filled(w, Missing, Missing)
               \/ pc' = "read" /\ UNCHANGED <<req, row>>
               \/ Fails
               \/ pc' = "undefined" /\ UNCHANGED <<req, row>>
      BY <1>5 DEF RowFile
    <2>3. SetsInv' /\ ds'[req.d].lay = ds[req.d].lay
      BY <1>5, <2>1, <2>2, FileAsked DEF RowFile
    <2>4. QED
      BY <2>1, <2>2, <2>3, GoesOn, GoesNoFurther DEF Filled, Fails
  <1>6. CASE StnFile
    <2>1. pc = "row"
      BY <1>6 DEF StnFile, StnRow
    <2>2. PICK o \in Gaopfn(File, T, E) :
            /\ ds' = [ds EXCEPT ![req.d] = o.file] /\ handles' = handles + o.took
            /\ \/ Chained(NoReports)
               \/ pc' = "read" /\ UNCHANGED req
               \/ StnFails
               \/ pc' = "undefined" /\ UNCHANGED req
      BY <1>6 DEF StnFile
    <2>3. SetsInv' /\ ds'[req.d].lay = ds[req.d].lay
      BY <1>6, <2>1, <2>2, FileAsked DEF StnFile
    <2>4. QED
      BY <2>1, <2>2, <2>3, GoesOn, GoesNoFurther, NoRequest DEF Chained, StnFails
  <1>7. CASE ReadPlain \/ ReadGrib1 \/ ReadFails \/ ReadUndefined \/ ReadUnindexed
               \/ ReadCached \/ ReadGrib2 \/ ReadTooLarge \/ RowOutside \/ Finish
    <2>1. UNCHANGED filevars
      BY <1>7 DEF ReadPlain, ReadGrib1, ReadFails, ReadUndefined, ReadUnindexed, ReadCached,
                  ReadGrib2, ReadTooLarge, RowOutside, Finish
    <2>2. QED
      BY <1>7, <2>1, SetsStay, ReadingStays DEF filevars
  <1>8. CASE StnCached \/ StnRead \/ StnReadFails \/ StnCachedFails \/ StnUndefined \/ StnFinish
    <2>1. UNCHANGED filevars
      BY <1>8 DEF StnCached, StnRead, StnReadFails, StnCachedFails, StnUndefined, StnFinish
    <2>2. QED
      BY <1>8, <2>1, SetsStay, StationStays DEF filevars
  <1>9. CASE Flush \/ UNCHANGED vars
    <2>1. UNCHANGED <<filevars, pc, req>>
      BY <1>9 DEF Flush, vars, gridvars
    <2>2. QED
      BY <2>1, SetsStay, ReqStays DEF filevars
  <1>10. QED
    BY <1>1, <1>2, <1>3, <1>4, <1>5, <1>6, <1>7, <1>8, <1>9 DEF Next, GridStep, StnStep

LEMMA ReadAlways == Spec => [](SetsInv /\ ReqInv)
  <1>1. Init => SetsInv /\ ReqInv
    BY LayoutAssumption, InitRead
  <1>2. SetsInv /\ ReqInv /\ [Next]_vars => SetsInv' /\ ReqInv'
    BY LayoutAssumption, ReadStays
  <1>3. QED
    BY <1>1, <1>2, PTL DEF Spec

(* An open data set has at most one of its files open, a closed one none,  *)
(* through switches, removed files, failed reads, names that run out of    *)
(* memory and closes (gaopfn, gafree): OneFileOpen.                        *)
THEOREM NoStreamLost == Spec => []OneFileOpen
  <1>1. SetsInv => OneFileOpen
    BY DEF SetsInv
  <1>2. QED
    BY <1>1, ReadAlways, PTL


-----------------------------------------------------------------------------
(* Where the data is.                                                      *)

NameTime(L, t) == IF L.tmplat \in {1, 3} THEN (t - 1) \div L.span ELSE 0
NameMember(L, e) == IF L.tmplat >= 2 THEN e ELSE 0

LEMMA NameOf ==
  ASSUME NEW L, NEW t, NEW e
  PROVE  Gafndt(L, t, e) = <<NameMember(L, e), NameTime(L, t)>>
  BY DEF Gafndt, NameMember, NameTime

LEMMA NamesGrow ==
  ASSUME NEW L, LayoutOK(L), NEW u \in Int, NEW w \in Int, u <= w
  PROVE  NameTime(L, u) \in Int /\ NameTime(L, u) <= NameTime(L, w)
  <1>1. L.span \in Nat /\ L.span # 0 /\ u - 1 <= w - 1 /\ u - 1 \in Int /\ w - 1 \in Int
    BY DEF LayoutOK
  <1>2. (u - 1) \div L.span \in Int /\ (u - 1) \div L.span <= (w - 1) \div L.span
    BY <1>1, QuotientGrows
  <1>3. QED
    BY <1>2 DEF NameTime

(* Names come back for no later time.                                      *)
LEMMA NamesBetween ==
  ASSUME NEW L, LayoutOK(L), NEW e, NEW u \in Int, NEW w \in Int, NEW t \in Int,
         u <= w, w <= t, Gafndt(L, u, e) = Gafndt(L, t, e)
  PROVE  Gafndt(L, w, e) = Gafndt(L, t, e)
  <1>1. /\ NameTime(L, u) \in Int /\ NameTime(L, w) \in Int /\ NameTime(L, t) \in Int
        /\ NameTime(L, u) <= NameTime(L, w) /\ NameTime(L, w) <= NameTime(L, t)
    BY NamesGrow
  <1>2. NameTime(L, u) = NameTime(L, t)
    BY NameOf
  <1>3. NameTime(L, w) = NameTime(L, t)
    BY <1>1, <1>2
  <1>4. QED
    BY <1>3, NameOf

(* The place of a time in its file counts from the file's first time.      *)
LEMMA PlaceCounts ==
  ASSUME NEW L, LayoutOK(L), NEW e \in Members(L), NEW t \in Times(L, e)
  PROVE  Cardinality({u \in Times(L, e) : u <= t /\ Gafndt(L, u, e) = Gafndt(L, t, e)})
           = 1 + t - Fnum(L, t, e)
  <1> DEFINE m == Fnum(L, t, e)
             S == {u \in Times(L, e) : u <= t /\ Gafndt(L, u, e) = Gafndt(L, t, e)}
  <1>1. /\ t \in Nat /\ L.gt[e] \in Nat /\ L.length[e] \in Nat /\ L.gt[e] <= t
        /\ \A u \in Times(L, e) : u \in Nat /\ L.gt[e] <= u
    BY MemberTimes
  <1>2. /\ m \in Nat /\ L.gt[e] <= m /\ m <= t
        /\ \A w \in m .. t : Gafndt(L, w, e) = Gafndt(L, t, e)
        /\ \A u \in L.gt[e] .. t :
             (\A w \in u .. t : Gafndt(L, w, e) = Gafndt(L, t, e)) => m <= u
    BY FnumIs
  <1> HIDE DEF m
  <1>3. ASSUME NEW u \in S PROVE u \in m .. t
    <2>1. u \in Nat /\ u <= t /\ L.gt[e] <= u /\ Gafndt(L, u, e) = Gafndt(L, t, e)
      BY <1>1
    <2>2. ASSUME NEW w \in u .. t PROVE Gafndt(L, w, e) = Gafndt(L, t, e)
      <3>1. w \in Int /\ u <= w /\ w <= t /\ u \in Int /\ t \in Int
        BY <1>1, <2>1, <2>2
      <3>2. QED
        BY <2>1, <3>1, NamesBetween
    <2>3. u \in L.gt[e] .. t
      BY <1>1, <2>1
    <2>4. m <= u
      BY <1>2, <2>2, <2>3
    <2>5. QED
      BY <1>1, <1>2, <2>1, <2>4
  <1>4. ASSUME NEW u \in m .. t PROVE u \in S
    <2>1. u \in Times(L, e)
      BY <1>1, <1>2 DEF Times
    <2>2. QED
      BY <1>2, <2>1
  <1>5. S = m .. t
    BY <1>3, <1>4
  <1>6. Cardinality(m .. t) = 1 + t - m
    <2>1. Cardinality(m .. t) = IF m > t THEN 0 ELSE t - m + 1
      BY <1>1, <1>2, FS_Interval
    <2>2. QED
      BY <1>1, <1>2, <2>1
  <1> HIDE DEF S
  <1>7. Cardinality(S) = 1 + t - m
    BY <1>5, <1>6
  <1>8. QED
    BY <1>7 DEF m, S

(* All times of a padded file share its name.                              *)
LEMMA PaddedPlace ==
  ASSUME NEW L, LayoutOK(L), Padded(L), NEW e, NEW t \in 1 .. L.nt
  PROVE  Cardinality({u \in 1 .. L.nt : u <= t /\ Gafndt(L, u, e) = Gafndt(L, t, e)}) = t
  <1> DEFINE S == {u \in 1 .. L.nt : u <= t /\ Gafndt(L, u, e) = Gafndt(L, t, e)}
  <1>1. L.nt \in Nat /\ t \in Nat /\ t >= 1 /\ t <= L.nt
    BY DEF LayoutOK
  <1>2. \A u \in Int : Gafndt(L, u, e) = Gafndt(L, t, e)
    BY NameOf DEF Padded, NameTime
  <1>3. S = 1 .. t
    BY <1>1, <1>2
  <1>4. Cardinality(1 .. t) = t
    <2>1. Cardinality(1 .. t) = IF 1 > t THEN 0 ELSE t - 1 + 1
      BY <1>1, FS_Interval
    <2>2. QED
      BY <1>1, <2>1
  <1> HIDE DEF S
  <1>5. QED
    BY <1>3, <1>4 DEF S

LEMMA PaddedBegins ==
  ASSUME NEW L, LayoutOK(L), Padded(L), NEW e \in Members(L), NEW t \in Times(L, e)
  PROVE  L.gt[e] \in Nat /\ L.gt[e] >= 1 /\ Fnum(L, t, e) = L.gt[e]
  <1>1. t \in Nat /\ L.gt[e] \in Nat /\ L.gt[e] <= t /\ L.length[e] \in Nat
    BY MemberTimes
  <1>2. L.gt[e] \in Times(L, e)
    BY <1>1 DEF Times
  <1>3. L.gt[e] >= 1
    BY <1>2, MemberTimes
  <1>4. \A u \in Int : Gafndt(L, u, e) = Gafndt(L, t, e)
    BY NameOf DEF Padded, NameTime
  <1>5. L.gt[e] \in L.gt[e] .. t
    BY <1>1
  <1>6. Fnum(L, t, e) \in Nat /\ L.gt[e] <= Fnum(L, t, e) /\ Fnum(L, t, e) <= L.gt[e]
    BY <1>4, <1>5, FnumIs
  <1>7. QED
    BY <1>1, <1>3, <1>6

PlaceAt(f, t, e) ==
  [src |-> f.src, name |-> Gafndt(Lay(f), t, e),
   tt |-> IF Padded(Lay(f)) THEN t ELSE 1 + t - Fnum(Lay(f), t, e),
   ee |-> IF Lay(f).tmplat < 2 THEN e ELSE 1]
Data == [src : Nat, name : Names, tt : Int, ee : Nat]

LEMMA PlaceIs ==
  ASSUME LayoutAssumption, NEW f \in Sets, f.lay # 0, NEW e \in Members(Lay(f)),
         NEW t \in Times(Lay(f), e)
  PROVE  /\ Place(f, t, e) = PlaceAt(f, t, e) /\ Place(f, t, e) \in Data
         /\ Truth(f, t, e) = Place(f, t, e) /\ Place(f, t, e).tt >= 1
  <1>1. LayoutOK(Lay(f)) /\ e \in Nat /\ t \in Nat
    BY LayOf, MemberTimes
  <1>2. Place(f, t, e) = PlaceAt(f, t, e)
    <2>1. CASE ~Padded(Lay(f))
      BY <1>1, <2>1, PlaceCounts DEF Place, PlaceAt
    <2>2. CASE Padded(Lay(f))
      <3>1. t \in 1 .. Lay(f).nt
        BY <1>1 DEF LayoutOK
      <3>2. QED
        BY <1>1, <2>2, <3>1, PaddedPlace DEF Place, PlaceAt
    <2>3. QED
      BY <2>1, <2>2
  <1>3. Fnum(Lay(f), t, e) \in Nat /\ Fnum(Lay(f), t, e) <= t
    BY <1>1, FnumIs
  <1>4. Gafndt(Lay(f), t, e) \in Names /\ f.src \in Nat
    <2>1. f.src \in Nat
      BY DEF Sets
    <2>2. t \in Int
      BY <1>1
    <2>3. Gafndt(Lay(f), t, e) \in Names
      BY <1>1, <2>2, NameIsFile
    <2>4. QED
      BY <2>1, <2>3
  <1>5. PlaceAt(f, t, e) \in Data /\ PlaceAt(f, t, e).tt >= 1
    <2>1. t >= 1
      BY <1>1, MemberTimes
    <2>2. QED
      BY <1>1, <1>3, <1>4, <2>1 DEF PlaceAt, Data
  <1>6. QED
    BY <1>2, <1>5 DEF Truth

(* A data set's truth is that of its opening.                              *)
LEMMA TruthKept ==
  ASSUME NEW f, NEW g, Kept(f, g), NEW t, NEW e
  PROVE  Lay(g) = Lay(f) /\ Truth(g, t, e) = Truth(f, t, e)
  BY DEF Kept, Truth, Place, Padded, Lay

-----------------------------------------------------------------------------
(* The current file.                                                       *)

(* What the file numbers of a data set say of the file it has open.        *)
Fits(f) ==
  /\ Lay(f).tmplat = 0 => f.infile = Gafndt(Lay(f), 1, 1)
  /\ Lay(f).tmplat # 0 =>
       \/ f.fnumc = 0 /\ f.fnume = 0
       \/ f.infile = Dangling
       \/ \E e \in Members(Lay(f)) : \E t \in Times(Lay(f), e) :
            f.fnumc = Fnum(Lay(f), t, e) /\ f.fnume = e /\ f.infile = Gafndt(Lay(f), t, e)

(* The file of a time is open, or what is left of one.                     *)
Here(f, t, e) ==
  \/ f.infile = Dangling
  \/ /\ t \in Times(Lay(f), e) /\ f.infile = Gafndt(Lay(f), t, e)
     /\ Lay(f).tmplat # 0 => f.fnumc = Fnum(Lay(f), t, e)

(* A file number that stays and a member that stays are the same file.     *)
LEMMA SameFile ==
  ASSUME NEW f, NEW L, L = Lay(f), LayoutOK(L), L.tmplat # 0,
         NEW e \in Members(L), NEW t \in Times(L, e),
         NEW e0 \in Members(L), NEW t0 \in Times(L, e0),
         f.fnumc = Fnum(L, t0, e0), f.fnume = e0, f.infile = Gafndt(L, t0, e0),
         ~Needs(f, Fnum(L, t, e), e)
  PROVE  f.infile = Gafndt(L, t, e) /\ f.fnumc = Fnum(L, t, e)
  <1> DEFINE m == Fnum(L, t, e)
             m0 == Fnum(L, t0, e0)
  <1>1. /\ L.tmplat \in {1, 2, 3}
        /\ L.tmplat = 3 => m = m0 /\ e = e0
        /\ L.tmplat = 2 => e = e0
        /\ L.tmplat = 1 => m = m0
    BY DEF Needs, LayoutOK
  <1>2. /\ t \in Nat /\ t0 \in Nat /\ L.gt[e] \in Nat /\ L.gt[e0] \in Nat
        /\ L.gt[e] <= t /\ L.gt[e0] <= t0
    BY MemberTimes
  <1>3. /\ m \in Nat /\ L.gt[e] <= m /\ m <= t
        /\ Gafndt(L, m, e) = Gafndt(L, t, e)
        /\ \A u \in L.gt[e] .. t :
             (\A w \in u .. t : Gafndt(L, w, e) = Gafndt(L, t, e)) => m <= u
    BY <1>2, FnumIs
  <1>4. /\ m0 \in Nat /\ L.gt[e0] <= m0 /\ m0 <= t0
        /\ Gafndt(L, m0, e0) = Gafndt(L, t0, e0)
        /\ \A u \in L.gt[e0] .. t0 :
             (\A w \in u .. t0 : Gafndt(L, w, e0) = Gafndt(L, t0, e0)) => m0 <= u
    BY <1>2, FnumIs
  <1> HIDE DEF m, m0
  <1>5. CASE L.tmplat = 3
    BY <1>1, <1>3, <1>4, <1>5 DEF m, m0
  <1>6. CASE L.tmplat = 2
    <2>1. \A x \in Int : Gafndt(L, x, e) = <<e, 0>>
      BY <1>6, NameOf DEF NameMember, NameTime
    <2>2. m <= L.gt[e]
      BY <1>2, <1>3, <2>1
    <2>3. m0 <= L.gt[e]
      BY <1>1, <1>2, <1>4, <1>6, <2>1
    <2>4. m = m0
      BY <1>1, <1>2, <1>3, <1>4, <1>6, <2>2, <2>3
    <2>5. QED
      BY <1>1, <1>2, <1>6, <2>1, <2>4 DEF m, m0
  <1>7. CASE L.tmplat = 1
    <2>1. Gafndt(L, m, e0) = Gafndt(L, m, e)
      BY <1>7, NameOf DEF NameMember
    <2>2. Gafndt(L, t0, e0) = Gafndt(L, t, e)
      BY <1>1, <1>3, <1>4, <1>7, <2>1
    <2>3. QED
      BY <1>1, <1>7, <2>2 DEF m, m0
  <1>8. QED
    BY <1>1, <1>5, <1>6, <1>7


(* gaopfn keeps the numbers true to the file, and what it lets the caller  *)
(* read is in the file it leaves open; it reports nothing to read only     *)
(* where there is nothing, or the file is gone.                            *)
LEMMA GaopfnRight ==
  ASSUME LayoutAssumption, NEW f \in Sets, f.lay # 0, Fits(f),
         NEW e \in Members(Lay(f)), NEW t \in Int, NEW o \in Gaopfn(f, t, e)
  PROVE  /\ Fits(o.file)
         /\ o.rc = "read" /\ t \in 1 .. Lay(f).nt => Here(o.file, t, e)
         /\ o.rc = "read" /\ ~o.oflg => o.file = f
         /\ o.rc = "missing" => /\ ~o.oflg
                                /\ o.file.infile = f.infile \/ o.file.infile = Unopened
                                /\ Truth(f, t, e) = Missing \/ Gone(f, t, e)
  <1> DEFINE L == Lay(f)
             i == Fnum(L, t, e)
             n == Gafndt(L, t, e)
             new == [f EXCEPT !.fnumc = i, !.fnume = e, !.infile = n]
             bad == Nameless(f)
  <1>1. LayoutOK(L) /\ e \in Nat /\ e # 0
    BY LayOf, MemberTimes
  <1>2. i # -1 => t \in Times(L, e)
    BY DEF Fnum
  <1>3. t \in Times(L, e) => i \in Nat /\ i # 0 /\ i # -1
    BY <1>1, FnumIs, MemberTimes
  <1>4. L.tmplat \in {0, 1, 2, 3}
    BY <1>1 DEF LayoutOK
  <1>5. CASE L.tmplat = 0
    <2>1. o = [rc |-> "read", file |-> f, oflg |-> FALSE, took |-> 0]
      BY <1>5 DEF Gaopfn
    <2>2. t \in 1 .. L.nt => t \in Times(L, e)
      BY <1>1, <1>5 DEF LayoutOK
    <2>3. Gafndt(L, t, e) = Gafndt(L, 1, 1)
      BY <1>5, NameOf DEF NameMember, NameTime
    <2>4. QED
      BY <1>5, <2>1, <2>2, <2>3 DEF Fits, Here
  <1>6. CASE L.tmplat # 0 /\ i = -1
    <2>1. o = [rc |-> "missing", file |-> Forgotten(f), oflg |-> FALSE, took |-> 0]
      BY <1>6 DEF Gaopfn
    <2>2. t \notin Times(L, e)
      BY <1>3, <1>6
    <2>3. /\ Forgotten(f).lay = f.lay /\ Forgotten(f).fnumc = 0 /\ Forgotten(f).fnume = 0
          /\ Forgotten(f).infile = f.infile
      BY DEF Forgotten, Sets
    <2>4. Fits(Forgotten(f))
      BY <1>6, <2>3 DEF Fits, Lay
    <2>5. Truth(f, t, e) = Missing
      BY <2>2 DEF Truth
    <2>6. QED
      BY <2>1, <2>3, <2>4, <2>5
  <1>7. CASE L.tmplat # 0 /\ i # -1 /\ ~Needs(f, i, e)
    <2>1. o = [rc |-> "read", file |-> f, oflg |-> FALSE, took |-> 0]
      BY <1>7 DEF Gaopfn
    <2>2. t \in Times(L, e) /\ i # 0
      BY <1>2, <1>3, <1>7
    <2>3. ~(f.fnumc = 0 /\ f.fnume = 0)
      BY <1>1, <1>4, <1>7, <2>2 DEF Needs
    <2>4. CASE f.infile = Dangling
      BY <2>1, <2>4 DEF Here
    <2>5. CASE f.infile # Dangling
      <3>1. PICK e0 \in Members(L) : \E t0 \in Times(L, e0) :
              f.fnumc = Fnum(L, t0, e0) /\ f.fnume = e0 /\ f.infile = Gafndt(L, t0, e0)
        BY <1>7, <2>3, <2>5 DEF Fits
      <3>2. PICK t0 \in Times(L, e0) :
              f.fnumc = Fnum(L, t0, e0) /\ f.fnume = e0 /\ f.infile = Gafndt(L, t0, e0)
        BY <3>1
      <3>3. f.infile = Gafndt(L, t, e) /\ f.fnumc = Fnum(L, t, e)
        BY <1>1, <1>7, <2>2, <3>2, SameFile
      <3>4. QED
        BY <2>1, <2>2, <3>3 DEF Here
    <2>6. QED
      BY <2>1, <2>4, <2>5
  <1>8. CASE L.tmplat # 0 /\ i # -1 /\ Needs(f, i, e)
    <2>1. \/ o.rc = "undefined" /\ o.file = f
          \/ /\ Gone(f, t, e) /\ o.rc = "missing" /\ o.file = FileGone(f, i, e) /\ ~o.oflg
          \/ o.rc = "read" /\ o.file = new /\ o.oflg
          \/ o.rc = "error" /\ o.file = bad
      <3>1. o \in IF f.infile = Dangling
                  THEN {[rc |-> "undefined", file |-> f, oflg |-> FALSE, took |-> 0]}
                  ELSE {IF Gone(f, t, e)
                        THEN [rc |-> "missing", file |-> FileGone(f, i, e), oflg |-> FALSE,
                              took |-> -Shut(f)]
                        ELSE [rc |-> "read", file |-> new, oflg |-> TRUE,
                              took |-> 1 - Shut(f)]}
                       \cup {[rc |-> "error", file |-> bad, oflg |-> FALSE,
                              took |-> -Shut(f)] : x \in {y \in {1} : NamesFail}}
        BY <1>8 DEF Gaopfn
      <3> HIDE DEF i, new, bad, L
      <3>2. QED
        BY <3>1
    <2>2. CASE o.rc = "undefined" /\ o.file = f
      BY <2>2
    <2>3. CASE Gone(f, t, e) /\ o.rc = "missing" /\ o.file = FileGone(f, i, e) /\ ~o.oflg
      <3> DEFINE g == FileGone(f, i, e)
      <3>1. g.lay = f.lay /\ g.fnumc = 0 /\ g.fnume = 0 /\ g.infile = Unopened
        BY DEF FileGone, Forgotten, Sets
      <3>2. Fits(g)
        BY <1>8, <3>1 DEF Fits, Lay
      <3>3. QED
        BY <2>3, <3>1, <3>2
    <2>4. CASE o.rc = "read" /\ o.file = new /\ o.oflg
      <3>1. new.lay = f.lay /\ new.fnumc = i /\ new.fnume = e /\ new.infile = n
        BY DEF Sets
      <3>2. Lay(new) = L /\ t \in Times(L, e)
        BY <1>2, <1>8, <3>1 DEF Lay
      <3> HIDE DEF new
      <3>3. Fits(new)
        BY <1>8, <3>1, <3>2 DEF Fits
      <3>4. Here(new, t, e)
        BY <3>1, <3>2 DEF Here
      <3>5. QED
        BY <2>4, <3>3, <3>4
    <2>5. CASE o.rc = "error" /\ o.file = bad
      <3>1. bad = f \/ (bad.lay = f.lay /\ bad.infile = Dangling)
        BY DEF Nameless, Sets
      <3> HIDE DEF bad
      <3>2. Fits(bad)
        BY <1>8, <3>1 DEF Fits, Lay
      <3>3. QED
        BY <2>5, <3>2
    <2>6. QED
      BY <2>1, <2>2, <2>3, <2>4, <2>5
  <1>9. QED
    BY <1>5, <1>6, <1>7, <1>8

(* What is read from the current file is what the descriptor says.         *)
LEMMA ReadsRight ==
  ASSUME LayoutAssumption, NEW f \in Sets, f.lay # 0, NEW e \in Members(Lay(f)),
         NEW t, Here(f, t, e), f.infile # Dangling
  PROVE  /\ t \in Times(Lay(f), e) /\ Truth(f, t, e) = Place(f, t, e)
         /\ Place(f, t, e) \in Data /\ Place(f, t, e).tt >= 1
         /\ f.infile \notin NoStream /\ Place(f, t, e).name = f.infile
         /\ Place(f, t, e).src = f.src /\ Late(f, e) \in Nat /\ Missing # Place(f, t, e)
         /\ Relative(f, t, e) = [Place(f, t, e) EXCEPT !.tt = @ - Late(f, e)]
         /\ Indexed(f, t, e) = Place(f, t, e)
  <1> DEFINE L == Lay(f)
  <1>1. /\ t \in Times(L, e) /\ f.infile = Gafndt(L, t, e)
        /\ L.tmplat # 0 => f.fnumc = Fnum(L, t, e)
    BY DEF Here
  <1>2. LayoutOK(L) /\ e \in Nat /\ t \in Nat /\ t \in Int
    BY <1>1, LayOf, MemberTimes
  <1>3. /\ Place(f, t, e) = PlaceAt(f, t, e) /\ Place(f, t, e) \in Data
        /\ Truth(f, t, e) = Place(f, t, e) /\ Place(f, t, e).tt >= 1
    BY <1>1, PlaceIs
  <1>4. f.infile \notin NoStream
    BY <1>1, <1>2, NameIsFile
  <1>5. L.tmplat = 0 => 1 + t - Fnum(L, t, e) = t
    <2>1. SUFFICES ASSUME L.tmplat = 0 PROVE 1 + t - Fnum(L, t, e) = t
      OBVIOUS
    <2>2. Times(L, e) = 1 .. L.nt
      BY <1>2, <2>1 DEF LayoutOK
    <2>3. /\ L.gt[e] \in Nat /\ L.gt[e] <= t /\ Fnum(L, t, e) \in Nat /\ Fnum(L, t, e) >= 1
          /\ L.nt \in Nat /\ 1 \in Times(L, e)
      <3>1. /\ L.gt[e] \in Nat /\ L.gt[e] <= t /\ t <= L.nt /\ t >= 1
        BY <1>1, <1>2, MemberTimes
      <3>2. Fnum(L, t, e) \in Nat /\ Fnum(L, t, e) \in Times(L, e)
        BY <1>1, <1>2, FnumIs
      <3>3. L.nt \in Nat
        BY <1>2 DEF LayoutOK
      <3>4. QED
        BY <1>2, <2>2, <3>1, <3>2, <3>3
    <2>4. L.gt[e] <= 1
      BY <1>2, <2>3, MemberTimes
    <2>5. \A w \in 1 .. t : Gafndt(L, w, e) = Gafndt(L, t, e)
      BY <2>1, NameOf DEF NameTime
    <2>6. 1 \in L.gt[e] .. t
      BY <1>2, <2>2, <2>3, <2>4, <1>1
    <2>7. Fnum(L, t, e) <= 1
      BY <1>1, <1>2, <2>5, <2>6, FnumIs
    <2>8. QED
      BY <1>2, <2>3, <2>7
  <1>6. /\ Relative(f, t, e) = [PlaceAt(f, t, e) EXCEPT !.tt = @ - Late(f, e)]
        /\ Late(f, e) \in Nat
    <2>1. Relative(f, t, e) = [PlaceAt(f, t, e) EXCEPT !.tt = 1 + t - Fnum(L, t, e)]
      BY <1>1, <1>5 DEF Relative, PlaceAt, Padded
    <2>2. CASE ~Padded(L)
      <3>1. Late(f, e) = 0 /\ PlaceAt(f, t, e).tt = 1 + t - Fnum(L, t, e)
            /\ Fnum(L, t, e) \in Nat
        BY <1>1, <1>2, <2>2, FnumIs DEF Late, PlaceAt
      <3>2. PlaceAt(f, t, e).tt - Late(f, e) = 1 + t - Fnum(L, t, e)
        BY <1>2, <3>1
      <3>3. QED
        BY <2>1, <3>1, <3>2
    <2>3. CASE Padded(L)
      <3>1. Late(f, e) = L.gt[e] - 1 /\ PlaceAt(f, t, e).tt = t
        BY <2>3 DEF Late, PlaceAt
      <3>2. L.gt[e] \in Nat /\ L.gt[e] >= 1 /\ Fnum(L, t, e) = L.gt[e]
        BY <1>1, <1>2, <2>3, PaddedBegins
      <3>3. PlaceAt(f, t, e).tt - Late(f, e) = 1 + t - Fnum(L, t, e) /\ Late(f, e) \in Nat
        BY <1>2, <3>1, <3>2
      <3>4. QED
        BY <2>1, <3>3
    <2>4. QED
      BY <2>2, <2>3
  <1>7. Place(f, t, e).name = f.infile /\ Place(f, t, e).src = f.src
    BY <1>1, <1>3 DEF PlaceAt
  <1>8. Indexed(f, t, e) = Place(f, t, e)
    BY <1>3, <1>7 DEF Indexed, Data
  <1>9. Missing # Place(f, t, e)
    BY <1>3 DEF Missing
  <1>10. QED
    BY <1>1, <1>3, <1>4, <1>6, <1>7, <1>8, <1>9


-----------------------------------------------------------------------------
(* The invariant behind the rows.                                          *)

FitsInv == \A d \in Slot : IsOpen(d) => Fits(ds[d])

HereInv == pc = "read" /\ Lay(File).kind # "station" => Here(File, T, E)

(* The bit map kept is that of its place in the current file.              *)
MapInv ==
  pc \in {"row", "read"} /\ Lay(File).kind = "grib1" =>
    \/ bpsav = NoMap
    \/ File.infile \in NoStream
    \/ bitmap = [src |-> File.src, name |-> File.infile, tt |-> bpsav[1], ee |-> bpsav[2]]

(* The blocks are of data sets opened so far, and true to those still open.*)
Blocks == [fseq : Nat, t : Int, e : Nat, size : Nat, data : Data]
BlockTrue(b) ==
  /\ b.fseq <= opened
  /\ \A d \in Slot : IsOpen(d) /\ ds[d].fseq = b.fseq => b.data = Truth(ds[d], b.t, b.e)
TrueBlocks == {b \in Blocks : BlockTrue(b)}
BlocksInv == cache \in Seq(TrueBlocks)

LEMMA SameRow ==
  ASSUME req' = req, Lay(File)' = Lay(File)
  PROVE  T' = T /\ E' = E
  BY DEF T, E, Current

(* What a step does to the data sets, as far as blocks are concerned.      *)
LEMMA SetsGoOn ==
  ASSUME LayoutAssumption, SetsInv, ReqInv, [Next]_vars
  PROVE  /\ opened \in Nat /\ opened' \in Nat /\ opened <= opened'
         /\ \A x \in Slot : \/ Kept(ds[x], ds'[x])
                            \/ ds'[x].lay = 0
                            \/ ds'[x].fseq > opened
  <1>1. opened \in Nat
    BY DEF SetsInv
  <1>2. CASE UNCHANGED <<ds, opened>>
    BY <1>1, <1>2 DEF Kept
  <1>3. CASE \E d \in Slot : Close(d)
    <2>1. PICK d \in Slot : CloseSet(d)
      BY <1>3 DEF Close
    <2>2. /\ opened' = opened /\ ds'[d].lay = 0 /\ \A x \in Slot : x # d => ds'[x] = ds[x]
      BY <2>1, CloseSets
    <2>3. QED
      BY <1>1, <2>2 DEF Kept
  <1>4. CASE \E d \in Slot, k \in DOMAIN Layout : Open(d, k)
    <2>1. PICK d \in Slot, k \in DOMAIN Layout : OpenSet(d, k)
      BY <1>4 DEF Open
    <2>2. /\ opened' = opened + 1 /\ ds'[d].fseq = opened'
          /\ \A x \in Slot : x # d => ds'[x] = ds[x]
      BY <2>1, OpenSets
    <2>3. ds'[d].fseq > opened
      BY <1>1, <2>2
    <2>4. QED
      BY <1>1, <2>2, <2>3 DEF Kept
  <1>5. CASE RowFile \/ StnFile
    <2>1. /\ pc = "row" /\ UNCHANGED <<opened, sources>>
          /\ \E o \in Gaopfn(File, T, E) : ds' = [ds EXCEPT ![req.d] = o.file]
                                           /\ handles' = handles + o.took
      BY <1>5 DEF RowFile, StnFile, GridRow, StnRow
    <2>2. \A x \in Slot : Kept(ds[x], ds'[x])
      BY <2>1, FileAsked
    <2>3. QED
      BY <1>1, <2>1, <2>2
  <1>6. CASE ReadPlain \/ ReadGrib1 \/ ReadFails \/ ReadUndefined \/ ReadUnindexed
               \/ ReadCached \/ ReadGrib2 \/ ReadTooLarge \/ RowOutside \/ Finish
    BY <1>2, <1>6 DEF ReadPlain, ReadGrib1, ReadFails, ReadUndefined, ReadUnindexed, ReadCached,
                      ReadGrib2, ReadTooLarge, RowOutside, Finish, filevars
  <1>7. CASE StnCached \/ StnRead \/ StnReadFails \/ StnCachedFails \/ StnUndefined \/ StnFinish
    BY <1>2, <1>7 DEF StnCached, StnRead, StnReadFails, StnCachedFails, StnUndefined, StnFinish, filevars
  <1>8. CASE Flush \/ UNCHANGED vars \/ \E d \in Slot : AskGrid(d) \/ AskStations(d)
                                                        \/ RemoveFile(d)
    BY <1>2, <1>8 DEF Flush, vars, AskGrid, AskStations, RemoveFile, Remove, filevars
  <1>9. QED
    BY <1>3, <1>4, <1>5, <1>6, <1>7, <1>8 DEF Next, GridStep, StnStep

(* A true block stays true: its data set goes on or is closed, and what is *)
(* opened has a number of its own.                                         *)
LEMMA BlockStays ==
  ASSUME LayoutAssumption, SetsInv, ReqInv, [Next]_vars, NEW b \in Blocks, BlockTrue(b)
  PROVE  BlockTrue(b)'
  <1>1. b.fseq \in Nat
    BY DEF Blocks
  <1>2. /\ opened \in Nat /\ opened' \in Nat /\ opened <= opened'
        /\ \A x \in Slot : \/ Kept(ds[x], ds'[x])
                           \/ ds'[x].lay = 0
                           \/ ds'[x].fseq > opened
    BY SetsGoOn
  <1>3. b.fseq <= opened'
    BY <1>1, <1>2 DEF BlockTrue
  <1>4. ASSUME NEW d \in Slot, ds'[d].lay # 0, ds'[d].fseq = b.fseq
        PROVE  b.data = Truth(ds'[d], b.t, b.e)
    <2>1. ~(ds'[d].fseq > opened)
      BY <1>1, <1>2, <1>4 DEF BlockTrue
    <2>2. Kept(ds[d], ds'[d])
      BY <1>2, <1>4, <2>1
    <2>3. IsOpen(d) /\ ds[d].fseq = b.fseq
      BY <1>4, <2>2 DEF Kept, IsOpen
    <2>4. QED
      BY <2>2, <2>3, TruthKept DEF BlockTrue
  <1>5. \A d \in Slot : Truth(ds[d], b.t, b.e)' = Truth(ds'[d], b.t, b.e)
    BY DEF Truth, Place, Padded, Lay
  <1>6. QED
    BY <1>3, <1>4, <1>5 DEF BlockTrue, IsOpen


LEMMA FitsStays ==
  ASSUME LayoutAssumption, SetsInv, ReqInv, FitsInv, [Next]_vars
  PROVE  FitsInv'
  <1>1. FitsInv' <=> \A d \in Slot : ds'[d].lay # 0 => Fits(ds'[d])
    BY DEF FitsInv, IsOpen, Fits, Lay
  <1>2. CASE UNCHANGED ds
    BY <1>1, <1>2 DEF FitsInv, IsOpen
  <1>3. CASE \E d \in Slot : Close(d)
    <2>1. PICK d \in Slot : CloseSet(d)
      BY <1>3 DEF Close
    <2>2. /\ ds'[d].lay = 0 /\ \A x \in Slot : x # d => ds'[x] = ds[x]
      BY <2>1, CloseSets
    <2>3. QED
      BY <1>1, <2>2 DEF FitsInv, IsOpen
  <1>4. CASE \E d \in Slot, k \in DOMAIN Layout : Open(d, k)
    <2>1. PICK d \in Slot, k \in DOMAIN Layout : OpenSet(d, k)
      BY <1>4 DEF Open
    <2>2. \A x \in Slot : x # d => ds'[x] = ds[x]
      BY <2>1, OpenSets
    <2>3. /\ ds'[d].lay = k /\ ds'[d].fnumc = 0 /\ ds'[d].fnume = 0
          /\ Layout[k].tmplat = 0 => ds'[d].infile = Gafndt(Layout[k], 1, 1)
      BY <2>1 DEF OpenSet, SetsInv
    <2>4. Fits(ds'[d])
      BY <2>3 DEF Fits, Lay
    <2>5. QED
      BY <1>1, <2>2, <2>4 DEF FitsInv, IsOpen
  <1>5. CASE RowFile \/ StnFile
    <2>1. pc = "row" /\ UNCHANGED <<opened, sources>>
      BY <1>5 DEF RowFile, StnFile, GridRow, StnRow
    <2>2. PICK o \in Gaopfn(File, T, E) : ds' = [ds EXCEPT ![req.d] = o.file]
      BY <1>5 DEF RowFile, StnFile
    <2>3. /\ req.d \in Slot /\ File \in Sets /\ File.lay # 0 /\ Fits(File)
          /\ E \in Members(Lay(File)) /\ T \in Int
      BY <2>1, NextRow DEF FitsInv, File
    <2>4. Fits(o.file)
      BY <2>2, <2>3, GaopfnRight
    <2>5. ds'[req.d] = o.file /\ \A x \in Slot : x # req.d => ds'[x] = ds[x]
      BY <2>2, <2>3 DEF SetsInv
    <2>6. QED
      BY <1>1, <2>4, <2>5 DEF FitsInv, IsOpen
  <1>6. CASE ReadPlain \/ ReadGrib1 \/ ReadFails \/ ReadUndefined \/ ReadUnindexed
               \/ ReadCached \/ ReadGrib2 \/ ReadTooLarge \/ RowOutside \/ Finish
    BY <1>2, <1>6 DEF ReadPlain, ReadGrib1, ReadFails, ReadUndefined, ReadUnindexed, ReadCached,
                      ReadGrib2, ReadTooLarge, RowOutside, Finish, filevars
  <1>7. CASE StnCached \/ StnRead \/ StnReadFails \/ StnCachedFails \/ StnUndefined \/ StnFinish
    BY <1>2, <1>7 DEF StnCached, StnRead, StnReadFails, StnCachedFails, StnUndefined, StnFinish, filevars
  <1>8. CASE Flush \/ UNCHANGED vars \/ \E d \in Slot : AskGrid(d) \/ AskStations(d)
                                                        \/ RemoveFile(d)
    BY <1>2, <1>8 DEF Flush, vars, AskGrid, AskStations, RemoveFile, Remove, filevars
  <1>9. QED
    BY <1>3, <1>4, <1>5, <1>6, <1>7, <1>8 DEF Next, GridStep, StnStep

(* Only gaopfn lets a grid be read, and then its file is there.            *)
LEMMA HereStays ==
  ASSUME LayoutAssumption, SetsInv, ReqInv, FitsInv, HereInv, [Next]_vars
  PROVE  HereInv'
  <1>1. CASE pc' # "read"
    BY <1>1 DEF HereInv
  <1>2. CASE UNCHANGED <<ds, req, pc>>
    BY <1>2 DEF HereInv, Here, File, Lay, T, E, Current
  <1>3. CASE RowFile
    <2>1. PICK o \in Gaopfn(File, T, E) :
            /\ ds' = [ds EXCEPT ![req.d] = o.file] /\ handles' = handles + o.took
            /\ (o.rc = "read" /\ UNCHANGED req) \/ pc' # "read"
      BY <1>3 DEF RowFile, Filled, Fails
    <2>2. pc = "row" /\ T \in 1 .. Lay(File).nt /\ UNCHANGED <<opened, sources>>
      BY <1>3 DEF RowFile, GridRow
    <2>3. CASE o.rc = "read" /\ UNCHANGED req
      <3>1. /\ File \in Sets /\ File.lay # 0 /\ Fits(File)
            /\ E \in Members(Lay(File)) /\ T \in Int
        BY <2>2, NextRow DEF FitsInv, File
      <3>2. Here(o.file, T, E)
        BY <2>2, <2>3, <3>1, GaopfnRight
      <3>3. ds'[req.d] = o.file /\ ds'[req.d].lay = ds[req.d].lay
        BY <2>1, <2>2, FileAsked
      <3>4. File' = o.file /\ Lay(File)' = Lay(File)
        BY <2>3, <3>3 DEF File, Lay
      <3>5. T' = T /\ E' = E
        BY <2>3, <3>4, SameRow
      <3>6. Here(File, T, E)' <=> Here(o.file, T, E)
        BY <3>4, <3>5 DEF Here, Lay
      <3>7. QED
        BY <3>2, <3>6 DEF HereInv
    <2>4. QED
      BY <1>1, <2>1, <2>3
  <1>4. CASE StnFile
    <2>1. CASE UNCHANGED req /\ pc' = "read"
      <3>1. pc = "row" /\ Lay(File).kind = "station" /\ UNCHANGED <<opened, sources>>
        BY <1>4 DEF StnFile, StnRow
      <3>2. ds'[req.d].lay = ds[req.d].lay
        BY <1>4, <3>1, FileAsked DEF StnFile
      <3>3. Lay(File)' = Lay(File)
        BY <2>1, <3>2 DEF File, Lay
      <3>4. QED
        BY <3>1, <3>3 DEF HereInv
    <2>2. QED
      BY <1>1, <1>4, <2>1 DEF StnFile, Chained, StnFails
  <1>5. CASE \/ ReadPlain \/ ReadGrib1 \/ ReadFails \/ ReadUndefined \/ ReadUnindexed
             \/ ReadCached \/ ReadGrib2 \/ ReadTooLarge \/ RowOutside \/ Finish
    BY <1>1, <1>5 DEF ReadPlain, ReadGrib1, ReadFails, ReadUndefined, ReadUnindexed, ReadCached,
                      ReadGrib2, ReadTooLarge, RowOutside, Finish, Filled, Fails
  <1>6. CASE StnCached \/ StnRead \/ StnReadFails \/ StnCachedFails \/ StnUndefined \/ StnFinish
    BY <1>1, <1>6 DEF StnCached, StnRead, StnReadFails, StnCachedFails, StnUndefined, StnFinish, Chained,
                      StnFails
  <1>7. CASE \E d \in Slot : Close(d) \/ AskGrid(d) \/ AskStations(d)
    BY <1>1, <1>7 DEF Close, AskGrid, AskStations, gridvars
  <1>8. CASE \E d \in Slot, k \in DOMAIN Layout : Open(d, k)
    BY <1>1, <1>8 DEF Open, gridvars
  <1>9. CASE Flush \/ UNCHANGED vars \/ \E d \in Slot : RemoveFile(d)
    BY <1>2, <1>9 DEF Flush, vars, RemoveFile, Remove, filevars, gridvars
  <1>10. QED
    BY <1>3, <1>4, <1>5, <1>6, <1>7, <1>8, <1>9 DEF Next, GridStep, StnStep

(* The bit map that goes with a row is the one of its place.               *)
LEMMA MapMatches ==
  ASSUME LayoutAssumption, SetsInv, ReqInv, HereInv, MapInv, ReadGrib1
  PROVE  /\ Filled(Truth(File, T, E), Truth(File, T, E), Truth(File, T, E))
         /\ bitmap' = [src |-> File.src, name |-> File.infile,
                       tt |-> bpsav'[1], ee |-> bpsav'[2]]
  <1>1. pc = "read" /\ File.infile # Dangling /\ Lay(File).kind = "grib1"
    BY DEF ReadGrib1, Reads
  <1>2. /\ File \in Sets /\ File.lay # 0 /\ E \in Members(Lay(File)) /\ Here(File, T, E)
    BY <1>1, NextRow DEF HereInv
  <1> DEFINE got == Indexed(File, T, E)
  <1>3. /\ InIndex /\ got = Truth(File, T, E) /\ got \in Data /\ got.tt >= 1
        /\ got.name = File.infile /\ got.src = File.src /\ File.infile \notin NoStream
    BY <1>1, <1>2, ReadsRight DEF InIndex
  <1>4. /\ bpsav' = <<got.tt, got.ee>>
        /\ bitmap' = IF <<got.tt, got.ee>> = bpsav THEN bitmap ELSE got
        /\ Filled(Truth(File, T, E), got, bitmap')
    BY <1>3 DEF ReadGrib1
  <1>5. got = [src |-> File.src, name |-> File.infile, tt |-> got.tt, ee |-> got.ee]
    BY <1>3 DEF Data
  <1> HIDE DEF got
  <1>6. <<got.tt, got.ee>> # NoMap
    BY <1>3 DEF NoMap, Data
  <1>7. bitmap' = got
    <2>1. CASE <<got.tt, got.ee>> = bpsav
      <3>1. bpsav # NoMap /\ bpsav[1] = got.tt /\ bpsav[2] = got.ee
        BY <1>6, <2>1
      <3>2. QED
        BY <1>1, <1>3, <1>4, <1>5, <2>1, <3>1 DEF MapInv
    <2>2. QED
      BY <1>4, <2>1
  <1>8. bpsav'[1] = got.tt /\ bpsav'[2] = got.ee
    BY <1>4
  <1>9. QED
    BY <1>3, <1>4, <1>5, <1>7, <1>8

LEMMA BitMapStays ==
  ASSUME LayoutAssumption, SetsInv, ReqInv, FitsInv, HereInv, MapInv, [Next]_vars
  PROVE  MapInv'
  <1>1. CASE pc' \notin {"row", "read"}
    BY <1>1 DEF MapInv
  <1>2. CASE /\ pc \in {"row", "read"} /\ UNCHANGED <<ds, bpsav, bitmap>> /\ req'.d = req.d
    BY <1>2 DEF MapInv, File, Lay
  <1>3. ASSUME pc \in {"row", "read"}, req'.d = req.d, ds'[req.d].lay = ds[req.d].lay,
               Lay(File).kind # "grib1"
        PROVE  MapInv'
    BY <1>3 DEF MapInv, File, Lay
  <1>4. pc \in {"row", "read"} => req.d \in Slot /\ (\A r : [req EXCEPT !.rows = r].d = req.d)
    BY DEF ReqInv
  <1>5. CASE RowFile \/ StnFile
    <2>1. PICK o \in Gaopfn(File, T, E) :
            /\ ds' = [ds EXCEPT ![req.d] = o.file] /\ handles' = handles + o.took
            /\ RowFile => /\ bpsav' = MapFor(o)
                          /\ o.rc \in {"missing", "read"} \/ pc' \notin {"row", "read"}
      BY <1>5 DEF RowFile, StnFile, Fails
    <2>2. pc = "row" /\ UNCHANGED <<opened, sources, bitmap>>
          /\ (req' = req \/ req' = [req EXCEPT !.rows = Tail(@)] \/ pc' = "idle")
      BY <1>5 DEF RowFile, StnFile, GridRow, StnRow, Filled, Fails, Chained, StnFails
    <2>3. /\ File \in Sets /\ File.lay # 0 /\ Fits(File) /\ req.d \in Slot
          /\ E \in Members(Lay(File)) /\ T \in Int
      BY <2>2, NextRow DEF FitsInv, File
    <2>4. ds'[req.d] = o.file /\ ds'[req.d].lay = ds[req.d].lay
          /\ ds'[req.d].src = ds[req.d].src
      BY <2>1, <2>2, <2>3, FileAsked DEF Kept
    <2>5. CASE StnFile \/ pc' \notin {"row", "read"}
      BY <1>1, <1>3, <1>4, <2>2, <2>4, <2>5, ZenonT(30) DEF StnFile, StnRow
    <2>6. CASE RowFile /\ pc' \in {"row", "read"}
      <3>1. o.rc \in {"missing", "read"} /\ T \in 1 .. Lay(File).nt
        BY <2>1, <2>6 DEF RowFile
      <3>2. /\ o.rc = "read" /\ ~o.oflg => o.file = File
            /\ o.rc = "missing" => ~o.oflg /\ (o.file.infile = File.infile
                                               \/ o.file.infile \in NoStream)
        BY <2>3, GaopfnRight DEF NoStream
      <3>3. req'.d = req.d
        BY <1>4, <2>2, <2>6
      <3>4. File' = o.file /\ Lay(File)' = Lay(File) /\ File'.src = File.src
        BY <2>4, <3>3 DEF File, Lay
      <3>5. bpsav' = (IF o.oflg THEN NoMap ELSE bpsav) /\ bitmap' = bitmap
        BY <2>1, <2>2, <2>6 DEF MapFor
      <3>6. CASE o.oflg
        BY <3>5, <3>6 DEF MapInv
      <3>7. CASE ~o.oflg
        BY <2>2, <3>1, <3>2, <3>4, <3>5, <3>7 DEF MapInv
      <3>8. QED
        BY <3>6, <3>7
    <2>7. QED
      BY <1>5, <2>5, <2>6
  <1>6. CASE ReadGrib1
    <2>1. UNCHANGED filevars /\ req'.d = req.d
      BY <1>4, <1>6 DEF ReadGrib1, Reads, Filled
    <2>2. File' = File
      BY <2>1 DEF File, filevars
    <2>3. bitmap' = [src |-> File.src, name |-> File.infile, tt |-> bpsav'[1], ee |-> bpsav'[2]]
      BY <1>6, MapMatches
    <2>4. QED
      BY <2>2, <2>3 DEF MapInv
  <1>7. CASE ReadPlain \/ ReadUnindexed \/ ReadCached \/ ReadGrib2 \/ RowOutside
    BY <1>2, <1>4, <1>7 DEF ReadPlain, ReadUnindexed, ReadCached, ReadGrib2, RowOutside, Reads,
                            GridRow, Filled, filevars
  <1>8. CASE ReadFails \/ ReadUndefined \/ ReadTooLarge \/ Finish \/ Flush
    BY <1>1, <1>8 DEF ReadFails, ReadUndefined, ReadTooLarge, Finish, Flush, Fails
  <1>9. CASE StnCached \/ StnRead
    BY <1>2, <1>4, <1>9 DEF StnCached, StnRead, StnRow, Reads, Chained, filevars
  <1>10. CASE StnReadFails \/ StnCachedFails \/ StnUndefined \/ StnFinish
    BY <1>1, <1>10 DEF StnReadFails, StnCachedFails, StnUndefined, StnFinish, StnFails
  <1>11. CASE \E d \in Slot : AskGrid(d)
    BY <1>11 DEF AskGrid, NewMap, MapInv
  <1>12. CASE \E d \in Slot : AskStations(d)
    <2>1. PICK d \in Slot : AskStations(d)
      BY <1>12
    <2>2. req'.d = d /\ UNCHANGED ds /\ Lay(ds[d]).kind = "station"
      BY <2>1 DEF AskStations, filevars
    <2>3. Lay(File)'.kind = "station"
      BY <2>2 DEF Lay, File
    <2>4. QED
      BY <2>3 DEF MapInv
  <1>13. CASE \E d \in Slot : Close(d)
    BY <1>1, <1>13 DEF Close, gridvars
  <1>14. CASE \E d \in Slot, k \in DOMAIN Layout : Open(d, k)
    BY <1>1, <1>14 DEF Open, gridvars
  <1>15. CASE UNCHANGED vars \/ \E d \in Slot : RemoveFile(d)
    BY <1>1, <1>2, <1>15 DEF vars, RemoveFile, Remove, filevars, gridvars
  <1>16. QED
    BY <1>5, <1>6, <1>7, <1>8, <1>9, <1>10, <1>11, <1>12, <1>13, <1>14, <1>15
       DEF Next, GridStep, StnStep

LEMMA TrueBlocksStay ==
  ASSUME LayoutAssumption, SetsInv, ReqInv, [Next]_vars
  PROVE  \A b \in TrueBlocks : b \in TrueBlocks'
  <1>1. TAKE b \in TrueBlocks
  <1>2. b \in Blocks /\ BlockTrue(b)
    BY DEF TrueBlocks
  <1>3. BlockTrue(b)'
    BY <1>2, BlockStays
  <1>4. QED
    BY <1>2, <1>3 DEF TrueBlocks, Blocks, Data, Names

(* The oldest blocks leave and one comes.                                  *)
LEMMA BlockComes ==
  ASSUME NEW B, NEW s \in Seq(B), NEW k \in 0 .. Len(s), NEW b \in B
  PROVE  Append(SubSeq(s, k + 1, Len(s)), b) \in Seq(B)
  <1>1. k + 1 \in Int /\ Len(s) \in Int /\ \A i \in k + 1 .. Len(s) : s[i] \in B
    OBVIOUS
  <1>2. SubSeq(s, k + 1, Len(s)) \in Seq(B)
    BY <1>1, SubSeqProperties
  <1>3. QED
    BY <1>2, AppendProperties

LEMMA BlocksStay ==
  ASSUME LayoutAssumption, SetsInv, ReqInv, HereInv, BlocksInv, [Next]_vars
  PROVE  BlocksInv'
  <1>1. \A b \in TrueBlocks : b \in TrueBlocks'
    BY TrueBlocksStay
  <1> DEFINE B == TrueBlocks'
  <1>2. cache \in Seq(TrueBlocks)
    BY DEF BlocksInv
  <1>3. BlocksInv' <=> cache' \in Seq(B)
    BY DEF BlocksInv
  <1>4. cache \in Seq(B)
    <2>1. \A b \in TrueBlocks : b \in B
      BY <1>1
    <2> HIDE DEF B
    <2>2. QED
      BY <1>2, <2>1
  <1>5. CASE UNCHANGED cache
    BY <1>3, <1>4, <1>5
  <1>6. CASE Flush
    <2>1. cache' = << >>
      BY <1>6 DEF Flush
    <2> HIDE DEF B
    <2>2. QED
      BY <1>3, <2>1
  <1>7. CASE ReadGrib2
    <2> DEFINE got == Indexed(File, T, E)
               size == Lay(File).size
               k == Min(ForRoom(size))
               b == Block(File, T, E, got)
    <2>1. /\ pc = "read" /\ File.infile # Dangling /\ Lay(File).kind = "grib2"
          /\ UNCHANGED filevars /\ ForRoom(size) # {}
          /\ cache' = Append(SubSeq(cache, k + 1, Len(cache)), b)
      BY <1>7 DEF ReadGrib2, Reads
    <2>2. /\ File \in Sets /\ File.lay # 0 /\ E \in Members(Lay(File)) /\ Here(File, T, E)
          /\ req.d \in Slot /\ IsOpen(req.d) /\ LayoutOK(Lay(File)) /\ T \in Int
      BY <2>1, NextRow DEF HereInv
    <2>3. got = Truth(File, T, E) /\ got \in Data
      BY <2>1, <2>2, ReadsRight
    <2>4. k \in 0 .. Len(cache)
      <3>1. ForRoom(size) \subseteq 0 .. Len(cache) /\ Len(cache) \in Nat
        BY <1>2 DEF ForRoom
      <3>2. ForRoom(size) \in SUBSET Nat
        BY <3>1
      <3>3. k \in ForRoom(size)
        BY <2>1, <3>2, LeastIs
      <3>4. QED
        BY <3>1, <3>3
    <2>5. /\ b.fseq = File.fseq /\ b.t = T /\ b.e = E /\ b.data = got /\ b \in Blocks
      <3>1. E \in Nat /\ size \in Nat /\ File.fseq \in Nat
        BY <2>2, MemberTimes DEF LayoutOK, Sets
      <3> HIDE DEF got, size
      <3>2. b = [fseq |-> File.fseq, t |-> T, e |-> E, size |-> size, data |-> got]
        BY DEF Block, size
      <3>3. QED
        BY <2>2, <2>3, <3>1, <3>2 DEF Blocks
    <2>6. BlockTrue(b)
      <3> HIDE DEF b, got
      <3>1. File.fseq <= opened
        BY <2>2 DEF SetsInv, File
      <3>2. \A d \in Slot : IsOpen(d) /\ ds[d].fseq = File.fseq => ds[d] = File
        BY <2>2 DEF SetsInv, File
      <3>3. QED
        BY <2>3, <2>5, <3>1, <3>2 DEF BlockTrue
    <2>7. b \in B
      BY <1>1, <2>5, <2>6 DEF TrueBlocks
    <2> HIDE DEF b, k, B
    <2>8. QED
      BY <1>3, <1>4, <2>1, <2>4, <2>7, BlockComes
  <1>8. CASE UNCHANGED vars \/ \E d \in Slot : \/ AskGrid(d) \/ AskStations(d)
                                               \/ Close(d) \/ RemoveFile(d)
    BY <1>5, <1>8 DEF vars, AskGrid, AskStations, Close, RemoveFile, gridvars
  <1>9. CASE \E d \in Slot, k \in DOMAIN Layout : Open(d, k)
    BY <1>5, <1>9 DEF Open, gridvars
  <1>10. CASE RowFile \/ StnFile
    BY <1>5, <1>10 DEF RowFile, StnFile
  <1>11. CASE ReadPlain \/ ReadGrib1 \/ ReadFails \/ ReadUndefined \/ ReadUnindexed
               \/ ReadCached \/ ReadTooLarge \/ RowOutside \/ Finish
    BY <1>5, <1>11 DEF ReadPlain, ReadGrib1, ReadFails, ReadUndefined, ReadUnindexed, ReadCached,
                       ReadTooLarge, RowOutside, Finish
  <1>12. CASE StnCached \/ StnRead \/ StnReadFails \/ StnCachedFails \/ StnUndefined \/ StnFinish
    BY <1>5, <1>12 DEF StnCached, StnRead, StnReadFails, StnCachedFails, StnUndefined, StnFinish
  <1>13. QED
    BY <1>6, <1>7, <1>8, <1>9, <1>10, <1>11, <1>12 DEF Next, GridStep, StnStep

LEMMA FilledRight ==
  Filled(Truth(File, T, E), Truth(File, T, E), Truth(File, T, E)) => RowsAreRightUnlessLate'
  BY DEF Filled, RowsAreRight, RowsAreRightUnlessLate

LEMMA RowStays ==
  ASSUME LayoutAssumption, SetsInv, ReqInv, FitsInv, HereInv, MapInv, BlocksInv,
         RowsAreRightUnlessLate, [Next]_vars
  PROVE  RowsAreRightUnlessLate'
  <1>1. CASE row' = row \/ row' = NoRow
    BY <1>1 DEF RowsAreRight, RowsAreRightUnlessLate, NoRow
  <1>2. pc = "read" /\ Lay(File).kind # "station" =>
          /\ File \in Sets /\ File.lay # 0 /\ E \in Members(Lay(File)) /\ Here(File, T, E)
          /\ req.d \in Slot /\ IsOpen(req.d)
    BY NextRow DEF HereInv
  <1>3. CASE RowOutside
    BY <1>3 DEF RowOutside, Filled, RowsAreRight, RowsAreRightUnlessLate
  <1>4. CASE RowFile
    <2>1. PICK o \in Gaopfn(File, T, E) :
            \/ o.rc = "missing" /\ Filled(Truth(File, T, E), Missing, Missing)
            \/ row' = row
      BY <1>4 DEF RowFile, Fails
    <2>2. CASE o.rc = "missing" /\ Filled(Truth(File, T, E), Missing, Missing)
      <3>1. pc = "row"
        BY <1>4 DEF RowFile, GridRow
      <3>2. /\ File \in Sets /\ File.lay # 0 /\ Fits(File)
            /\ E \in Members(Lay(File)) /\ T \in Int
        BY <3>1, NextRow DEF FitsInv, File
      <3>3. Truth(File, T, E) = Missing \/ Gone(File, T, E)
        BY <2>2, <3>2, GaopfnRight
      <3>4. QED
        BY <2>2, <3>3 DEF Filled, RowsAreRight, RowsAreRightUnlessLate
    <2>3. QED
      BY <1>1, <2>1, <2>2
  <1>5. CASE ReadPlain
    <2>1. /\ pc = "read" /\ File.infile # Dangling /\ Lay(File).kind = "plain"
          /\ Filled(Truth(File, T, E), Relative(File, T, E), Relative(File, T, E))
      BY <1>5 DEF ReadPlain, Reads
    <2>2. /\ Late(File, E) \in Nat /\ Truth(File, T, E) # Missing /\ Truth(File, T, E) \in Data
          /\ Relative(File, T, E) = [Truth(File, T, E) EXCEPT !.tt = @ - Late(File, E)]
      <3>1. /\ File \in Sets /\ File.lay # 0 /\ E \in Members(Lay(File)) /\ Here(File, T, E)
            /\ File.infile # Dangling
        BY <1>2, <2>1
      <3>2. /\ Truth(File, T, E) = Place(File, T, E) /\ Place(File, T, E) \in Data
            /\ Late(File, E) \in Nat /\ Missing # Place(File, T, E)
            /\ Relative(File, T, E) = [Place(File, T, E) EXCEPT !.tt = @ - Late(File, E)]
        BY <3>1, ReadsRight
      <3>3. QED
        BY ONLY <3>2
    <2>3. row' = [want |-> Truth(File, T, E), got |-> Relative(File, T, E),
                  bits |-> Relative(File, T, E), away |-> Gone(File, T, E),
                  late |-> Late(File, E)]
      BY <2>1 DEF Filled
    <2>4. CASE Late(File, E) = 0
      <3>1. Relative(File, T, E) = Truth(File, T, E)
        BY <2>2, <2>4 DEF Data
      <3>2. QED
        BY <2>3, <3>1 DEF RowsAreRight, RowsAreRightUnlessLate
    <2>5. CASE Late(File, E) > 0
      BY <2>2, <2>3, <2>5 DEF RowsAreRightUnlessLate
    <2>6. QED
      BY <2>2, <2>4, <2>5
  <1>6. CASE ReadGrib1
    BY <1>6, MapMatches, FilledRight
  <1>7. CASE ReadUnindexed
    <2>1. /\ pc = "read" /\ File.infile # Dangling /\ Lay(File).kind = "grib2" /\ ~InIndex
      BY <1>7 DEF ReadUnindexed, Reads
    <2>2. InIndex
      BY <1>2, <2>1, ReadsRight DEF InIndex
    <2>3. QED
      BY <2>1, <2>2
  <1>8. CASE ReadCached
    <2> DEFINE found == G2check(File, T, E)
               i == CHOOSE x \in found : \A y \in found : y <= x
               got == cache[i].data
    <2>1. /\ pc = "read" /\ File.infile # Dangling /\ Lay(File).kind = "grib2" /\ found # {}
          /\ Filled(Truth(File, T, E), got, got)
      BY <1>8 DEF ReadCached, Reads
    <2>2. cache \in Seq(TrueBlocks)
      BY DEF BlocksInv
    <2>3. found \in SUBSET (1 .. Len(cache)) /\ Len(cache) \in Nat
      BY <2>2 DEF G2check
    <2>4. i \in found
      <3> HIDE DEF found
      <3>1. \E x \in found : \A y \in found : y <= x
        BY <2>1, <2>3, GreatestIs
      <3>2. QED
        BY <3>1
    <2> HIDE DEF i
    <2>5. /\ cache[i] \in TrueBlocks /\ cache[i].fseq = File.fseq
          /\ cache[i].t = T /\ cache[i].e = E
      BY <2>2, <2>4 DEF G2check
    <2>6. got = Truth(File, T, E)
      BY <1>2, <2>1, <2>5 DEF TrueBlocks, BlockTrue, File
    <2> HIDE DEF got
    <2>7. Filled(Truth(File, T, E), Truth(File, T, E), Truth(File, T, E))
      BY <2>1, <2>6, Zenon
    <2>8. QED
      BY <2>7, FilledRight
  <1>9. CASE ReadGrib2
    <2>1. /\ pc = "read" /\ File.infile # Dangling /\ Lay(File).kind = "grib2"
          /\ Filled(Truth(File, T, E), Indexed(File, T, E), Indexed(File, T, E))
      BY <1>9 DEF ReadGrib2, Reads
    <2>2. Indexed(File, T, E) = Truth(File, T, E)
      BY <1>2, <2>1, ReadsRight
    <2>3. Filled(Truth(File, T, E), Truth(File, T, E), Truth(File, T, E))
      BY <2>1, <2>2, Zenon
    <2>4. QED
      BY <2>3, FilledRight
  <1>10. CASE ReadFails \/ ReadUndefined \/ ReadTooLarge \/ Finish \/ Flush
    BY <1>1, <1>10 DEF ReadFails, ReadUndefined, ReadTooLarge, Finish, Flush, Fails
  <1>11. CASE StnCached \/ StnFile \/ StnRead \/ StnReadFails \/ StnCachedFails \/ StnUndefined \/ StnFinish
    BY <1>1, <1>11 DEF StnCached, StnFile, StnRead, StnReadFails, StnCachedFails, StnUndefined, StnFinish
  <1>12. CASE UNCHANGED vars \/ \E d \in Slot : \/ AskGrid(d) \/ AskStations(d)
                                                \/ Close(d) \/ RemoveFile(d)
    BY <1>1, <1>12 DEF vars, AskGrid, AskStations, Close, RemoveFile, gridvars
  <1>13. CASE \E d \in Slot, k \in DOMAIN Layout : Open(d, k)
    BY <1>1, <1>13 DEF Open, gridvars
  <1>14. QED
    BY <1>3, <1>4, <1>5, <1>6, <1>7, <1>8, <1>9, <1>10, <1>11, <1>12, <1>13
       DEF Next, GridStep, StnStep

RowsInv == FitsInv /\ HereInv /\ MapInv /\ BlocksInv /\ RowsAreRightUnlessLate

LEMMA InitRows ==
  ASSUME LayoutAssumption, Init
  PROVE  RowsInv
  <1>1. /\ ds = [d \in Slot |-> NoSet] /\ pc = "idle" /\ row = NoRow /\ cache = << >>
    BY DEF Init, FileInit, GridInit
  <1>2. \A d \in Slot : ~IsOpen(d)
    BY <1>1 DEF IsOpen, NoSet
  <1>3. FitsInv /\ HereInv /\ MapInv
    BY <1>1, <1>2 DEF FitsInv, HereInv, MapInv
  <1>4. BlocksInv
    BY <1>1 DEF BlocksInv
  <1>5. RowsAreRightUnlessLate
    BY <1>1 DEF RowsAreRight, RowsAreRightUnlessLate, NoRow
  <1>6. QED
    BY <1>3, <1>4, <1>5 DEF RowsInv

(* A row of a grid is the data the descriptor file puts at its time and    *)
(* member, with the bit map read from the same place, whatever file was    *)
(* the current one, and through the bit map and the blocks kept; missing   *)
(* values stand for data only where there is none or the file was removed  *)
(* (gaggrd, garrow, gairow, g2check); a member of padded files that begins *)
(* late is read exactly so much too early: RowsAreRightUnlessLate.                        *)
THEOREM RowsAlwaysRight == Spec => []RowsAreRightUnlessLate
  <1>1. Init => RowsInv
    BY LayoutAssumption, InitRows
  <1>2. SetsInv /\ ReqInv /\ RowsInv /\ [Next]_vars => RowsInv'
    BY LayoutAssumption, FitsStays, HereStays, BitMapStays, BlocksStay, RowStays DEF RowsInv
  <1>3. RowsInv => RowsAreRightUnlessLate
    BY DEF RowsInv
  <1>4. QED
    BY <1>1, <1>2, <1>3, ReadAlways, PTL DEF Spec


-----------------------------------------------------------------------------
(* Reports of stations.                                                    *)

Asking == pc \in {"row", "read", "done"} /\ Lay(File).kind = "station"

Stations == [d : Slot \cup {0}, area : Area \cup {0}, tmin : Nat, tmax : Nat]
StnReports == [data : Data, area : Area \cup {0}]

(* What a request for an area may get of a time, g being removed; and that *)
(* the first n reports of a buffer are what the request s may get.         *)
Right(g, r, f, t, area) ==
  \/ r = Reports(Truth(f, t, 1), IF Truth(f, t, 1) = Missing THEN 0 ELSE area)
  \/ <<f.src, Gafndt(Lay(f), t, 1)>> \in g /\ r = NoReports
BufRight(g, b, s, f, n) ==
  n <= Len(b) /\ \A k \in 1 .. n : Right(g, b[k], f, s.tmin + k - 1, s.area)

(* The rows left are the last times of the request.                        *)
Asked == 1 + stn.tmax - stn.tmin - Len(req.rows)
AskRows ==
  Asking =>
    /\ stn \in Stations /\ stn.d = req.d
    /\ 1 <= stn.tmin /\ stn.tmin <= stn.tmax /\ stn.tmax <= Lay(File).nt
    /\ req.toff = FALSE
    /\ Len(req.rows) <= 1 + stn.tmax - stn.tmin
    /\ \A i \in 1 .. Len(req.rows) : req.rows[i] = <<stn.tmax - Len(req.rows) + i, 1>>
    /\ pc = "done" => req.rows = << >>

(* A request reads the buffer or fills it, in step with its rows.          *)
AskBuf ==
  Asking =>
    /\ scpnt \in Nat /\ scuca \in BOOLEAN /\ scok \in BOOLEAN /\ ~(scuca /\ scok)
    /\ scuca => scflg /\ scstn = stn /\ scseq = File.fseq /\ pc # "read"
    /\ scuca \/ scok => scpnt = Asked
    /\ scok => BufRight(gone, scbuf, stn, File, scpnt)

AskHere == Asking /\ pc = "read" => Here(File, T, E)

(* The buffer is what its description says, unless a request writes to it. *)
Whole == scflg /\ ~torn /\ pc # "undefined" /\ (Asking => scuca \/ scpnt = 0)
BufInv ==
  /\ scbuf \in Seq(StnReports) /\ scstn \in Stations /\ scseq \in Nat /\ scseq <= opened
  /\ Whole /\ scstn.d \in Slot /\ IsOpen(scstn.d) /\ ds[scstn.d].fseq = scseq =>
       BufRight(gone, scbuf, scstn, ds[scstn.d], 1 + scstn.tmax - scstn.tmin)

LEMMA RightGrows ==
  ASSUME NEW g, NEW h, g \subseteq h, NEW f, NEW f2, Kept(f, f2),
         NEW b, NEW s, NEW n, BufRight(g, b, s, f, n)
  PROVE  BufRight(h, b, s, f2, n)
  <1>1. ASSUME NEW r, NEW t, NEW a, Right(g, r, f, t, a)
        PROVE  Right(h, r, f2, t, a)
    <2>1. Truth(f2, t, 1) = Truth(f, t, 1) /\ Lay(f2) = Lay(f) /\ f2.src = f.src
      BY TruthKept DEF Kept
    <2>2. QED
      BY <1>1, <2>1 DEF Right
  <1>2. QED
    BY <1>1 DEF BufRight

LEMMA WrittenRight ==
  ASSUME NEW g, NEW R, NEW b \in Seq(R), NEW r \in R, NEW s, s.tmin \in Nat, NEW f,
         NEW n \in Nat, BufRight(g, b, s, f, n), Right(g, r, f, s.tmin + n, s.area), NEW c,
         c = IF n < Len(b) THEN [b EXCEPT ![n + 1] = r] ELSE Append(b, r)
  PROVE  c \in Seq(R) /\ BufRight(g, c, s, f, n + 1)
  <1>1. n <= Len(b) /\ Len(b) \in Nat
    BY DEF BufRight
  <1>2. /\ c \in Seq(R) /\ n + 1 <= Len(c) /\ c[n + 1] = r
        /\ \A k \in 1 .. n : c[k] = b[k]
    <2>1. CASE n < Len(b)
      <3>1. c = [b EXCEPT ![n + 1] = r] /\ n + 1 \in 1 .. Len(b)
        BY <1>1, <2>1
      <3>2. QED
        BY <1>1, <2>1, <3>1
    <2>2. CASE ~(n < Len(b))
      <3>1. c = Append(b, r) /\ n = Len(b)
        BY <1>1, <2>2
      <3>2. QED
        BY <3>1, AppendProperties
    <2>3. QED
      BY <2>1, <2>2
  <1>3. s.tmin + (n + 1) - 1 = s.tmin + n
    OBVIOUS
  <1>4. ASSUME NEW k \in 1 .. n + 1
        PROVE  Right(g, c[k], f, s.tmin + k - 1, s.area)
    <2>1. CASE k = n + 1
      BY <1>2, <1>3, <2>1
    <2>2. CASE k \in 1 .. n
      BY <1>2, <2>2 DEF BufRight
    <2>3. k = n + 1 \/ k \in 1 .. n
      OBVIOUS
    <2>4. QED
      BY <2>1, <2>2, <2>3
  <1>5. QED
    BY <1>2, <1>4 DEF BufRight

(* Files are only removed.                                                 *)
LEMMA GoneGrows == [Next]_vars => gone \subseteq gone'
  <1>1. CASE UNCHANGED gone
    BY <1>1
  <1>2. ASSUME NEW d \in Slot, Remove(d) PROVE gone \subseteq gone'
    BY <1>2 DEF Remove
  <1>3. CASE \E d \in Slot : AskGrid(d) \/ Close(d) \/ AskStations(d)
    BY <1>1, <1>3 DEF AskGrid, Close, CloseSet, AskStations, filevars
  <1>4. CASE \E d \in Slot, k \in DOMAIN Layout : Open(d, k)
    BY <1>1, <1>4 DEF Open, OpenSet
  <1>5. CASE RowFile \/ StnFile \/ Flush \/ UNCHANGED vars
    BY <1>1, <1>5 DEF RowFile, StnFile, Flush, vars, filevars
  <1>6. CASE \/ ReadPlain \/ ReadGrib1 \/ ReadFails \/ ReadUndefined \/ ReadUnindexed
             \/ ReadCached \/ ReadGrib2 \/ ReadTooLarge \/ RowOutside \/ Finish
    BY <1>1, <1>6 DEF ReadPlain, ReadGrib1, ReadFails, ReadUndefined, ReadUnindexed, ReadCached,
                      ReadGrib2, ReadTooLarge, RowOutside, Finish, filevars
  <1>7. CASE StnCached \/ StnRead \/ StnReadFails \/ StnCachedFails \/ StnUndefined \/ StnFinish
    BY <1>1, <1>7 DEF StnCached, StnRead, StnReadFails, StnCachedFails, StnUndefined, StnFinish, filevars
  <1>8. QED
    BY <1>2, <1>3, <1>4, <1>5, <1>6, <1>7 DEF Next, GridStep, StnStep, RemoveFile


LEMMA RowTime ==
  ASSUME LayoutAssumption, SetsInv, ReqInv, AskRows, Asking, pc \in {"row", "read"}
  PROVE  /\ E = 1 /\ T = stn.tmin + Asked /\ T \in 1 .. Lay(File).nt
         /\ Asked \in Nat /\ Asked + 1 <= 1 + stn.tmax - stn.tmin
         /\ stn.tmin \in Nat /\ stn.tmax \in Nat /\ stn.area \in Area \cup {0}
         /\ stn.d = req.d
  <1> DEFINE n == Len(req.rows)
  <1>1. req.rows \in Rows(Lay(File)) /\ req.rows # << >> /\ LayoutOK(Lay(File))
    BY NextRow
  <1>2. n \in Nat /\ n > 0 /\ Lay(File).nt \in Nat
    BY <1>1 DEF Rows, LayoutOK
  <1>3. /\ stn.tmin \in Nat /\ stn.tmax \in Nat /\ stn.area \in Area \cup {0} /\ stn.d = req.d
        /\ 1 <= stn.tmin /\ stn.tmin <= stn.tmax /\ stn.tmax <= Lay(File).nt
        /\ req.toff = FALSE /\ n <= 1 + stn.tmax - stn.tmin
        /\ \A i \in 1 .. n : req.rows[i] = <<stn.tmax - n + i, 1>>
    BY DEF AskRows, Stations
  <1>4. Asked = 1 + stn.tmax - stn.tmin - n
    BY DEF Asked
  <1> HIDE DEF n
  <1>5. req.rows[1] = <<stn.tmax - n + 1, 1>>
    BY <1>2, <1>3
  <1>6. E = 1 /\ T = stn.tmax - n + 1
    BY <1>3, <1>5 DEF E, T, Current
  <1> DEFINE lo == stn.tmin
             hi == stn.tmax
             a == Asked
             t == T
             nt == Lay(File).nt
  <1>7. /\ n \in Nat /\ lo \in Nat /\ hi \in Nat /\ nt \in Nat /\ n > 0 /\ 1 <= lo /\ lo <= hi
        /\ hi <= nt /\ n <= 1 + hi - lo /\ a = 1 + hi - lo - n /\ t = hi - n + 1
    BY <1>2, <1>3, <1>4, <1>6
  <1> HIDE DEF lo, hi, a, t, nt
  <1>8. t = lo + a /\ t \in 1 .. nt /\ a \in Nat /\ a + 1 <= 1 + hi - lo
    BY <1>7
  <1>9. QED
    BY <1>3, <1>6, <1>8 DEF lo, hi, a, t, nt

LEMMA TailRows ==
  ASSUME NEW X, NEW s \in Seq(X), s # << >>, NEW m \in Nat,
         \A i \in 1 .. Len(s) : s[i] = <<m - Len(s) + i, 1>>
  PROVE  /\ Len(Tail(s)) = Len(s) - 1
         /\ \A i \in 1 .. Len(Tail(s)) : Tail(s)[i] = <<m - Len(Tail(s)) + i, 1>>
  <1> DEFINE n == Len(s)
             t == Tail(s)
  <1>1. /\ Len(t) = n - 1 /\ n \in Nat
        /\ \A i \in 1 .. Len(t) : t[i] = s[i + 1]
    BY HeadTailProperties
  <1> HIDE DEF n, t
  <1>2. ASSUME NEW i \in 1 .. Len(t) PROVE t[i] = <<m - Len(t) + i, 1>>
    <2>1. i + 1 \in 1 .. n
      BY <1>1
    <2>2. s[i + 1] = <<m - n + (i + 1), 1>>
      BY <2>1 DEF n
    <2>3. m - n + (i + 1) = m - Len(t) + i
      BY <1>1
    <2>4. QED
      BY <1>1, <2>2, <2>3
  <1>3. QED
    BY <1>1, <1>2 DEF n, t

(* The reports of a time are chained.                                      *)
LEMMA AskGoes ==
  ASSUME LayoutAssumption, SetsInv, ReqInv, AskRows, Asking, pc \in {"row", "read"},
         req' = [req EXCEPT !.rows = Tail(@)],
         pc' = (IF Len(req.rows) = 1 THEN "done" ELSE "row"),
         ds'[req.d].lay = ds[req.d].lay, UNCHANGED stn
  PROVE  /\ AskRows' /\ Asking' /\ Asked' = Asked + 1 /\ pc' # "read"
         /\ File' = ds'[req.d]
  <1> DEFINE n == Len(req.rows)
             R == Int \X Members(Lay(File))
  <1>1. /\ req.rows \in Seq(R) /\ req.rows # << >>
        /\ req \in [d : Slot, rows : Seq(R), toff : BOOLEAN]
    BY NextRow DEF ReqInv, Rows
  <1>2. /\ stn \in Stations /\ stn.d = req.d /\ stn.tmax \in Nat /\ stn.tmin \in Nat
        /\ 1 <= stn.tmin /\ stn.tmin <= stn.tmax /\ stn.tmax <= Lay(File).nt
        /\ req.toff = FALSE /\ n <= 1 + stn.tmax - stn.tmin
        /\ \A i \in 1 .. n : req.rows[i] = <<stn.tmax - n + i, 1>>
    BY DEF AskRows, Stations
  <1>3. /\ Len(Tail(req.rows)) = n - 1 /\ n \in Nat /\ Tail(req.rows) \in Seq(R)
        /\ \A i \in 1 .. Len(Tail(req.rows)) :
             Tail(req.rows)[i] = <<stn.tmax - Len(Tail(req.rows)) + i, 1>>
    <2> HIDE DEF R
    <2>1. Tail(req.rows) \in Seq(R) /\ n \in Nat
      BY <1>1, TailIs
    <2>2. QED
      BY <1>1, <1>2, <2>1, TailRows
  <1> HIDE DEF R
  <1>4. req'.rows = Tail(req.rows) /\ req'.d = req.d /\ req'.toff = FALSE
    BY <1>1, <1>2
  <1>5. File' = ds'[req.d] /\ Lay(File)' = Lay(File)
    BY <1>4 DEF File, Lay
  <1>6. Asking' /\ pc' # "read"
    BY <1>5 DEF Asking
  <1>7. pc' = "done" => req'.rows = << >>
    <2>1. SUFFICES ASSUME n = 1 PROVE Tail(req.rows) = << >>
      BY <1>4
    <2>2. Len(Tail(req.rows)) = 0
      BY <1>3, <2>1
    <2>3. QED
      BY <1>3, <2>2, EmptySeq
  <1> DEFINE n2 == Len(req'.rows)
  <1>8. n2 = n - 1
    BY <1>3, <1>4
  <1>9. /\ stn' \in Stations' /\ stn'.d = req'.d
    BY <1>2, <1>4 DEF Stations
  <1>10. n2 <= 1 + stn.tmax - stn.tmin
    <2> HIDE DEF n, n2
    <2>1. QED
      BY <1>2, <1>3, <1>8
  <1>11. \A i \in 1 .. n2 : req'.rows[i] = <<stn.tmax - n2 + i, 1>>
    BY <1>3, <1>4
  <1>12. AskRows'
    BY <1>2, <1>4, <1>5, <1>6, <1>7, <1>9, <1>10, <1>11 DEF AskRows
  <1>13. Asked' = Asked + 1
    <2>1. Asked = 1 + stn.tmax - stn.tmin - n /\ Asked' = 1 + stn.tmax - stn.tmin - n2
      BY DEF Asked
    <2> HIDE DEF n, n2
    <2>2. QED
      BY <1>2, <1>3, <1>8, <2>1, SMTT(30)
  <1>14. QED
    BY <1>5, <1>6, <1>12, <1>13


(* What the buffer holds of a data set stays right while the data set is   *)
(* open.                                                                   *)
LEMMA BufKept ==
  ASSUME LayoutAssumption, SetsInv, ReqInv, BufInv, [Next]_vars,
         UNCHANGED <<scbuf, scseq, scstn>>, Whole' => Whole
  PROVE  BufInv'
  <1> DEFINE d == scstn.d
             n == 1 + scstn.tmax - scstn.tmin
  <1>1. /\ opened \in Nat /\ opened' \in Nat /\ opened <= opened'
        /\ \A x \in Slot : \/ Kept(ds[x], ds'[x])
                           \/ ds'[x].lay = 0
                           \/ ds'[x].fseq > opened
    BY SetsGoOn
  <1>2. scbuf \in Seq(StnReports) /\ scstn \in Stations /\ scseq \in Nat /\ scseq <= opened
    BY DEF BufInv
  <1>3. ASSUME Whole', d \in Slot, ds'[d].lay # 0, ds'[d].fseq = scseq
        PROVE  BufRight(gone', scbuf, scstn, ds'[d], n)
    <2>1. Kept(ds[d], ds'[d])
      BY <1>1, <1>2, <1>3
    <2>2. IsOpen(d) /\ ds[d].fseq = scseq
      BY <1>3, <2>1 DEF Kept, IsOpen
    <2>3. BufRight(gone, scbuf, scstn, ds[d], n)
      BY <1>3, <2>2 DEF BufInv
    <2>4. gone \subseteq gone'
      BY GoneGrows
    <2> HIDE DEF d, n
    <2>5. QED
      BY <2>1, <2>3, <2>4, RightGrows
  <1>4. scseq <= opened'
    BY <1>1, <1>2
  <1>5. StnReports' = StnReports /\ Stations' = Stations
    BY DEF StnReports, Stations, Data, Names
  <1>6. (Whole /\ scstn.d \in Slot /\ IsOpen(scstn.d) /\ ds[scstn.d].fseq = scseq =>
           BufRight(gone, scbuf, scstn, ds[scstn.d], 1 + scstn.tmax - scstn.tmin))'
    BY <1>3 DEF IsOpen
  <1>7. QED
    BY <1>2, <1>4, <1>5, <1>6 DEF BufInv

(* Whatever is written to the buffer, once it is no longer whole.          *)
LEMMA BufDescribed ==
  ASSUME LayoutAssumption, SetsInv, ReqInv, BufInv, [Next]_vars,
         scbuf' \in Seq(StnReports), UNCHANGED <<scseq, scstn>>, ~Whole'
  PROVE  BufInv'
  <1>1. StnReports' = StnReports /\ Stations' = Stations
    BY DEF StnReports, Stations, Data, Names
  <1>2. scseq \in Nat /\ scseq <= opened'
    <2>1. opened \in Nat /\ opened' \in Nat /\ opened <= opened'
      BY SetsGoOn
    <2>2. QED
      BY <2>1 DEF BufInv
  <1>3. QED
    BY <1>1, <1>2 DEF BufInv

(* Part of a time is written.                                              *)
LEMMA WritesPart ==
  ASSUME SetsInv, ReqInv, AskRows, BufInv, Asking, Written(Partly), scpnt \in Nat
  PROVE  scbuf' \in Seq(StnReports)
  <1>1. Partly \in StnReports
    BY DEF AskRows, Stations, Partly, Reports, StnReports, Missing, Data, Names, NoFile
  <1>2. scbuf \in Seq(StnReports) /\ Len(scbuf) \in Nat
    BY DEF BufInv
  <1>3. CASE scpnt < Len(scbuf)
    <2>1. scbuf' = [scbuf EXCEPT ![scpnt + 1] = Partly] /\ scpnt + 1 \in 1 .. Len(scbuf)
      BY <1>2, <1>3 DEF Written
    <2>2. QED
      BY <1>1, <1>2, <2>1
  <1>4. CASE ~(scpnt < Len(scbuf))
    <2>1. scbuf' = Append(scbuf, Partly)
      BY <1>4 DEF Written
    <2>2. QED
      BY <1>1, <1>2, <2>1
  <1>5. QED
    BY <1>3, <1>4

(* Reports come from a file: they go to the request and to the buffer.     *)
LEMMA ReportsCome ==
  ASSUME LayoutAssumption, SetsInv, ReqInv, AskRows, AskBuf, BufInv, [Next]_vars,
         Asking, pc \in {"row", "read"}, ~scuca,
         NEW r \in StnReports, Chained(r), Gacstn(r), Right(gone, r, File, T, stn.area),
         UNCHANGED <<stn, torn, scuca, scflg, scseq, scstn, gone>>,
         Kept(File, ds'[req.d])
  PROVE  AskRows' /\ AskBuf' /\ AskHere' /\ BufInv' /\ ReportsAreRight'
  <1>1. /\ E = 1 /\ T = stn.tmin + Asked /\ stn.tmin \in Nat /\ Asked \in Nat
    BY RowTime
  <1>2. /\ req' = [req EXCEPT !.rows = Tail(@)]
        /\ pc' = IF Len(req.rows) = 1 THEN "done" ELSE "row"
        /\ report' = [want |-> Reports(Truth(File, T, E), IF Truth(File, T, E) = Missing
                                                          THEN 0 ELSE stn.area),
                      got |-> r, away |-> Gone(File, T, E)]
    BY DEF Chained
  <1>3. ds'[req.d].lay = ds[req.d].lay
    BY DEF Kept, File
  <1>4. AskRows' /\ Asking' /\ Asked' = Asked + 1 /\ pc' # "read" /\ File' = ds'[req.d]
    BY <1>2, <1>3, AskGoes
  <1>5. AskHere'
    BY <1>4 DEF AskHere
  <1>6. ReportsAreRight'
    <2>1. Right(gone, r, File, T, stn.area)
      OBVIOUS
    <2>2. Gone(File, T, 1) <=> <<File.src, Gafndt(Lay(File), T, 1)>> \in gone
      BY DEF Gone
    <2>3. \/ r = Reports(Truth(File, T, E), IF Truth(File, T, E) = Missing
                                            THEN 0 ELSE stn.area)
          \/ Gone(File, T, E) /\ r = NoReports
      BY <1>1, <2>1, <2>2 DEF Right
    <2>4. QED
      BY <1>2, <2>3 DEF ReportsAreRight, NoReports, Reports
  <1>7. scpnt \in Nat /\ scbuf \in Seq(StnReports) /\ scuca \in BOOLEAN
    BY DEF AskBuf, BufInv
  <1>8. CASE scok /\ scpnt < SCNUM /\ Written(r) /\ UNCHANGED scok
    <2>1. /\ scbuf' = IF scpnt < Len(scbuf) THEN [scbuf EXCEPT ![scpnt + 1] = r]
                      ELSE Append(scbuf, r)
          /\ scpnt' = scpnt + 1 /\ scok' = scok
      BY <1>8 DEF Written
    <2>2. scpnt = Asked /\ BufRight(gone, scbuf, stn, File, scpnt)
      BY <1>8 DEF AskBuf
    <2>3. Right(gone, r, File, stn.tmin + scpnt, stn.area)
      BY <1>1, <2>2
    <2>4. scbuf' \in Seq(StnReports) /\ BufRight(gone, scbuf', stn, File, scpnt + 1)
      BY <1>1, <1>7, <2>1, <2>2, <2>3, WrittenRight
    <2>5. BufRight(gone, scbuf', stn, File', scpnt')
      BY <1>4, <2>1, <2>4, RightGrows
    <2>6. AskBuf'
      BY <1>1, <1>4, <1>7, <1>8, <2>1, <2>2, <2>5 DEF AskBuf
    <2>7. ~Whole'
      BY <1>4, <1>7, <2>1 DEF Whole
    <2>8. StnReports' = StnReports /\ Stations' = Stations
      BY DEF StnReports, Stations, Data, Names
    <2>9. scseq <= opened'
      <3>1. opened \in Nat /\ opened' \in Nat /\ opened <= opened'
        BY SetsGoOn
      <3>2. QED
        BY <3>1 DEF BufInv
    <2>10. BufInv'
      BY <2>4, <2>7, <2>8, <2>9 DEF BufInv
    <2>11. QED
      BY <1>4, <1>5, <1>6, <2>6, <2>10
  <1>9. CASE scok' = FALSE /\ UNCHANGED <<scbuf, scpnt>>
    <2>2. AskBuf'
      BY <1>7, <1>9 DEF AskBuf
    <2>3. Whole' => Whole
      <3>1. pc # "undefined"
        OBVIOUS
      <3>2. QED
        BY <1>4, <1>9, <3>1 DEF Whole
    <2>4. BufInv'
      BY <1>9, <2>3, BufKept
    <2>5. QED
      BY <1>4, <1>5, <1>6, <2>2, <2>4
  <1>10. CASE scok' = FALSE /\ Written(Partly)
    <2>1. scpnt' \in Nat /\ scpnt' > 0 /\ scbuf' \in Seq(StnReports)
      <3>1. scpnt' = scpnt + 1
        BY <1>10 DEF Written
      <3>2. Written(Partly)
        BY <1>10
      <3>3. scbuf' \in Seq(StnReports)
        BY <1>7, <3>2, WritesPart
      <3>4. QED
        BY <1>7, <3>1, <3>3
    <2>2. AskBuf'
      BY <1>7, <1>10, <2>1 DEF AskBuf
    <2>3. ~Whole'
      BY <1>4, <2>1 DEF Whole
    <2>4. BufInv'
      BY <2>1, <2>3, BufDescribed
    <2>5. QED
      BY <1>4, <1>5, <1>6, <2>2, <2>4
  <1>11. QED
    BY <1>8, <1>9, <1>10 DEF Gacstn, MaybePart


StnInv == AskRows /\ AskBuf /\ AskHere /\ BufInv /\ ReportsAreRightUnlessTorn

LEMMA NobodyAsks ==
  ASSUME ~Asking'
  PROVE  AskRows' /\ AskBuf' /\ AskHere'
  BY DEF AskRows, AskBuf, AskHere

LEMMA SameReports ==
  ASSUME ReportsAreRightUnlessTorn, report' = NoReport \/ UNCHANGED <<report, torn, scuca>>
  PROVE  ReportsAreRightUnlessTorn'
  BY DEF ReportsAreRightUnlessTorn, ReportsAreRight, NoReport

LEMMA StnFileStays ==
  ASSUME LayoutAssumption, SetsInv, ReqInv, FitsInv, StnInv, [Next]_vars, StnFile
  PROVE  StnInv'
  <1>1. PICK o \in Gaopfn(File, T, E) :
          /\ ds' = [ds EXCEPT ![req.d] = o.file]
          /\ handles' = handles + o.took
          /\ \/ o.rc = "missing" /\ Chained(NoReports) /\ Gacstn(NoReports)
                /\ UNCHANGED <<stn, torn>>
             \/ o.rc = "read" /\ pc' = "read"
                /\ UNCHANGED <<req, scbuf, scpnt, scok, stn, torn, report>>
             \/ o.rc = "error" /\ UNCHANGED <<scbuf, scpnt, scok>> /\ StnFails
             \/ o.rc = "undefined" /\ pc' = "undefined"
                /\ UNCHANGED <<req, scbuf, scpnt, scok, stn, torn, report>>
    BY DEF StnFile
  <1>2. /\ pc = "row" /\ Lay(File).kind = "station" /\ ~scuca /\ Asking
        /\ UNCHANGED <<opened, sources, gone, scflg, scuca, scseq, scstn>>
    BY DEF StnFile, StnRow, Asking
  <1>3. /\ File \in Sets /\ File.lay # 0 /\ Fits(File) /\ req.d \in Slot
        /\ E \in Members(Lay(File)) /\ T \in Int
    BY <1>2, NextRow DEF FitsInv, File
  <1>4. /\ ds'[req.d] = o.file /\ Kept(File, ds'[req.d]) /\ ds'[req.d].lay = ds[req.d].lay
    BY <1>1, <1>2, <1>3, FileAsked DEF File
  <1>5. AskRows /\ AskBuf /\ AskHere /\ BufInv /\ ReportsAreRightUnlessTorn
    BY DEF StnInv
  <1>6. E = 1 /\ T \in 1 .. Lay(File).nt
    BY <1>2, <1>5, RowTime
  <1>7. CASE o.rc = "missing" /\ Chained(NoReports) /\ Gacstn(NoReports)
             /\ UNCHANGED <<stn, torn>>
    <2>1. Truth(File, T, 1) = Missing \/ Gone(File, T, 1)
      BY <1>3, <1>6, <1>7, GaopfnRight
    <2>2. Right(gone, NoReports, File, T, stn.area)
      BY <2>1 DEF Right, NoReports, Gone
    <2>3. NoReports \in StnReports
      BY DEF NoReports, Reports, StnReports, Missing, Data, Names, NoFile
    <2>4. AskRows' /\ AskBuf' /\ AskHere' /\ BufInv' /\ ReportsAreRight'
      BY <1>2, <1>4, <1>5, <1>7, <2>2, <2>3, ReportsCome
    <2>5. QED
      BY <2>4 DEF StnInv, ReportsAreRightUnlessTorn
  <1>8. CASE o.rc = "read" /\ pc' = "read"
             /\ UNCHANGED <<req, scbuf, scpnt, scok, stn, torn, report>>
    <2>1. File' = o.file /\ Lay(File)' = Lay(File) /\ Kept(File, File') /\ Asking'
      BY <1>2, <1>4, <1>8 DEF File, Lay, Kept, Asking
    <2>2. T' = T /\ E' = E /\ Asked' = Asked
      BY <1>8, <2>1, SameRow DEF Asked
    <2>3. AskRows'
      <3>1. pc' # "done" /\ req' = req /\ stn' = stn /\ Stations' = Stations
        BY <1>8 DEF Stations
      <3>2. QED
        BY <1>2, <1>5, <2>1, <3>1 DEF AskRows
    <2>4. AskBuf'
      <3>1. BufRight(gone, scbuf, stn, File, scpnt) => BufRight(gone, scbuf, stn, File', scpnt)
        BY <2>1, RightGrows
      <3>2. QED
        BY <1>2, <1>5, <1>8, <2>2, <3>1 DEF AskBuf
    <2>5. AskHere'
      <3>1. Here(o.file, T, E)
        BY <1>3, <1>6, <1>8, GaopfnRight
      <3>2. Here(File, T, E)' <=> Here(o.file, T, E)
        BY <2>1, <2>2 DEF Here, Lay
      <3>3. QED
        BY <3>1, <3>2 DEF AskHere
    <2>6. BufInv'
      <3>1. Whole' => Whole
        BY <1>2, <1>8, <2>1 DEF Whole
      <3>2. QED
        BY <1>2, <1>5, <1>8, <3>1, BufKept
    <2>7. QED
      BY <1>2, <1>5, <1>8, <2>3, <2>4, <2>5, <2>6, SameReports DEF StnInv
  <1>9. CASE \/ o.rc = "error" /\ UNCHANGED <<scbuf, scpnt, scok>> /\ StnFails
             \/ o.rc = "undefined" /\ pc' = "undefined"
                /\ UNCHANGED <<req, scbuf, scpnt, scok, stn, torn, report>>
    <2>1. /\ ~Asking' /\ UNCHANGED scbuf
          /\ report' = NoReport \/ UNCHANGED <<report, torn, scuca>>
      BY <1>2, <1>9 DEF StnFails, Asking
    <2>2. Whole' => Whole
      <3>1. scpnt \in Nat
        BY <1>2, <1>5 DEF AskBuf
      <3>2. pc' = "undefined" \/ torn' = (torn \/ scpnt > 0)
        BY <1>2, <1>9 DEF StnFails
      <3>3. ~(scpnt > 0) => scpnt = 0
        BY <3>1
      <3>4. QED
        BY <1>2, <3>2, <3>3 DEF Whole
    <2>3. BufInv'
      BY <1>2, <1>5, <2>1, <2>2, BufKept
    <2>4. QED
      BY <1>5, <2>1, <2>3, NobodyAsks, SameReports DEF StnInv
  <1>10. QED
    BY <1>1, <1>7, <1>8, <1>9

LEMMA StnReadStays ==
  ASSUME LayoutAssumption, SetsInv, ReqInv, StnInv, [Next]_vars, StnRead
  PROVE  StnInv'
  <1> DEFINE r == Reports(Indexed(File, T, E), stn.area)
  <1>1. /\ pc = "read" /\ File.infile # Dangling /\ Lay(File).kind = "station" /\ Asking
        /\ Chained(r) /\ Gacstn(r)
        /\ UNCHANGED <<ds, gone, scflg, scuca, scseq, scstn, stn, torn>>
    BY DEF StnRead, Reads, Asking, filevars
  <1>2. AskRows /\ AskBuf /\ AskHere /\ BufInv
    BY DEF StnInv
  <1>3. ~scuca /\ Here(File, T, E)
    BY <1>1, <1>2 DEF AskBuf, AskHere
  <1>4. /\ File \in Sets /\ File.lay # 0 /\ E \in Members(Lay(File))
    BY <1>1, NextRow
  <1>5. /\ Indexed(File, T, E) = Truth(File, T, E) /\ Truth(File, T, E) \in Data
        /\ Truth(File, T, E).tt >= 1
    BY <1>1, <1>3, <1>4, ReadsRight
  <1>6. E = 1 /\ stn.area \in Area \cup {0}
    BY <1>1, <1>2, RowTime
  <1>7. Truth(File, T, 1) # Missing
    <2>1. Missing.tt = 0
      BY DEF Missing
    <2>2. QED
      BY <1>5, <1>6, <2>1
  <1>8. Right(gone, r, File, T, stn.area)
    BY <1>5, <1>6, <1>7 DEF Right
  <1>9. r \in StnReports
    BY <1>5, <1>6 DEF StnReports, Reports
  <1>10. Kept(File, ds'[req.d])
    BY <1>1 DEF Kept, File
  <1> HIDE DEF r
  <1>11. AskRows' /\ AskBuf' /\ AskHere' /\ BufInv' /\ ReportsAreRight'
    BY <1>1, <1>2, <1>3, <1>8, <1>9, <1>10, ReportsCome
  <1>12. QED
    BY <1>11 DEF StnInv, ReportsAreRightUnlessTorn


LEMMA StnCachedStays ==
  ASSUME LayoutAssumption, SetsInv, ReqInv, StnInv, [Next]_vars, StnCached
  PROVE  StnInv'
  <1>1. /\ pc = "row" /\ scuca /\ Asking /\ scpnt' = scpnt + 1
        /\ UNCHANGED <<ds, gone, scuca, scok, scflg, scseq, scstn, scbuf, torn, stn>>
        /\ req' = [req EXCEPT !.rows = Tail(@)]
        /\ pc' = IF Len(req.rows) = 1 THEN "done" ELSE "row"
        /\ report' = [want |-> Reports(Truth(File, T, E), IF Truth(File, T, E) = Missing
                                                          THEN 0 ELSE stn.area),
                      got |-> scbuf[scpnt + 1], away |-> Gone(File, T, E)]
    BY DEF StnCached, StnRow, Asking, Chained, filevars, cachevars
  <1>2. AskRows /\ AskBuf /\ AskHere /\ BufInv /\ ReportsAreRightUnlessTorn
    BY DEF StnInv
  <1>3. /\ E = 1 /\ T = stn.tmin + Asked /\ Asked \in Nat /\ stn.tmin \in Nat
        /\ Asked + 1 <= 1 + stn.tmax - stn.tmin /\ stn.d = req.d /\ stn.tmax \in Nat
    BY <1>1, <1>2, RowTime
  <1>4. AskRows' /\ Asking' /\ Asked' = Asked + 1 /\ pc' # "read" /\ File' = ds'[req.d]
    BY <1>1, <1>2, AskGoes
  <1>5. AskBuf' /\ AskHere'
    BY <1>1, <1>2, <1>3, <1>4 DEF AskBuf, AskHere, File
  <1>6. BufInv'
    BY <1>1, <1>2, BufKept DEF Whole
  <1>7. ASSUME ~torn PROVE ReportsAreRight'
    <2>1. /\ scflg /\ scstn = stn /\ scseq = File.fseq /\ scpnt = Asked /\ Whole
      BY <1>1, <1>2, <1>7 DEF AskBuf, Whole
    <2>2. req.d \in Slot /\ IsOpen(req.d)
      BY <1>1 DEF ReqInv
    <2>3. BufRight(gone, scbuf, stn, File, 1 + stn.tmax - stn.tmin)
      BY <1>2, <1>3, <2>1, <2>2 DEF BufInv, File
    <2> DEFINE k == scpnt + 1
               n == 1 + stn.tmax - stn.tmin
    <2>4. k \in 1 .. n /\ stn.tmin + k - 1 = T
      BY <1>3, <2>1
    <2>5. Right(gone, scbuf[k], File, stn.tmin + k - 1, stn.area)
      <3> HIDE DEF k, n
      <3>1. BufRight(gone, scbuf, stn, File, n)
        BY <2>3 DEF n
      <3>2. QED
        BY <2>4, <3>1 DEF BufRight
    <2>6. Right(gone, scbuf[k], File, T, stn.area)
      BY <2>4, <2>5
    <2> HIDE DEF k
    <2>7. \/ scbuf[k] = Reports(Truth(File, T, E), IF Truth(File, T, E) = Missing
                                                   THEN 0 ELSE stn.area)
          \/ Gone(File, T, E) /\ scbuf[k] = NoReports
      BY <1>3, <2>6 DEF Right, Gone
    <2>8. report'.got = scbuf[k]
      BY <1>1 DEF k
    <2>9. QED
      BY <1>1, <2>7, <2>8 DEF ReportsAreRight, NoReports, Reports
  <1>8. QED
    BY <1>1, <1>4, <1>5, <1>6, <1>7 DEF StnInv, ReportsAreRightUnlessTorn

(* The buffer is described as that of the request that filled it.          *)
LEMMA StnFinishStays ==
  ASSUME LayoutAssumption, SetsInv, ReqInv, StnInv, [Next]_vars, StnFinish
  PROVE  StnInv'
  <1>1. /\ pc = "done" /\ Asking /\ ~Asking' /\ scflg' = Flag
        /\ IF Flag /\ ~scuca THEN scstn' = stn /\ scseq' = File.fseq
           ELSE UNCHANGED <<scstn, scseq>>
        /\ torn' = (torn /\ scuca) /\ report' = NoReport
        /\ UNCHANGED <<ds, opened, gone, scuca, scok, scpnt, scbuf>>
    BY DEF StnFinish, Asking, filevars
  <1>2. AskRows /\ AskBuf /\ BufInv /\ ReportsAreRightUnlessTorn
    BY DEF StnInv
  <1>3. /\ req.d \in Slot /\ IsOpen(req.d) /\ File \in Sets /\ File.fseq <= opened
        /\ File.fseq \in Nat /\ File = ds[req.d]
    BY <1>1 DEF ReqInv, SetsInv, Sets, File
  <1>4. CASE scok /\ ~scuca
    <2>1. scstn' = stn /\ scseq' = File.fseq /\ stn \in Stations /\ stn.d = req.d
      BY <1>1, <1>2, <1>4 DEF Flag, AskRows
    <2>2. Asked = 1 + stn.tmax - stn.tmin
      <3>1. /\ req.rows = << >> /\ Len(<< >>) = 0 /\ stn.tmax \in Nat /\ stn.tmin \in Nat
        BY <1>1, <1>2 DEF AskRows, Stations
      <3>2. QED
        BY <3>1 DEF Asked
    <2>3. BufRight(gone, scbuf, stn, ds[req.d], 1 + stn.tmax - stn.tmin)
      BY <1>1, <1>2, <1>3, <1>4, <2>2 DEF AskBuf
    <2>4. StnReports' = StnReports /\ Stations' = Stations
      BY DEF StnReports, Stations, Data, Names
    <2>5. /\ scbuf' \in Seq(StnReports)' /\ scstn' \in Stations' /\ scseq' \in Nat
          /\ scseq' <= opened'
      BY <1>1, <1>2, <1>3, <2>1, <2>4 DEF BufInv
    <2>6. BufRight(gone', scbuf', scstn', ds'[scstn'.d], 1 + scstn'.tmax - scstn'.tmin)
      BY <1>1, <2>1, <2>3
    <2>7. BufInv'
      BY <2>5, <2>6 DEF BufInv
    <2>8. QED
      BY <1>1, <1>2, <2>7, NobodyAsks, SameReports DEF StnInv
  <1>5. CASE ~(scok /\ ~scuca)
    <2>1. UNCHANGED <<scstn, scseq>>
      BY <1>1, <1>5 DEF Flag
    <2>2. Whole' => Whole
      BY <1>1, <1>2, <1>5 DEF Whole, Flag, AskBuf
    <2>3. BufInv'
      BY <1>1, <1>2, <2>1, <2>2, BufKept
    <2>4. QED
      BY <1>1, <1>2, <2>3, NobodyAsks, SameReports DEF StnInv
  <1>6. QED
    BY <1>4, <1>5

LEMMA StnEndsStay ==
  ASSUME LayoutAssumption, SetsInv, ReqInv, StnInv, [Next]_vars,
         StnReadFails \/ StnCachedFails \/ StnUndefined
  PROVE  StnInv'
  <1>1. /\ pc \in {"row", "read"} /\ Asking /\ ~Asking' /\ UNCHANGED <<scseq, scstn, scflg, scuca>>
        /\ report' = NoReport \/ UNCHANGED <<report, torn, scuca>>
        /\ pc' = "undefined" \/ torn' = (torn \/ (~scuca /\ scpnt' > 0))
        /\ UNCHANGED <<scbuf, scpnt>> \/ (scok /\ pc' = "idle" /\ Written(Partly))
    BY DEF StnReadFails, StnCachedFails, StnUndefined, StnRow, Reads, Asking, StnFails,
           MaybePart, stnvars
  <1>2. AskRows /\ AskBuf /\ BufInv /\ ReportsAreRightUnlessTorn
    BY DEF StnInv
  <1>3. scpnt \in Nat /\ ~(scuca /\ scok)
    BY <1>1, <1>2 DEF AskBuf
  <1>4. BufInv'
    <2>1. CASE UNCHANGED <<scbuf, scpnt>>
      <3>1. ~(scpnt > 0) => scpnt = 0
        BY <1>3
      <3>2. Whole' => Whole
        BY <1>1, <2>1, <3>1 DEF Whole
      <3>3. QED
        BY <1>1, <1>2, <2>1, <3>2, BufKept
    <2>2. CASE scok /\ pc' = "idle" /\ Written(Partly)
      <3>1. scpnt' > 0 /\ scbuf' \in Seq(StnReports)
        BY <1>1, <1>2, <1>3, <2>2, WritesPart DEF Written
      <3>2. ~Whole'
        BY <1>1, <1>3, <2>2, <3>1 DEF Whole
      <3>3. QED
        BY <1>1, <1>2, <3>1, <3>2, BufDescribed
    <2>3. QED
      BY <1>1, <2>1, <2>2
  <1>5. QED
    BY <1>1, <1>2, <1>4, NobodyAsks, SameReports DEF StnInv


LEMMA AskStationsStay ==
  ASSUME LayoutAssumption, SetsInv, ReqInv, StnInv, [Next]_vars, NEW d \in Slot, AskStations(d)
  PROVE  StnInv'
  <1>1. PICK area \in Area, lo, hi \in 1 .. Lay(ds[d]).nt :
          /\ lo <= hi
          /\ stn' = [d |-> d, area |-> area, tmin |-> lo, tmax |-> hi]
          /\ req' = [d |-> d, rows |-> [i \in 1 .. 1 + hi - lo |-> <<lo + i - 1, 1>>],
                     toff |-> FALSE]
    BY DEF AskStations
  <1>2. /\ pc = "idle" /\ IsOpen(d) /\ Lay(ds[d]).kind = "station" /\ pc' = "row"
        /\ scuca' = CanUse(stn') /\ scok' = ~scuca' /\ scpnt' = 0 /\ report' = NoReport
        /\ UNCHANGED <<ds, opened, gone, scflg, scseq, scstn, scbuf, torn>>
    BY DEF AskStations, filevars, cachevars
  <1>3. LayoutOK(Lay(ds[d])) /\ Lay(ds[d]).nt \in Nat
    BY <1>2, LayOf DEF SetsInv, IsOpen, LayoutOK
  <1>4. lo \in Nat /\ hi \in Nat /\ 1 <= lo /\ hi <= Lay(ds[d]).nt
    BY <1>3
  <1> DEFINE n == 1 + hi - lo
             rows == [i \in 1 .. n |-> <<lo + i - 1, 1>>]
  <1>5. n \in Nat
    BY <1>1, <1>4
  <1>6. Len(rows) = n
    <2> HIDE DEF n
    <2>1. rows \in Seq(Int \X {1}) /\ Len(rows) = n
      BY <1>4, <1>5
    <2>2. QED
      BY <2>1
  <1>7. \A i \in 1 .. n : rows[i] = <<hi - n + i, 1>>
    <2>1. ASSUME NEW i \in 1 .. n PROVE lo + i - 1 = hi - n + i
      BY <1>4
    <2>2. QED
      BY <2>1
  <1>8. /\ req'.rows = rows /\ req'.d = d /\ req'.toff = FALSE /\ stn'.d = d
        /\ stn'.tmin = lo /\ stn'.tmax = hi /\ stn' \in Stations'
    BY <1>1, <1>4 DEF Stations
  <1>9. File' = ds[d] /\ Lay(File)' = Lay(ds[d])
    BY <1>2, <1>8 DEF File, Lay
  <1> HIDE DEF n, rows
  <1>10. AskRows'
    <2>1. /\ Len(req'.rows) = n /\ n <= 1 + stn'.tmax - stn'.tmin
          /\ \A i \in 1 .. n : req'.rows[i] = <<stn'.tmax - n + i, 1>>
      BY <1>4, <1>6, <1>7, <1>8 DEF n
    <2>2. QED
      BY <1>1, <1>2, <1>4, <1>8, <1>9, <2>1, ZenonT(30) DEF AskRows
  <1>11. AskBuf'
    <2>1. Asked' = 0
      <3>1. Asked' = 1 + hi - lo - n
        BY <1>6, <1>8 DEF Asked
      <3>2. QED
        BY <1>4, <3>1 DEF n
    <2>2. BufRight(gone, scbuf, stn', File', 0)
      <3>1. Len(scbuf) \in Nat
        BY DEF StnInv, BufInv
      <3>2. QED
        BY <3>1 DEF BufRight
    <2>3. scuca' => scflg' /\ scstn' = stn' /\ scseq' = File'.fseq
      BY <1>2, <1>8, <1>9 DEF CanUse
    <2>4. scuca' \in BOOLEAN
      BY <1>2 DEF CanUse
    <2>5. QED
      BY <1>2, <2>1, <2>2, <2>3, <2>4 DEF AskBuf
  <1>12. AskHere'
    BY <1>2 DEF AskHere
  <1>13. BufInv'
    <2>1. Whole' => Whole
      BY <1>2 DEF Whole, Asking
    <2>2. QED
      BY <1>2, <2>1, BufKept DEF StnInv
  <1>14. QED
    BY <1>2, <1>10, <1>11, <1>12, <1>13, SameReports DEF StnInv

(* A grid is read.                                                         *)
LEMMA GridOnly ==
  ASSUME LayoutAssumption, SetsInv, ReqInv,
         ReadPlain \/ ReadGrib1 \/ ReadFails \/ ReadUndefined \/ ReadUnindexed
           \/ ReadCached \/ ReadGrib2 \/ ReadTooLarge \/ RowOutside \/ RowFile \/ Finish
  PROVE  ~Asking /\ ~Asking' /\ pc # "undefined"
  <1>1. /\ Lay(File).kind # "station" /\ pc \in {"row", "read", "done"}
        /\ \/ pc' \notin {"row", "read", "done"}
           \/ req' = req \/ req' = [req EXCEPT !.rows = Tail(@)]
    <2>1. CASE ReadPlain \/ ReadGrib1 \/ ReadUnindexed
      BY <2>1 DEF ReadPlain, ReadGrib1, ReadUnindexed, Reads, Filled
    <2>2. CASE ReadCached \/ ReadGrib2
      BY <2>2 DEF ReadCached, ReadGrib2, Reads, Filled
    <2>3. CASE ReadFails \/ ReadUndefined \/ ReadTooLarge \/ Finish
      BY <2>3 DEF ReadFails, ReadUndefined, ReadTooLarge, Reads, Finish, Fails
    <2>4. CASE RowOutside \/ RowFile
      BY <2>4 DEF RowOutside, RowFile, GridRow, Filled, Fails
    <2>5. QED
      BY <2>1, <2>2, <2>3, <2>4
  <1>2. req.d \in Slot /\ pc # "idle" /\ req \in [d : Slot, rows : Rows(Lay(File)), toff : BOOLEAN]
    BY <1>1 DEF ReqInv
  <1>3. req' = req \/ req' = [req EXCEPT !.rows = Tail(@)] => req'.d = req.d
    BY <1>2
  <1>4. ds'[req.d].lay = ds[req.d].lay
    <2>1. CASE RowFile
      <3>1. /\ pc = "row" /\ UNCHANGED <<opened, sources>>
            /\ \E o \in Gaopfn(File, T, E) : ds' = [ds EXCEPT ![req.d] = o.file]
                                             /\ handles' = handles + o.took
        BY <2>1 DEF RowFile, GridRow
      <3>2. QED
        BY <3>1, FileAsked
    <2>2. CASE ~RowFile
      BY <2>2 DEF ReadPlain, ReadGrib1, ReadFails, ReadUndefined, ReadUnindexed, ReadCached,
                  ReadGrib2, ReadTooLarge, RowOutside, Finish, filevars
    <2>3. QED
      BY <2>1, <2>2
  <1>5. req'.d = req.d => Lay(File)' = Lay(File)
    BY <1>4 DEF File, Lay
  <1>6. QED
    BY <1>1, <1>3, <1>5 DEF Asking

LEMMA StnLeftAlone ==
  ASSUME LayoutAssumption, SetsInv, ReqInv, StnInv, [Next]_vars,
         UNCHANGED stnvars, ~Asking, ~Asking', pc # "undefined"
  PROVE  StnInv'
  <1>1. UNCHANGED <<scbuf, scseq, scstn, scflg, scuca, torn, report>>
    BY DEF stnvars
  <1>2. Whole' => Whole
    BY <1>1 DEF Whole
  <1>3. BufInv'
    BY <1>1, <1>2, BufKept DEF StnInv
  <1>4. QED
    BY <1>1, <1>3, NobodyAsks, SameReports DEF StnInv

(* A file is removed while a request is served, or nothing happens.        *)
LEMMA StnUntouched ==
  ASSUME LayoutAssumption, SetsInv, ReqInv, StnInv, [Next]_vars,
         UNCHANGED <<stnvars, ds, req, pc>>
  PROVE  StnInv'
  <1>1. UNCHANGED <<scflg, scuca, scok, scpnt, scseq, scstn, scbuf, stn, torn, report>>
    BY DEF stnvars
  <1>2. File' = File /\ Lay(File)' = Lay(File) /\ T' = T /\ E' = E /\ Asked' = Asked
        /\ (Asking' <=> Asking)
    <2>1. File' = File /\ Lay(File)' = Lay(File)
      BY DEF File, Lay
    <2>2. QED
      BY <1>1, <2>1, SameRow DEF Asked, Asking
  <1>3. AskRows'
    BY <1>1, <1>2 DEF StnInv, AskRows, Stations
  <1>4. AskBuf'
    <2>1. gone \subseteq gone' /\ Kept(File, File)
      BY GoneGrows DEF Kept
    <2>2. BufRight(gone, scbuf, stn, File, scpnt) => BufRight(gone', scbuf, stn, File, scpnt)
      BY <2>1, RightGrows
    <2>3. QED
      BY <1>1, <1>2, <2>2 DEF StnInv, AskBuf
  <1>5. AskHere'
    <2>1. Here(File, T, E)' <=> Here(File, T, E)
      BY <1>2 DEF Here, Lay
    <2>2. QED
      BY <1>2, <2>1 DEF StnInv, AskHere
  <1>6. BufInv'
    BY <1>1, <1>2, BufKept DEF StnInv, Whole
  <1>7. QED
    BY <1>1, <1>3, <1>4, <1>5, <1>6, SameReports DEF StnInv

LEMMA StnStays ==
  ASSUME LayoutAssumption, SetsInv, ReqInv, FitsInv, StnInv, [Next]_vars
  PROVE  StnInv'
  <1>1. CASE StnStep
    BY <1>1, AskStationsStay, StnCachedStays, StnFileStays, StnReadStays, StnEndsStay,
       StnFinishStays DEF StnStep
  <1>2. CASE /\ UNCHANGED stnvars
             /\ ReadPlain \/ ReadGrib1 \/ ReadFails \/ ReadUndefined \/ ReadUnindexed
                  \/ ReadCached \/ ReadGrib2 \/ ReadTooLarge \/ RowOutside \/ RowFile \/ Finish
    BY <1>2, GridOnly, StnLeftAlone
  <1>3. CASE UNCHANGED stnvars /\ \E d \in Slot : AskGrid(d)
    <2>1. PICK d \in Slot : AskGrid(d)
      BY <1>3
    <2>2. /\ pc = "idle" /\ Lay(ds[d]).kind # "station" /\ IsOpen(d) /\ req' \in Requests(d)
          /\ UNCHANGED ds
      BY <2>1 DEF AskGrid, filevars
    <2>3. req'.d = d
      BY <2>2, RequestsAre
    <2>4. ~Asking /\ ~Asking'
      BY <2>2, <2>3 DEF Asking, File, Lay
    <2>5. QED
      BY <1>3, <2>2, <2>4, StnLeftAlone
  <1>4. CASE /\ UNCHANGED stnvars
             /\ Flush \/ (\E d \in Slot : Close(d))
                  \/ (\E d \in Slot, k \in DOMAIN Layout : Open(d, k))
    <2>1. pc = "idle" /\ pc' = "idle"
      BY <1>4 DEF Flush, Close, Open, gridvars
    <2>2. QED
      BY <1>4, <2>1, StnLeftAlone DEF Asking
  <1>5. CASE UNCHANGED stnvars /\ \E d \in Slot : RemoveFile(d)
    BY <1>5, StnUntouched DEF RemoveFile, Remove, gridvars
  <1>6. CASE UNCHANGED vars
    BY <1>6, StnUntouched DEF vars, filevars, gridvars
  <1>7. QED
    BY <1>1, <1>2, <1>3, <1>4, <1>5, <1>6 DEF Next, GridStep

LEMMA InitStn ==
  ASSUME Init
  PROVE  StnInv
  <1>1. /\ pc = "idle" /\ scflg = FALSE /\ scseq = 0 /\ scstn = NoStn /\ scbuf = << >>
        /\ report = NoReport /\ opened = 0
    BY DEF Init, FileInit, GridInit
  <1>2. AskRows /\ AskBuf /\ AskHere
    BY <1>1 DEF Asking, AskRows, AskBuf, AskHere
  <1>3. BufInv
    BY <1>1 DEF BufInv, Whole, NoStn, Stations
  <1>4. ReportsAreRightUnlessTorn
    BY <1>1 DEF ReportsAreRightUnlessTorn, ReportsAreRight, NoReport
  <1>5. QED
    BY <1>2, <1>3, <1>4 DEF StnInv

(* The reports of a time are those the request selects from the file that  *)
(* holds the time, from the file or from the buffer of an earlier request, *)
(* unless a request failed after it had written to the buffer (gagstn,     *)
(* gacstn, gagcst): ReportsAreRightUnlessTorn.                             *)
THEOREM ReportsRightUnlessTorn == Spec => []ReportsAreRightUnlessTorn
  <1>1. Init => RowsInv /\ StnInv
    BY LayoutAssumption, InitRows, InitStn
  <1>2. SetsInv /\ ReqInv /\ FitsInv /\ StnInv /\ [Next]_vars => StnInv'
    BY LayoutAssumption, StnStays
  <1>3. SetsInv /\ ReqInv /\ RowsInv /\ [Next]_vars => RowsInv'
    BY LayoutAssumption, FitsStays, HereStays, BitMapStays, BlocksStay, RowStays DEF RowsInv
  <1>4. RowsInv => FitsInv
    BY DEF RowsInv
  <1>5. StnInv => ReportsAreRightUnlessTorn
    BY DEF StnInv
  <1>6. QED
    BY <1>1, <1>2, <1>3, <1>4, <1>5, ReadAlways, PTL DEF Spec

-----------------------------------------------------------------------------
(* The bytes of the blocks.                                                *)

(* f[n] is the size of the first n of a sequence of things that have one.  *)
SumsUp(f, s) ==
  /\ f \in [0 .. Len(s) -> Nat] /\ f[0] = 0
  /\ \A n \in 1 .. Len(s) : f[n] = f[n - 1] + s[n].size

LEMMA SumExists ==
  ASSUME NEW B, \A b \in B : b.size \in Nat
  PROVE  \A s \in Seq(B) : \E f : SumsUp(f, s)
  <1> DEFINE G == {s \in Seq(B) : \E f : SumsUp(f, s)}
  <1>1. << >> \in G
    <2>1. << >> \in Seq(B) /\ Len(<< >>) = 0
      OBVIOUS
    <2>2. SumsUp([n \in 0 .. 0 |-> 0], << >>)
      BY DEF SumsUp
    <2>3. QED
      BY <2>1, <2>2
  <1>2. ASSUME NEW s \in Seq(B), NEW x \in B, s \in G
        PROVE  Append(s, x) \in G
    <2> DEFINE t == Append(s, x)
               m == Len(s)
    <2>1. PICK f : SumsUp(f, s)
      BY <1>2
    <2> DEFINE g == [n \in 0 .. m + 1 |-> IF n = m + 1 THEN f[m] + x.size ELSE f[n]]
    <2>2. /\ t \in Seq(B) /\ Len(t) = m + 1 /\ t[m + 1] = x /\ m \in Nat
          /\ \A n \in 1 .. m : t[n] = s[n]
      OBVIOUS
    <2>3. x.size \in Nat
      OBVIOUS
    <2>4. f \in [0 .. m -> Nat] /\ f[0] = 0 /\ \A n \in 1 .. m : f[n] = f[n - 1] + s[n].size
      BY <2>1 DEF SumsUp
    <2> HIDE DEF t, m
    <2>5. g \in [0 .. m + 1 -> Nat] /\ g[0] = 0
      BY <2>2, <2>3, <2>4
    <2>6. \A n \in 1 .. m + 1 : g[n] = g[n - 1] + t[n].size
      <3>1. TAKE n \in 1 .. m + 1
      <3>2. CASE n = m + 1
        BY <2>2, <2>4, <3>2
      <3>3. CASE n # m + 1
        <4>1. n \in 1 .. m /\ n - 1 \in 0 .. m
          BY <2>2, <3>3
        <4>2. g[n] = f[n] /\ g[n - 1] = f[n - 1] /\ t[n] = s[n]
          BY <2>2, <4>1
        <4>3. QED
          BY <2>4, <4>1, <4>2
      <3>4. QED
        BY <3>2, <3>3
    <2> HIDE DEF g
    <2>7. SumsUp(g, t)
      BY <2>2, <2>5, <2>6 DEF SumsUp
    <2>8. QED
      BY <2>2, <2>7 DEF t
  <1> HIDE DEF G
  <1>3. Seq(B) \subseteq G
    BY <1>1, <1>2, SeqInSet
  <1>4. QED
    BY <1>3 DEF G

(* The function by which Sizes is defined is such a sum.                   *)
LEMMA SizesSumUp ==
  ASSUME NEW B, \A b \in B : b.size \in Nat, NEW s \in Seq(B)
  PROVE  \E f : SumsUp(f, s) /\ Sizes(s) = f[Len(s)]
  <1> DEFINE Is(f) == f = [n \in 0 .. Len(s) |-> IF n = 0 THEN 0 ELSE f[n - 1] + s[n].size]
             h == CHOOSE f : Is(f)
             m == Len(s)
  <1>1. PICK f : SumsUp(f, s)
    BY SumExists
  <1>2. f = [n \in 0 .. Len(s) |-> f[n]]
    BY <1>1 DEF SumsUp
  <1>3. Is(f)
    <2>1. \A n \in 0 .. Len(s) : f[n] = IF n = 0 THEN 0 ELSE f[n - 1] + s[n].size
      BY <1>1 DEF SumsUp
    <2>2. QED
      BY <1>2, <2>1
  <1>4. Is(h)
    <2> HIDE DEF Is
    <2>1. QED
      BY <1>3
  <1>5. Sizes(s) = h[Len(s)]
    BY DEF Sizes
  <1>6. m \in Nat /\ \A n \in 1 .. m : s[n].size \in Nat
    OBVIOUS
  <1>7. /\ h = [n \in 0 .. m |-> h[n]] /\ h[0] = 0
        /\ \A n \in 1 .. m : h[n] = h[n - 1] + s[n].size
    <2>1. h = [n \in 0 .. m |-> IF n = 0 THEN 0 ELSE h[n - 1] + s[n].size]
      BY <1>4
    <2> HIDE DEF h, m
    <2>2. h = [n \in 0 .. m |-> h[n]]
      BY <2>1
    <2>3. 0 \in 0 .. m /\ \A n \in 1 .. m : n \in 0 .. m /\ n # 0
      BY <1>6
    <2>4. \A n \in 0 .. m : h[n] = IF n = 0 THEN 0 ELSE h[n - 1] + s[n].size
      BY <2>1
    <2>5. QED
      BY <2>2, <2>3, <2>4
  <1> HIDE DEF h, m
  <1> DEFINE N == {n \in Nat : n <= m => h[n] \in Nat}
  <1>8. 0 \in N
    BY <1>7
  <1>9. ASSUME NEW n \in Nat, n \in N PROVE n + 1 \in N
    <2>1. CASE n + 1 <= m
      <3>1. n + 1 \in 1 .. m /\ (n + 1) - 1 = n /\ n <= m
        BY <1>6, <2>1
      <3>2. h[n + 1] = h[n] + s[n + 1].size
        BY <1>7, <3>1
      <3>3. QED
        BY <1>6, <1>9, <3>1, <3>2
    <2>2. QED
      BY <2>1
  <1>10. \A n \in 0 .. m : h[n] \in Nat
    <2> HIDE DEF N
    <2>1. Nat \subseteq N
      BY <1>8, <1>9, NatInSet
    <2>2. QED
      BY <1>6, <2>1 DEF N
  <1>11. h \in [0 .. m -> Nat]
    BY <1>7, <1>10
  <1>12. SumsUp(h, s)
    BY <1>7, <1>11 DEF SumsUp, m
  <1>13. QED
    BY <1>5, <1>12

(* A part of a sequence adds the same to both sums.                        *)
PartAt(s, t, i, f, g) ==
  /\ SumsUp(f, s) /\ SumsUp(g, t)
  /\ i \in Nat /\ Len(s) \in Nat /\ Len(t) \in Nat /\ i + Len(t) <= Len(s)
  /\ \A n \in 1 .. Len(t) : t[n] = s[i + n] /\ s[i + n].size \in Nat

LEMMA SumOfPart ==
  ASSUME NEW s, NEW t, NEW f, NEW g, NEW i, PartAt(s, t, i, f, g)
  PROVE  f[i + Len(t)] = f[i] + g[Len(t)]
  <1> DEFINE m == Len(t)
             N == {n \in Nat : n <= m => f[i + n] = f[i] + g[n]}
  <1> USE DEF PartAt
  <1>1. /\ f \in [0 .. Len(s) -> Nat] /\ \A n \in 1 .. Len(s) : f[n] = f[n - 1] + s[n].size
        /\ g \in [0 .. m -> Nat] /\ g[0] = 0
        /\ \A n \in 1 .. m : g[n] = g[n - 1] + t[n].size
    BY DEF SumsUp
  <1>2. 0 \in N
    <2>1. i \in 0 .. Len(s) /\ i + 0 = i
      OBVIOUS
    <2>2. f[i] \in Nat
      BY <1>1, <2>1
    <2>3. QED
      BY <1>1, <2>1, <2>2
  <1>3. ASSUME NEW n \in Nat, n \in N PROVE n + 1 \in N
    <2>1. CASE n + 1 <= m
      <3>1. /\ n + 1 \in 1 .. m /\ i + (n + 1) \in 1 .. Len(s) /\ n <= m
            /\ (n + 1) - 1 = n /\ (i + (n + 1)) - 1 = i + n
            /\ i + n \in 0 .. Len(s) /\ n \in 0 .. m /\ i \in 0 .. Len(s)
        BY <2>1
      <3>2. f[i + (n + 1)] = f[i + n] + s[i + (n + 1)].size
        BY <1>1, <3>1
      <3>3. g[n + 1] = g[n] + t[n + 1].size
        BY <1>1, <3>1
      <3>4. t[n + 1] = s[i + (n + 1)] /\ s[i + (n + 1)].size \in Nat
        BY <3>1
      <3>5. f[i + n] = f[i] + g[n] /\ f[i] \in Nat /\ g[n] \in Nat
        BY <1>1, <1>3, <3>1
      <3>6. QED
        BY <3>2, <3>3, <3>4, <3>5, SMTT(30)
    <2>2. QED
      BY <2>1
  <1> HIDE DEF N
  <1>4. Nat \subseteq N
    BY <1>2, <1>3, NatInSet
  <1>5. QED
    BY <1>4 DEF N

LEMMA SizesAdd ==
  ASSUME NEW B, \A b \in B : b.size \in Nat, NEW s \in Seq(B)
  PROVE  /\ Sizes(s) \in Nat
         /\ s = << >> => Sizes(s) = 0
         /\ \A x \in B : Sizes(Append(s, x)) = Sizes(s) + x.size
         /\ \A k \in 0 .. Len(s) :
              /\ Sizes(SubSeq(s, 1, k)) \in Nat /\ Sizes(SubSeq(s, k + 1, Len(s))) \in Nat
              /\ Sizes(s) = Sizes(SubSeq(s, 1, k)) + Sizes(SubSeq(s, k + 1, Len(s)))
  <1>1. PICK f : SumsUp(f, s) /\ Sizes(s) = f[Len(s)]
    BY SizesSumUp
  <1>2. f \in [0 .. Len(s) -> Nat] /\ f[0] = 0 /\ Len(s) \in Nat
    BY <1>1 DEF SumsUp
  <1>3. Sizes(s) \in Nat /\ (s = << >> => Sizes(s) = 0)
    BY <1>1, <1>2
  <1>4. ASSUME NEW x \in B
        PROVE  Sizes(Append(s, x)) = Sizes(s) + x.size
    <2> DEFINE t == Append(s, x)
    <2>1. /\ t \in Seq(B) /\ Len(t) = Len(s) + 1 /\ t[Len(s) + 1] = x
          /\ \A n \in 1 .. Len(s) : t[n] = s[n] /\ s[n].size \in Nat
      OBVIOUS
    <2> HIDE DEF t
    <2>2. PICK g : SumsUp(g, t) /\ Sizes(t) = g[Len(t)]
      BY <2>1, SizesSumUp
    <2>3. PartAt(t, s, 0, g, f)
      BY <1>1, <1>2, <2>1, <2>2 DEF PartAt
    <2>4. g[0 + Len(s)] = g[0] + f[Len(s)]
      BY <2>3, SumOfPart
    <2>5. g[Len(s) + 1] = g[Len(s)] + t[Len(s) + 1].size /\ g[0] = 0
      BY <1>2, <2>1, <2>2, SMTT(30) DEF SumsUp
    <2>6. 0 + Len(s) = Len(s) /\ f[Len(s)] \in Nat
      BY <1>2
    <2>7. QED
      BY <1>1, <2>1, <2>2, <2>4, <2>5, <2>6 DEF t
  <1>5. ASSUME NEW k \in 0 .. Len(s)
        PROVE  /\ Sizes(SubSeq(s, 1, k)) \in Nat /\ Sizes(SubSeq(s, k + 1, Len(s))) \in Nat
               /\ Sizes(s) = Sizes(SubSeq(s, 1, k)) + Sizes(SubSeq(s, k + 1, Len(s)))
    <2> DEFINE u == SubSeq(s, 1, k)
               v == SubSeq(s, k + 1, Len(s))
    <2>1. /\ u \in Seq(B) /\ Len(u) = k /\ k \in Nat
          /\ \A n \in 1 .. k : u[n] = s[0 + n] /\ s[0 + n].size \in Nat
      BY <1>2
    <2>2. /\ v \in Seq(B) /\ Len(v) = Len(s) - k /\ Len(v) \in Nat
          /\ \A n \in 1 .. Len(s) - k : v[n] = s[k + n] /\ s[k + n].size \in Nat
      <3>1. k + 1 \in Int /\ Len(s) \in Int /\ \A i \in k + 1 .. Len(s) : s[i] \in B
        BY <1>2
      <3>2. v \in Seq(B) /\ Len(v) = IF k + 1 <= Len(s) THEN Len(s) - (k + 1) + 1 ELSE 0
        BY <3>1, SubSeqProperties
      <3>3. Len(v) = Len(s) - k /\ Len(s) - k \in Nat
        BY <1>2, <3>2
      <3>4. ASSUME NEW n \in 1 .. Len(s) - k PROVE v[n] = s[k + n] /\ s[k + n].size \in Nat
        BY <1>2, <3>4
      <3>5. QED
        BY <3>2, <3>3, <3>4
    <2> HIDE DEF u, v
    <2>3. PICK g : SumsUp(g, u) /\ Sizes(u) = g[Len(u)]
      BY <2>1, SizesSumUp
    <2>4. PICK h : SumsUp(h, v) /\ Sizes(v) = h[Len(v)]
      BY <2>2, SizesSumUp
    <2>5. f[0 + k] = f[0] + g[k]
      <3>1. PartAt(s, u, 0, f, g)
        BY <1>1, <1>2, <2>1, <2>3 DEF PartAt
      <3>2. f[0 + Len(u)] = f[0] + g[Len(u)]
        BY <3>1, SumOfPart
      <3>3. QED
        BY <2>1, <3>2
    <2>6. f[k + Len(v)] = f[k] + h[Len(v)]
      <3>1. PartAt(s, v, k, f, h)
        BY <1>1, <1>2, <2>1, <2>2, <2>4 DEF PartAt
      <3>2. QED
        BY <3>1, SumOfPart
    <2>7. k + Len(v) = Len(s) /\ 0 + k = k
      BY <1>2, <2>1, <2>2
    <2>8. g[k] \in Nat /\ h[Len(v)] \in Nat
      <3>1. g \in [0 .. Len(u) -> Nat] /\ Len(u) \in 0 .. Len(u)
        BY <2>1, <2>3 DEF SumsUp
      <3>2. h \in [0 .. Len(v) -> Nat] /\ Len(v) \in 0 .. Len(v)
        BY <2>2, <2>4 DEF SumsUp
      <3>3. QED
        BY <2>1, <3>1, <3>2
    <2>9. QED
      BY <1>1, <1>2, <2>1, <2>3, <2>4, <2>5, <2>6, <2>7, <2>8 DEF u, v
  <1>6. QED
    BY <1>3, <1>4, <1>5

-----------------------------------------------------------------------------
(* The size of the GRIB2 cache.                                            *)

TotalInv == total = Sizes(cache) /\ total <= MaxCache

LEMMA TotalStays ==
  ASSUME LayoutAssumption, CacheAssumption, SetsInv, ReqInv, BlocksInv, TotalInv, [Next]_vars
  PROVE  TotalInv'
  <1>1. CASE UNCHANGED <<cache, total>>
    BY <1>1 DEF TotalInv, Sizes
  <1>2. /\ cache \in Seq(TrueBlocks) /\ \A b \in TrueBlocks : b.size \in Nat
    BY DEF BlocksInv, TrueBlocks, Blocks
  <1>3. CASE Flush
    <2>1. cache' = << >> /\ total' = 0
      BY <1>3 DEF Flush
    <2>2. Sizes(<< >>) = 0
      <3>1. << >> \in Seq(TrueBlocks)
        OBVIOUS
      <3>2. QED
        BY <1>2, <3>1, SizesAdd
    <2>3. TotalInv' <=> total' = Sizes(cache') /\ total' <= MaxCache
      BY DEF TotalInv, Sizes
    <2>4. QED
      BY <2>1, <2>2, <2>3, CacheAssumption
  <1>4. CASE ReadGrib2
    <2> DEFINE size == Lay(File).size
               k == Min(ForRoom(size))
               b == Block(File, T, E, Indexed(File, T, E))
               n == Len(cache)
               rest == SubSeq(cache, k + 1, n)
    <2>1. /\ pc = "read" /\ ForRoom(size) # {}
          /\ cache' = Append(rest, b) /\ total' = Left(k) + size
      BY <1>4 DEF ReadGrib2, Reads
    <2>2. size \in Nat
      <3>1. LayoutOK(Lay(File))
        BY <2>1, NextRow
      <3>2. QED
        BY <3>1 DEF LayoutOK
    <2>3. b.size = size
      BY DEF Block
    <2>4. k \in 0 .. n /\ Left(k) + size <= MaxCache
      <3>1. ForRoom(size) \subseteq 0 .. n /\ n \in Nat
        BY <1>2 DEF ForRoom
      <3>2. ForRoom(size) \in SUBSET Nat
        BY <3>1
      <3>3. k \in ForRoom(size)
        BY <2>1, <3>2, LeastIs
      <3>4. QED
        BY <3>1, <3>3 DEF ForRoom
    <2> HIDE DEF k, b, size
    <2>5. /\ Sizes(SubSeq(cache, 1, k)) \in Nat /\ Sizes(rest) \in Nat
          /\ Sizes(cache) = Sizes(SubSeq(cache, 1, k)) + Sizes(rest)
          /\ Sizes(cache) \in Nat
      BY <1>2, <2>4, SizesAdd
    <2>6. Left(k) = Sizes(rest)
      <3>1. CASE k = n
        <4>1. rest = << >> /\ << >> \in Seq(TrueBlocks)
          BY <1>2, <3>1
        <4>2. Sizes(<< >>) = 0
          BY <1>2, <4>1, SizesAdd
        <4>3. QED
          BY <3>1, <4>1, <4>2 DEF Left
      <3>2. CASE k # n
        BY <2>5, <3>2 DEF Left, TotalInv
      <3>3. QED
        BY <3>1, <3>2
    <2>7. rest \in Seq(Blocks) /\ b \in Blocks \cup {b} /\ rest \in Seq(TrueBlocks \cup {b})
      <3>1. k + 1 \in Int /\ n \in Int /\ \A i \in k + 1 .. n : cache[i] \in TrueBlocks
        BY <1>2, <2>4
      <3>2. rest \in Seq(TrueBlocks)
        BY <3>1, SubSeqProperties
      <3>3. QED
        BY <3>2 DEF TrueBlocks
    <2>8. \A x \in TrueBlocks \cup {b} : x.size \in Nat
      BY <1>2, <2>2, <2>3
    <2>9. Sizes(Append(rest, b)) = Sizes(rest) + size
      <3> DEFINE B == TrueBlocks \cup {b}
      <3>1. b \in B
        OBVIOUS
      <3> HIDE DEF B, rest
      <3>2. rest \in Seq(B) /\ \A x \in B : x.size \in Nat
        BY <2>7, <2>8 DEF B
      <3>3. Sizes(Append(rest, b)) = Sizes(rest) + b.size
        BY <3>1, <3>2, SizesAdd
      <3>4. QED
        BY <2>3, <3>3
    <2>10. TotalInv' <=> total' = Sizes(cache') /\ total' <= MaxCache
      BY DEF TotalInv, Sizes
    <2>11. QED
      BY <2>1, <2>4, <2>6, <2>9, <2>10
  <1>5. CASE UNCHANGED vars \/ \E d \in Slot : \/ AskGrid(d) \/ AskStations(d)
                                               \/ Close(d) \/ RemoveFile(d)
    BY <1>1, <1>5 DEF vars, AskGrid, AskStations, Close, RemoveFile, gridvars
  <1>6. CASE \E d \in Slot, k \in DOMAIN Layout : Open(d, k)
    BY <1>1, <1>6 DEF Open, gridvars
  <1>7. CASE RowFile \/ StnFile
    BY <1>1, <1>7 DEF RowFile, StnFile
  <1>8. CASE ReadPlain \/ ReadGrib1 \/ ReadFails \/ ReadUndefined \/ ReadUnindexed
               \/ ReadCached \/ ReadTooLarge \/ RowOutside \/ Finish
    BY <1>1, <1>8 DEF ReadPlain, ReadGrib1, ReadFails, ReadUndefined, ReadUnindexed,
                      ReadCached, ReadTooLarge, RowOutside, Finish
  <1>9. CASE StnCached \/ StnRead \/ StnReadFails \/ StnCachedFails \/ StnUndefined \/ StnFinish
    BY <1>1, <1>9 DEF StnCached, StnRead, StnReadFails, StnCachedFails, StnUndefined, StnFinish
  <1>10. QED
    BY <1>3, <1>4, <1>5, <1>6, <1>7, <1>8, <1>9 DEF Next, GridStep, StnStep

LEMMA InitTotal ==
  ASSUME CacheAssumption, Init
  PROVE  TotalInv
  <1>1. cache = << >> /\ total = 0
    BY DEF Init, GridInit
  <1>2. Sizes(<< >>) = 0
    <2>1. << >> \in Seq(Blocks) /\ \A b \in Blocks : b.size \in Nat
      BY DEF Blocks
    <2>2. QED
      BY <2>1, SizesAdd
  <1>3. QED
    BY <1>1, <1>2, CacheAssumption DEF TotalInv

LEMMA RowsAlways == Spec => []RowsInv
  <1>1. Init => RowsInv
    BY LayoutAssumption, InitRows
  <1>2. SetsInv /\ ReqInv /\ RowsInv /\ [Next]_vars => RowsInv'
    BY LayoutAssumption, FitsStays, HereStays, BitMapStays, BlocksStay, RowStays DEF RowsInv
  <1>3. QED
    BY <1>1, <1>2, ReadAlways, PTL DEF Spec

(* The GRIB2 cache keeps to its limit, its size is what is counted         *)
(* (anchor->total), however many of the oldest blocks g2read releases, and *)
(* no open data set finds another's grid in it: CacheIsTrue.               *)
THEOREM CacheAlwaysTrue == Spec => []CacheIsTrue
  <1>1. Init => TotalInv
    BY CacheAssumption, InitTotal
  <1>2. SetsInv /\ ReqInv /\ RowsInv /\ TotalInv /\ [Next]_vars => TotalInv'
    BY LayoutAssumption, CacheAssumption, TotalStays DEF RowsInv
  <1>3. RowsInv /\ TotalInv => CacheIsTrue
    <2>1. SUFFICES ASSUME RowsInv, TotalInv PROVE CacheIsTrue
      OBVIOUS
    <2>2. cache \in Seq(TrueBlocks)
      BY <2>1 DEF RowsInv, BlocksInv
    <2>3. \A i \in 1 .. Len(cache) : cache[i] \in TrueBlocks
      BY <2>2
    <2>4. QED
      BY <2>1, <2>3 DEF CacheIsTrue, TotalInv, TrueBlocks, BlockTrue
  <1>4. QED
    BY <1>1, <1>2, <1>3, ReadAlways, RowsAlways, PTL DEF Spec

-----------------------------------------------------------------------------
(* Types and counts.                                                       *)

(* A buffer that may be used holds a whole request, so within its size.    *)
CountInv ==
  /\ scpnt \in 0 .. SCNUM /\ Len(scbuf) <= SCNUM
  /\ scuca \in BOOLEAN /\ scok \in BOOLEAN /\ ~(scuca /\ scok)
  /\ scflg => 1 + scstn.tmax - scstn.tmin <= SCNUM
  /\ pc = "idle" => req = NoReq

LEMMA WrittenCounts ==
  ASSUME StationAssumption, NEW r, Written(r), scbuf \in Seq(StnReports),
         scpnt \in 0 .. SCNUM, Len(scbuf) <= SCNUM, scpnt < SCNUM
  PROVE  scpnt' \in 0 .. SCNUM /\ Len(scbuf') <= SCNUM
  <1>1. SCNUM \in Nat /\ Len(scbuf) \in Nat
    BY DEF StationAssumption
  <1>2. /\ scbuf' = IF scpnt < Len(scbuf) THEN [scbuf EXCEPT ![scpnt + 1] = r]
                    ELSE Append(scbuf, r)
        /\ scpnt' = scpnt + 1
    BY DEF Written
  <1>3. CASE scpnt < Len(scbuf)
    <2>1. scbuf' = [scbuf EXCEPT ![scpnt + 1] = r]
      BY <1>2, <1>3
    <2>2. Len(scbuf') = Len(scbuf)
      <3>1. scbuf \in Seq(StnReports \cup {r})
        OBVIOUS
      <3>2. QED
        BY <2>1, <3>1
    <2>3. QED
      BY <1>1, <1>2, <2>2
  <1>4. CASE ~(scpnt < Len(scbuf))
    <2>1. scbuf' = Append(scbuf, r) /\ Len(scbuf) <= scpnt
      BY <1>1, <1>2, <1>4
    <2>2. Len(scbuf') = Len(scbuf) + 1
      <3>1. scbuf \in Seq(StnReports \cup {r})
        OBVIOUS
      <3>2. QED
        BY <2>1, <3>1
    <2>3. QED
      BY <1>1, <1>2, <2>1, <2>2
  <1>5. QED
    BY <1>3, <1>4

LEMMA PartCounts ==
  ASSUME StationAssumption, MaybePart, scbuf \in Seq(StnReports),
         scpnt \in 0 .. SCNUM, Len(scbuf) <= SCNUM
  PROVE  scpnt' \in 0 .. SCNUM /\ Len(scbuf') <= SCNUM
  <1>1. CASE UNCHANGED <<scbuf, scpnt>>
    BY <1>1
  <1>2. CASE scpnt < SCNUM /\ Written(Partly)
    BY <1>2, WrittenCounts
  <1>3. QED
    BY <1>1, <1>2 DEF MaybePart

LEMMA GacstnCounts ==
  ASSUME StationAssumption, NEW r, Gacstn(r), scbuf \in Seq(StnReports),
         scpnt \in 0 .. SCNUM, Len(scbuf) <= SCNUM, scok \in BOOLEAN
  PROVE  /\ scpnt' \in 0 .. SCNUM /\ Len(scbuf') <= SCNUM /\ scok' \in BOOLEAN
         /\ scok' => scok
  <1>1. CASE scok /\ scpnt < SCNUM /\ Written(r) /\ UNCHANGED scok
    BY <1>1, WrittenCounts
  <1>2. CASE scok' = FALSE /\ MaybePart
    BY <1>2, PartCounts
  <1>3. QED
    BY <1>1, <1>2 DEF Gacstn

(* Of the rows of a request, the next one is still within it.              *)
LEMMA CountStays ==
  ASSUME LayoutAssumption, StationAssumption, SetsInv, ReqInv, StnInv, CountInv, [Next]_vars
  PROVE  CountInv'
  <1>1. /\ scpnt \in 0 .. SCNUM /\ Len(scbuf) <= SCNUM
        /\ scuca \in BOOLEAN /\ scok \in BOOLEAN /\ ~(scuca /\ scok)
        /\ scflg => 1 + scstn.tmax - scstn.tmin <= SCNUM
        /\ pc = "idle" => req = NoReq
        /\ SCNUM \in Nat
    BY DEF CountInv, StationAssumption
  <1>2. CASE UNCHANGED stnvars /\ (pc' = "idle" => req' = NoReq)
    BY <1>1, <1>2 DEF CountInv, stnvars
  <1>3. scbuf \in Seq(StnReports)
    BY DEF StnInv, BufInv
  <1>4. CASE \E d \in Slot : AskStations(d)
    <2>1. PICK d \in Slot : AskStations(d)
      BY <1>4
    <2>2. /\ pc' = "row" /\ scuca' = CanUse(stn') /\ scok' = ~scuca' /\ scpnt' = 0
          /\ UNCHANGED <<scflg, scstn, scbuf>>
      BY <2>1 DEF AskStations, cachevars
    <2>3. scuca' \in BOOLEAN
      BY <2>2 DEF CanUse
    <2>4. QED
      BY <1>1, <2>2, <2>3 DEF CountInv
  <1>5. CASE StnCached
    <2>1. /\ pc = "row" /\ scuca /\ Asking /\ scpnt' = scpnt + 1
          /\ UNCHANGED <<scuca, scok, scflg, scstn, scbuf>>
          /\ pc' = IF Len(req.rows) = 1 THEN "done" ELSE "row"
      BY <1>5 DEF StnCached, StnRow, Asking, Chained, cachevars
    <2>2. /\ Asked \in Nat /\ Asked + 1 <= 1 + stn.tmax - stn.tmin
          /\ scpnt = Asked /\ scflg /\ scstn = stn
      BY <2>1, RowTime DEF StnInv, AskBuf
    <2>3. stn.tmax \in Nat /\ stn.tmin \in Nat
      BY <2>1 DEF StnInv, AskRows, Stations
    <2>4. scpnt' \in 0 .. SCNUM
      BY <1>1, <2>1, <2>2, <2>3
    <2>5. QED
      BY <1>1, <2>1, <2>4 DEF CountInv
  <1>6. CASE StnFile
    <2>1. /\ UNCHANGED <<scflg, scuca, scstn>> /\ ~scuca
          /\ \/ (\E r : Gacstn(r)) /\ pc' \in {"row", "done"}
             \/ UNCHANGED <<scbuf, scpnt, scok>> /\ (pc' = "idle" => req' = NoReq)
      BY <1>6 DEF StnFile, Chained, StnFails
    <2>2. CASE UNCHANGED <<scbuf, scpnt, scok>> /\ (pc' = "idle" => req' = NoReq)
      BY <1>1, <2>1, <2>2 DEF CountInv
    <2>3. CASE (\E r : Gacstn(r)) /\ pc' \in {"row", "done"}
      <3>1. PICK r : Gacstn(r)
        BY <2>3
      <3>2. /\ scpnt' \in 0 .. SCNUM /\ Len(scbuf') <= SCNUM /\ scok' \in BOOLEAN
        BY <1>1, <1>3, <3>1, GacstnCounts, StationAssumption
      <3>3. QED
        BY <1>1, <2>1, <2>3, <3>2 DEF CountInv
    <2>4. QED
      BY <2>1, <2>2, <2>3
  <1>7. CASE StnRead
    <2>1. /\ pc = "read" /\ Asking /\ UNCHANGED <<scflg, scuca, scstn>>
          /\ \E r : Gacstn(r)
          /\ pc' \in {"row", "done"}
      BY <1>7 DEF StnRead, Reads, Asking, Chained
    <2>2. ~scuca
      BY <2>1 DEF StnInv, AskBuf
    <2>3. PICK r : Gacstn(r)
      BY <2>1
    <2>4. /\ scpnt' \in 0 .. SCNUM /\ Len(scbuf') <= SCNUM /\ scok' \in BOOLEAN
      BY <1>1, <1>3, <2>3, GacstnCounts, StationAssumption
    <2>5. QED
      BY <1>1, <2>1, <2>2, <2>4 DEF CountInv
  <1>8. CASE StnReadFails \/ StnCachedFails \/ StnUndefined
    <2>1. /\ UNCHANGED <<scflg, scuca, scok, scstn>> /\ (pc' = "idle" => req' = NoReq)
          /\ UNCHANGED <<scpnt, scbuf>> \/ MaybePart
      BY <1>8 DEF StnReadFails, StnCachedFails, StnFails, StnUndefined, stnvars
    <2>2. scpnt' \in 0 .. SCNUM /\ Len(scbuf') <= SCNUM
      BY <1>1, <1>3, <2>1, PartCounts, StationAssumption
    <2>3. QED
      BY <1>1, <2>1, <2>2 DEF CountInv
  <1>9. CASE StnFinish
    <2>1. /\ pc = "done" /\ Asking /\ scflg' = Flag
          /\ IF Flag /\ ~scuca THEN scstn' = stn ELSE UNCHANGED scstn
          /\ req' = NoReq /\ UNCHANGED <<scuca, scok, scpnt, scbuf>>
      BY <1>9 DEF StnFinish, Asking
    <2>2. CASE scok
      <3>1. ~scuca /\ scflg' /\ scstn' = stn /\ scpnt = Asked
        BY <1>1, <2>1, <2>2 DEF Flag, StnInv, AskBuf
      <3>2. Asked = 1 + stn.tmax - stn.tmin
        <4>1. /\ req.rows = << >> /\ Len(<< >>) = 0 /\ stn.tmax \in Nat /\ stn.tmin \in Nat
          BY <2>1 DEF StnInv, AskRows, Stations
        <4>2. QED
          BY <4>1 DEF Asked
      <3>3. QED
        BY <1>1, <2>1, <3>1, <3>2 DEF CountInv
    <2>3. CASE ~scok /\ scuca
      <3>1. scflg /\ UNCHANGED scstn
        BY <2>1, <2>3 DEF StnInv, AskBuf
      <3>2. QED
        BY <1>1, <2>1, <3>1 DEF CountInv
    <2>4. CASE ~scok /\ ~scuca
      <3>1. scflg' = FALSE /\ UNCHANGED scstn
        BY <2>1, <2>4 DEF Flag
      <3>2. QED
        BY <1>1, <2>1, <3>1 DEF CountInv
    <2>5. QED
      BY <2>2, <2>3, <2>4
  <1>10. CASE GridStep /\ UNCHANGED stnvars
    <2>1. CASE \E d \in Slot : AskGrid(d)
      BY <1>2, <1>10, <2>1 DEF AskGrid
    <2>2. CASE (\E d \in Slot : Close(d) \/ RemoveFile(d))
                 \/ (\E d \in Slot, k \in DOMAIN Layout : Open(d, k)) \/ Flush
      BY <1>1, <1>2, <1>10, <2>2 DEF Close, RemoveFile, Open, Flush, gridvars
    <2>3. CASE Finish
      BY <1>2, <1>10, <2>3 DEF Finish
    <2>4. CASE \/ ReadPlain \/ ReadGrib1 \/ ReadFails \/ ReadUndefined \/ ReadUnindexed
               \/ ReadCached \/ ReadGrib2 \/ ReadTooLarge \/ RowOutside \/ RowFile
      <3>1. pc' # "idle"
        BY <2>4 DEF ReadPlain, ReadGrib1, ReadFails, ReadUndefined, ReadUnindexed, ReadCached,
                    ReadGrib2, ReadTooLarge, RowOutside, RowFile, Filled, Fails, GridRow, Reads
      <3>2. QED
        BY <1>2, <1>10, <3>1
    <2>5. QED
      BY <1>10, <2>1, <2>2, <2>3, <2>4 DEF GridStep
  <1>11. CASE UNCHANGED vars
    BY <1>1, <1>2, <1>11 DEF vars, gridvars
  <1>12. QED
    BY <1>4, <1>5, <1>6, <1>7, <1>8, <1>9, <1>10, <1>11 DEF Next, StnStep

(* Types, and what the data of a request are between two steps: an idle    *)
(* reader has none, one at work has rows left of an open data set, and the *)
(* buffer of stations is never written or read past its size (SCNUM),      *)
(* whatever requests it was filled and kept for (gagstn, gacstn, gagcst):  *)
(* TypeOK.                                                                 *)
THEOREM ReadTypeCorrect == Spec => []TypeOK
  <1>1. Init => RowsInv /\ StnInv /\ TotalInv
    BY LayoutAssumption, CacheAssumption, InitRows, InitStn, InitTotal
  <1>2. Init => CountInv
    <2>1. SUFFICES ASSUME Init PROVE CountInv
      OBVIOUS
    <2>2. scpnt = 0 /\ scbuf = << >> /\ scuca = FALSE /\ scok = FALSE /\ scflg = FALSE /\ req = NoReq
      BY <2>1 DEF Init, GridInit
    <2>3. Len(scbuf) = 0 /\ SCNUM \in Nat
      BY <2>2, StationAssumption DEF StationAssumption
    <2>4. scpnt \in 0 .. SCNUM /\ Len(scbuf) <= SCNUM
      BY <2>2, <2>3
    <2>5. scuca \in BOOLEAN /\ scok \in BOOLEAN /\ ~(scuca /\ scok)
      BY <2>2
    <2>6. QED
      BY <2>2, <2>4, <2>5, Zenon DEF CountInv
  <1>3. SetsInv /\ ReqInv /\ RowsInv /\ StnInv /\ [Next]_vars => StnInv'
    BY LayoutAssumption, StnStays DEF RowsInv
  <1>4. SetsInv /\ ReqInv /\ RowsInv /\ TotalInv /\ [Next]_vars => TotalInv'
    BY LayoutAssumption, CacheAssumption, TotalStays DEF RowsInv
  <1>5. SetsInv /\ ReqInv /\ StnInv /\ CountInv /\ [Next]_vars => CountInv'
    BY LayoutAssumption, StationAssumption, CountStays
  <1>6. SetsInv /\ ReqInv /\ RowsInv /\ TotalInv /\ CountInv => TypeOK
    <2>1. SUFFICES ASSUME SetsInv, ReqInv, RowsInv, TotalInv, CountInv PROVE TypeOK
      OBVIOUS
    <2>2. \A d \in Slot : ds[d].lay \in 0 .. Len(Layout)
      BY <2>1 DEF SetsInv, Sets
    <2>3. handles \in Nat
      <3>1. IsFiniteSet({d \in Slot : Holds(ds[d]) = 1})
        BY LayoutAssumption, FS_Subset DEF LayoutAssumption
      <3>2. QED
        BY <2>1, <3>1, FS_CardinalityType DEF SetsInv, OneFileOpen
    <2>4. total \in Nat
      <3>1. cache \in Seq(TrueBlocks) /\ \A b \in TrueBlocks : b.size \in Nat
        BY <2>1 DEF RowsInv, BlocksInv, TrueBlocks, Blocks
      <3>2. QED
        BY <2>1, <3>1, SizesAdd DEF TotalInv
    <2>5. pc = "idle" <=> req = NoReq
      BY <2>1, SlotAssumption DEF ReqInv, CountInv, NoReq, SlotAssumption
    <2>6. QED
      BY <2>1, <2>2, <2>3, <2>4, <2>5 DEF TypeOK, CountInv, ReqInv
  <1>7. QED
    BY <1>1, <1>2, <1>3, <1>4, <1>5, <1>6, ReadAlways, RowsAlways, PTL DEF Spec
=============================================================================
