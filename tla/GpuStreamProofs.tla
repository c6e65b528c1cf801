-------------------------- MODULE GpuStreamProofs --------------------------
(***************************************************************************)
(* Theorems about GpuStream, for every number of pixmaps, bos, rectangles  *)
(* and batches. The functions of the model change worlds; the invariant is *)
(* stated of a world, so that each function has one lemma that it keeps it *)
(* and each action cites the lemmas of the functions that it calls.        *)
(***************************************************************************)
EXTENDS GpuStream, SequenceTheorems, WellFoundedInduction, TLAPS

\* The environments in which the properties hold.
NoFill == "fill" \notin Env
Plain == Env = {}

-----------------------------------------------------------------------------
(* The least and the greatest of a set of positions                        *)

LEMMA LeastOf ==
  ASSUME NEW S, S \subseteq Nat, S # {}
  PROVE  Min(S) \in S /\ \A y \in S : Min(S) <= y
<1> DEFINE R == {ss \in Nat \X Nat : ss[1] < ss[2]}
<1>1. IsWellFoundedOn(R, Nat)
  BY NatLessThanWellFounded DEF OpToRel
<1>2. PICK x \in S : \A y \in S : ~(<<y, x>> \in R)
  <2> HIDE DEF R
  <2> QED BY <1>1, WFMin
<1>3. ASSUME NEW y \in S
      PROVE  x <= y
  <2>1. x \in Nat /\ y \in Nat /\ ~(<<y, x>> \in R)
    BY <1>2
  <2> QED BY <2>1
<1>4. \E z \in S : \A y \in S : z <= y
  BY <1>3
<1> QED BY <1>4, Zenon DEF Min

LEMMA GreatestOf ==
  ASSUME NEW n \in Nat, NEW S, S \subseteq 1..n, S # {}
  PROVE  Max(S) \in S /\ \A y \in S : Max(S) >= y
<1> DEFINE T == {n - i : i \in S}
<1>1. T \subseteq Nat /\ T # {}
  OBVIOUS
<1>2. Min(T) \in T /\ \A y \in T : Min(T) <= y
  <2> HIDE DEF T
  <2> QED BY <1>1, LeastOf
<1>3. PICK x \in S : Min(T) = n - x
  BY <1>2
<1>4. ASSUME NEW y \in S
      PROVE  x >= y
  <2>1. n - x <= n - y /\ x \in 1..n /\ y \in 1..n
    BY <1>2, <1>3
  <2> QED BY <2>1
<1>5. \E z \in S : \A y \in S : z >= y
  BY <1>4
<1> QED BY <1>5, Zenon DEF Max

\* What is left of a sequence from a position on.
LEMMA RestOf ==
  ASSUME NEW S, NEW s \in Seq(S), NEW k \in 1..Len(s) + 1
  PROVE  /\ SubSeq(s, k, Len(s)) \in Seq(S)
         /\ \A i \in DOMAIN SubSeq(s, k, Len(s)) :
              \E j \in DOMAIN s : j >= k /\ SubSeq(s, k, Len(s))[i] = s[j]
<1>1. Len(s) \in Nat /\ DOMAIN s = 1..Len(s) /\ s \in [1..Len(s) -> S]
  OBVIOUS
<1> DEFINE r == SubSeq(s, k, Len(s))
<1>2. r = [i \in 1..Len(s) - k + 1 |-> s[i + k - 1]]
  <2>1. Len(s) - k + 1 >= 0
    BY <1>1
  <2> QED BY <1>1, <2>1, SMT
<1>3. \A i \in 1..Len(s) - k + 1 : i + k - 1 \in DOMAIN s /\ i + k - 1 >= k
  BY <1>1
<1>4. Len(s) - k + 1 \in Nat
  BY <1>1
<1>5. r \in [1..Len(s) - k + 1 -> S]
  BY <1>1, <1>2, <1>3
<1> QED BY <1>2, <1>3, <1>4, <1>5

-----------------------------------------------------------------------------
(* Worlds                                                                  *)

WorldType ==
  [pix : [Pixmap -> PixmapRec], stream : Batch, jobs : Seq(Batch), cache : Seq(Bo)]

\* What the GPU has still to run, or to be sent, in a world.
UndoneIn(g) == {g.stream} \cup {g.jobs[i] : i \in DOMAIN g.jobs}

\* A batch names what it reads as read, and what it writes as written.
Strict(batch) == batch.reads \subseteq batch.rd /\ batch.writes \subseteq batch.wr

\* A pixmap that lives has a bo, and that is no other pixmap's.
BosAreOwn(g) ==
  /\ \A p \in Pixmap : g.pix[p].live => g.pix[p].bo \in Bo
  /\ \A p, q \in Pixmap : p # q /\ g.pix[p].bo = g.pix[q].bo => g.pix[p].bo = NoBo

\* The CPU has pixmaps only with their use count down.
AccessedAreUnused(g) ==
  \A p \in Pixmap : g.pix[p].cpu # "no" => g.pix[p].refcnt <= 0

\* A pixmap with drawing left has a use count: PrepareAccess will wait.
DrawnAreUsed(g) ==
  \A p \in Pixmap, batch \in UndoneIn(g) :
    g.pix[p].bo \in batch.writes => g.pix[p].refcnt > 0

Good(g) ==
  /\ g \in WorldType
  /\ BosAreOwn(g)
  /\ AccessedAreUnused(g)
  /\ NoFill => \A batch \in UndoneIn(g) : Strict(batch)
  /\ Plain => DrawnAreUsed(g)

LEMMA PlainNoFill == Plain => NoFill
BY DEF Plain, NoFill

LEMMA EmptyIs ==
  /\ Empty \in Batch /\ Strict(Empty)
  /\ Empty.reads = {} /\ Empty.writes = {} /\ Named(Empty) = {}
BY DEF Empty, Batch, Strict, Named

LEMMA UndoneTypes ==
  ASSUME NEW g \in WorldType
  PROVE  /\ g.pix \in [Pixmap -> PixmapRec] /\ g.stream \in Batch
         /\ g.jobs \in Seq(Batch) /\ g.cache \in Seq(Bo)
         /\ UndoneIn(g) \subseteq Batch
<1>1. /\ g.pix \in [Pixmap -> PixmapRec] /\ g.stream \in Batch
      /\ g.jobs \in Seq(Batch) /\ g.cache \in Seq(Bo)
  BY DEF WorldType
<1> QED BY <1>1 DEF UndoneIn

\* h is a world that g may become by sending batches, by running them and by
\* freeing bos: no pixmap changes and no batch is new.
Less(g, h) ==
  /\ h \in WorldType
  /\ h.pix = g.pix
  /\ UndoneIn(h) \subseteq UndoneIn(g) \cup {Empty}

LEMMA LessIsGood ==
  ASSUME NEW g, Good(g), NEW h, Less(g, h)
  PROVE  Good(h)
<1>1. BosAreOwn(h) /\ AccessedAreUnused(h)
  BY DEF Good, Less, BosAreOwn, AccessedAreUnused
<1>2. NoFill => \A batch \in UndoneIn(h) : Strict(batch)
  BY EmptyIs DEF Good, Less
<1>3. Plain => DrawnAreUsed(h)
  BY EmptyIs DEF Good, Less, DrawnAreUsed
<1> QED BY <1>1, <1>2, <1>3 DEF Good, Less

LEMMA LessTrans ==
  ASSUME NEW g, NEW h, NEW k, Less(g, h), Less(h, k)
  PROVE  Less(g, k)
BY DEF Less

LEMMA LessSelf ==
  ASSUME NEW g \in WorldType
  PROVE  Less(g, g)
BY DEF Less

LEMMA SubmitLess ==
  ASSUME NEW g \in WorldType
  PROVE  Less(g, Submit(g)) /\ Submit(g).stream = Empty
<1> DEFINE h == Submit(g)
<1>1. /\ h.pix = g.pix /\ h.stream = Empty /\ h.cache = g.cache
      /\ h.jobs = Append(g.jobs, g.stream)
  BY DEF Submit, WorldType
<1>2. /\ g.jobs \in Seq(Batch) /\ g.stream \in Batch
  BY UndoneTypes
<1>3. h.jobs \in Seq(Batch)
  BY <1>1, <1>2, AppendProperties
<1>4. h \in WorldType
  BY <1>1, <1>3, EmptyIs DEF Submit, WorldType
<1>5. \A i \in DOMAIN h.jobs : h.jobs[i] \in UndoneIn(g)
  <2>1. /\ Len(g.jobs) \in Nat /\ DOMAIN g.jobs = 1..Len(g.jobs)
        /\ DOMAIN h.jobs = 1..Len(g.jobs) + 1
    BY <1>1, <1>2, LenProperties, AppendProperties
  <2>2. /\ \A i \in 1..Len(g.jobs) : h.jobs[i] = g.jobs[i]
        /\ h.jobs[Len(g.jobs) + 1] = g.stream
    BY <1>1, <1>2, AppendProperties
  <2>3. \A i \in DOMAIN h.jobs : i \in 1..Len(g.jobs) \/ i = Len(g.jobs) + 1
    BY <2>1
  <2> HIDE DEF h
  <2> QED BY <2>1, <2>2, <2>3 DEF UndoneIn
<1> HIDE DEF h
<1>6. UndoneIn(h) \subseteq UndoneIn(g) \cup {Empty}
  BY <1>1, <1>5 DEF UndoneIn
<1>7. Less(g, h) /\ h.stream = Empty
  BY <1>1, <1>4, <1>6 DEF Less
<1> QED BY <1>7 DEF h

LEMMA CommitLess ==
  ASSUME NEW g \in WorldType
  PROVE  Less(g, Commit(g)) /\ Commit(g).stream = Empty
BY SubmitLess, LessSelf DEF Commit, Pending

LEMMA ReserveLess ==
  ASSUME NEW g \in WorldType, NEW fill \in BOOLEAN
  PROVE  Less(g, Reserve(g, fill)) /\ (~fill => Reserve(g, fill) = g)
BY SubmitLess, LessSelf DEF Reserve

LEMMA CacheDelLess ==
  ASSUME NEW g \in WorldType, NEW b \in Bo
  PROVE  Less(g, CacheDel(g, b)) /\ CacheDel(g, b).stream = g.stream
<1> DEFINE h == CacheDel(g, b)
<1>1. /\ h.pix = g.pix /\ h.stream = g.stream /\ h.jobs = g.jobs
      /\ h.cache = Append(g.cache, b)
  BY DEF CacheDel, WorldType
<1>2. h.cache \in Seq(Bo)
  BY <1>1, UndoneTypes, AppendProperties
<1>3. h \in WorldType
  BY <1>1, <1>2, UndoneTypes DEF CacheDel, WorldType
<1> HIDE DEF h
<1>4. Less(g, h) /\ h.stream = g.stream
  BY <1>1, <1>3 DEF Less, UndoneIn
<1> QED BY <1>4 DEF h

LEMMA CacheLess ==
  ASSUME NEW g \in WorldType, NEW c \in Seq(Bo)
  PROVE  /\ Less(g, [g EXCEPT !.cache = c])
         /\ [g EXCEPT !.cache = c].stream = g.stream
         /\ [g EXCEPT !.cache = c].jobs = g.jobs
<1>1. PICK h : h = [g EXCEPT !.cache = c]
  OBVIOUS
<1>2. h \in WorldType /\ h.pix = g.pix /\ h.stream = g.stream /\ h.jobs = g.jobs
  BY <1>1 DEF WorldType
<1>3. Less(g, h)
  BY <1>2 DEF Less, UndoneIn
<1> QED BY <1>1, <1>2, <1>3

LEMMA CacheCleanLess ==
  ASSUME NEW g \in WorldType
  PROVE  /\ Less(g, CacheClean(g))
         /\ CacheClean(g).stream = g.stream /\ CacheClean(g).jobs = g.jobs
<1> DEFINE busy == {i \in DOMAIN g.cache : ~Ready(g, g.cache[i])}
<1>1. g.cache \in Seq(Bo) /\ Len(g.cache) \in Nat /\ DOMAIN g.cache = 1..Len(g.cache)
  BY UndoneTypes
<1>2. CacheClean(g) = [g EXCEPT !.cache = IF busy = {} THEN <<>>
                              ELSE SubSeq(@, Min(busy), Len(@))]
  BY DEF CacheClean
<1>3. CASE busy = {}
  <2>1. CacheClean(g) = [g EXCEPT !.cache = <<>>] /\ <<>> \in Seq(Bo)
    BY <1>2, <1>3
  <2> QED BY <2>1, CacheLess
<1>4. CASE busy # {}
  <2>1. busy \subseteq Nat /\ busy \subseteq 1..Len(g.cache)
    BY <1>1
  <2> HIDE DEF busy
  <2>2. Min(busy) \in 1..Len(g.cache)
    BY <1>4, <2>1, LeastOf
  <2>3. Min(busy) \in 1..Len(g.cache) + 1
    BY <1>1, <2>2
  <2>4. PICK c : c = SubSeq(g.cache, Min(busy), Len(g.cache))
    OBVIOUS
  <2>5. c \in Seq(Bo)
    BY <1>1, <2>3, <2>4, RestOf
  <2>6. CacheClean(g) = [g EXCEPT !.cache = c]
    BY <1>2, <1>4, <2>4 DEF WorldType
  <2> QED BY <2>5, <2>6, CacheLess
<1> QED BY <1>3, <1>4

LEMMA JobsLess ==
  ASSUME NEW g \in WorldType, NEW j \in Seq(Batch),
         \A i \in DOMAIN j : j[i] \in UndoneIn(g)
  PROVE  /\ Less(g, [g EXCEPT !.jobs = j])
         /\ [g EXCEPT !.jobs = j].stream = g.stream
<1>1. PICK h : h = [g EXCEPT !.jobs = j]
  OBVIOUS
<1>2. h \in WorldType /\ h.pix = g.pix /\ h.stream = g.stream /\ h.jobs = j
  BY <1>1 DEF WorldType
<1>3. Less(g, h)
  BY <1>2 DEF Less, UndoneIn
<1> QED BY <1>1, <1>2, <1>3

LEMMA WaitLess ==
  ASSUME NEW g \in WorldType
  PROVE  Less(g, Wait(g)) /\ Wait(g).stream = g.stream
BY CacheCleanLess DEF Wait

LEMMA SyncLess ==
  ASSUME NEW g \in WorldType, NEW b
  PROVE  /\ Less(g, Sync(g, b))
         /\ IF Ready(g, b) THEN Sync(g, b) = g ELSE Sync(g, b).stream = Empty
<1>1. Commit(g) \in WorldType /\ Less(g, Commit(g)) /\ Commit(g).stream = Empty
  BY CommitLess DEF Less
<1>2. Less(Commit(g), Wait(Commit(g))) /\ Wait(Commit(g)).stream = Empty
  BY <1>1, WaitLess
<1>3. Less(g, Wait(Commit(g)))
  BY <1>1, <1>2, LessTrans
<1> QED BY <1>2, <1>3, LessSelf DEF Sync

\* etna_bo_cpu_prep leaves no batch with the GPU that writes the bo.
LEMMA CpuPrepLess ==
  ASSUME NEW g \in WorldType, NEW b, NEW how
  PROVE  /\ Less(g, CpuPrep(g, b, how))
         /\ CpuPrep(g, b, how).stream = g.stream
         /\ \A i \in DOMAIN CpuPrep(g, b, how).jobs :
              b \notin CpuPrep(g, b, how).jobs[i].wr
<1> DEFINE fences == {i \in DOMAIN g.jobs :
                        \/ b \in g.jobs[i].wr
                        \/ how = "write" /\ b \in g.jobs[i].rd}
<1>1. g.jobs \in Seq(Batch) /\ Len(g.jobs) \in Nat /\ DOMAIN g.jobs = 1..Len(g.jobs)
  BY UndoneTypes
<1>2. CpuPrep(g, b, how) = IF fences = {} THEN g
                           ELSE [g EXCEPT !.jobs = SubSeq(@, Max(fences) + 1, Len(@))]
  BY DEF CpuPrep
<1>3. CASE fences = {}
  BY <1>2, <1>3, LessSelf
<1>4. CASE fences # {}
  <2>1. fences \subseteq 1..Len(g.jobs)
    BY <1>1
  <2>2. Max(fences) \in 1..Len(g.jobs) /\ \A y \in fences : Max(fences) >= y
    <3> HIDE DEF fences
    <3> QED BY <1>1, <1>4, <2>1, GreatestOf
  <2>3. \A j \in DOMAIN g.jobs : j >= Max(fences) + 1 => b \notin g.jobs[j].wr
    <3>1. \A j \in DOMAIN g.jobs : j >= Max(fences) + 1 => j \notin fences
      <4> HIDE DEF fences
      <4> QED BY <1>1, <2>2
    <3> QED BY <3>1
  <2> HIDE DEF fences
  <2>4. Max(fences) + 1 \in 1..Len(g.jobs) + 1
    BY <1>1, <2>2
  <2>5. PICK j : j = SubSeq(g.jobs, Max(fences) + 1, Len(g.jobs))
    OBVIOUS
  <2>6. /\ j \in Seq(Batch)
        /\ \A i \in DOMAIN j : \E n \in DOMAIN g.jobs :
             n >= Max(fences) + 1 /\ j[i] = g.jobs[n]
    BY <1>1, <2>4, <2>5, RestOf
  <2>7. \A i \in DOMAIN j : j[i] \in UndoneIn(g) /\ b \notin j[i].wr
    BY <2>3, <2>6 DEF UndoneIn
  <2>8. CpuPrep(g, b, how) = [g EXCEPT !.jobs = j]
    BY <1>2, <1>4, <2>5 DEF WorldType
  <2>9. CpuPrep(g, b, how).jobs = j
    BY <2>8 DEF WorldType
  <2> QED BY <2>6, <2>7, <2>8, <2>9, JobsLess
<1> QED BY <1>3, <1>4

-----------------------------------------------------------------------------
(* Drawing                                                                 *)

\* The stream of a good world becomes s.
LEMMA StreamGood ==
  ASSUME NEW g, Good(g), NEW s \in Batch,
         NoFill => Strict(s),
         Plain => \A p \in Pixmap : g.pix[p].bo \in s.writes => g.pix[p].refcnt > 0
  PROVE  /\ Good([g EXCEPT !.stream = s])
         /\ [g EXCEPT !.stream = s].pix = g.pix
         /\ [g EXCEPT !.stream = s].stream = s
<1>1. PICK h : h = [g EXCEPT !.stream = s]
  OBVIOUS
<1>2. h \in WorldType /\ h.pix = g.pix /\ h.stream = s /\ h.jobs = g.jobs
  BY <1>1 DEF WorldType, Good
<1>3. UndoneIn(h) \subseteq UndoneIn(g) \cup {s}
  BY <1>2 DEF UndoneIn
<1>4. BosAreOwn(h) /\ AccessedAreUnused(h)
  BY <1>2 DEF Good, BosAreOwn, AccessedAreUnused
<1>5. NoFill => \A batch \in UndoneIn(h) : Strict(batch)
  BY <1>3 DEF Good
<1>6. Plain => DrawnAreUsed(h)
  BY <1>2, <1>3 DEF Good, DrawnAreUsed
<1>7. Good(h)
  BY <1>2, <1>4, <1>5, <1>6 DEF Good
<1> QED BY <1>1, <1>2, <1>7

LEMMA NameGood ==
  ASSUME NEW g, Good(g), NEW reads \in SUBSET Bo, NEW dst \in Bo
  PROVE  /\ Good(Name(g, reads, dst))
         /\ Name(g, reads, dst).pix = g.pix
         /\ reads \subseteq Name(g, reads, dst).stream.rd
         /\ dst \in Name(g, reads, dst).stream.wr
<1>1. g \in WorldType /\ g.stream \in Batch
  BY UndoneTypes DEF Good
<1>2. PICK s : s = [g.stream EXCEPT !.rd = @ \cup reads, !.wr = @ \cup {dst}]
  OBVIOUS
<1>3. /\ s \in Batch
      /\ s.rd = g.stream.rd \cup reads /\ s.wr = g.stream.wr \cup {dst}
      /\ s.reads = g.stream.reads /\ s.writes = g.stream.writes
  BY <1>1, <1>2 DEF Batch
<1>4. Name(g, reads, dst) = [g EXCEPT !.stream = s]
  BY <1>1, <1>2 DEF Name, WorldType, Batch
<1>5. NoFill => Strict(s)
  BY <1>3 DEF Good, UndoneIn, Strict
<1>6. Plain => \A p \in Pixmap : g.pix[p].bo \in s.writes => g.pix[p].refcnt > 0
  BY <1>3 DEF Good, UndoneIn, DrawnAreUsed
<1> QED BY <1>3, <1>4, <1>5, <1>6, StreamGood

LEMMA AddDrawGood ==
  ASSUME NEW g, Good(g), NEW reads \in SUBSET Bo, NEW dst \in Bo,
         NoFill => reads \subseteq g.stream.rd /\ dst \in g.stream.wr,
         Plain => \A p \in Pixmap : g.pix[p].bo = dst => g.pix[p].refcnt > 0
  PROVE  /\ Good(AddDraw(g, reads, dst))
         /\ AddDraw(g, reads, dst).pix = g.pix
         /\ AddDraw(g, reads, dst).stream.rd = g.stream.rd
         /\ AddDraw(g, reads, dst).stream.wr = g.stream.wr
<1>1. g \in WorldType /\ g.stream \in Batch
  BY UndoneTypes DEF Good
<1>2. PICK s : s = [g.stream EXCEPT !.reads = @ \cup reads, !.writes = @ \cup {dst}]
  OBVIOUS
<1>3. /\ s \in Batch
      /\ s.reads = g.stream.reads \cup reads /\ s.writes = g.stream.writes \cup {dst}
      /\ s.rd = g.stream.rd /\ s.wr = g.stream.wr
  BY <1>1, <1>2 DEF Batch
<1>4. AddDraw(g, reads, dst) = [g EXCEPT !.stream = s]
  BY <1>1, <1>2 DEF AddDraw, WorldType, Batch
<1>5. NoFill => Strict(s)
  BY <1>3 DEF Good, UndoneIn, Strict
<1>6. Plain => \A p \in Pixmap : g.pix[p].bo \in s.writes => g.pix[p].refcnt > 0
  BY <1>3 DEF Good, UndoneIn, DrawnAreUsed
<1> QED BY <1>3, <1>4, <1>5, <1>6, StreamGood

-----------------------------------------------------------------------------
(* Use counts and CPU access                                               *)

\* Counts and access of pixmaps change to P.
LEMMA PixGood ==
  ASSUME NEW g, Good(g), NEW P \in [Pixmap -> PixmapRec],
         \A p \in Pixmap : /\ P[p].bo = g.pix[p].bo /\ P[p].live = g.pix[p].live
                           /\ P[p].cpu # "no" => P[p].refcnt <= 0,
         Plain => \A p \in Pixmap, batch \in UndoneIn(g) :
                    g.pix[p].bo \in batch.writes => P[p].refcnt > 0
  PROVE  /\ Good([g EXCEPT !.pix = P])
         /\ [g EXCEPT !.pix = P].pix = P
         /\ [g EXCEPT !.pix = P].stream = g.stream
<1>1. PICK h : h = [g EXCEPT !.pix = P]
  OBVIOUS
<1>2. h \in WorldType /\ h.pix = P /\ h.stream = g.stream /\ h.jobs = g.jobs
  BY <1>1 DEF WorldType, Good
<1>3. UndoneIn(h) = UndoneIn(g)
  BY <1>2 DEF UndoneIn
<1>4. BosAreOwn(h) /\ AccessedAreUnused(h)
  BY <1>2 DEF Good, BosAreOwn, AccessedAreUnused
<1>5. Plain => DrawnAreUsed(h)
  BY <1>2, <1>3 DEF DrawnAreUsed
<1>6. Good(h)
  BY <1>2, <1>3, <1>4, <1>5 DEF Good
<1> QED BY <1>1, <1>2, <1>6

LEMMA UseGood ==
  ASSUME NEW g, Good(g), NEW p \in Pixmap,
         g.pix[p].cpu = "no", g.pix[p].refcnt \in Nat
  PROVE  /\ Good(Use(g, p)) /\ Use(g, p).stream = g.stream
         /\ Use(g, p).pix = [g.pix EXCEPT ![p].refcnt = @ + 1]
<1>1. g \in WorldType /\ g.pix \in [Pixmap -> PixmapRec] /\ g.pix[p] \in PixmapRec
  BY UndoneTypes DEF Good
<1>2. PICK q : q = [g.pix[p] EXCEPT !.refcnt = @ + 1]
  OBVIOUS
<1>3. /\ q \in PixmapRec /\ q.refcnt > 0 /\ q.bo = g.pix[p].bo /\ q.live = g.pix[p].live
      /\ q.cpu = "no"
  BY <1>1, <1>2 DEF PixmapRec
<1>4. PICK P : P = [g.pix EXCEPT ![p] = q]
  OBVIOUS
<1>5. /\ P \in [Pixmap -> PixmapRec] /\ P[p] = q
      /\ \A r \in Pixmap \ {p} : P[r] = g.pix[r]
  BY <1>1, <1>3, <1>4
<1>6. \A r \in Pixmap : /\ P[r].bo = g.pix[r].bo /\ P[r].live = g.pix[r].live
                        /\ P[r].cpu # "no" => P[r].refcnt <= 0
  BY <1>3, <1>5 DEF Good, AccessedAreUnused
<1>7. Plain => \A r \in Pixmap, batch \in UndoneIn(g) :
                 g.pix[r].bo \in batch.writes => P[r].refcnt > 0
  BY <1>3, <1>5 DEF Good, DrawnAreUsed
<1>8. Use(g, p) = [g EXCEPT !.pix = P]
  BY <1>1, <1>2, <1>4 DEF Use, WorldType, PixmapRec
<1>9. P = [g.pix EXCEPT ![p].refcnt = @ + 1]
  BY <1>1, <1>2, <1>4 DEF PixmapRec
<1>10. /\ Good([g EXCEPT !.pix = P]) /\ [g EXCEPT !.pix = P].pix = P
       /\ [g EXCEPT !.pix = P].stream = g.stream
  BY <1>5, <1>6, <1>7, PixGood
<1> QED BY <1>8, <1>9, <1>10

\* PrepareAccess leaves no drawing to the pixmap, in the stream or with the GPU.
LEMMA AccessGood ==
  ASSUME NEW g, Good(g), NEW p \in Pixmap, NEW how
  PROVE  /\ Good(Access(g, p, how))
         /\ \A q \in Pixmap \ {p} : Access(g, p, how).pix[q] = g.pix[q]
         /\ Access(g, p, how).pix[p] =
              IF g.pix[p].refcnt <= 0 THEN g.pix[p] ELSE [g.pix[p] EXCEPT !.refcnt = -1]
<1> DEFINE b == g.pix[p].bo
<1>1. g \in WorldType /\ g.pix \in [Pixmap -> PixmapRec] /\ g.pix[p] \in PixmapRec
  BY UndoneTypes DEF Good
<1>2. CASE g.pix[p].refcnt <= 0
  BY <1>2 DEF Access
<1>3. CASE ~(g.pix[p].refcnt <= 0)
  <2>1. PICK s : s = Sync(g, b)
    OBVIOUS
  <2>2. /\ Less(g, s) /\ s \in WorldType
        /\ IF Ready(g, b) THEN s = g ELSE s.stream = Empty
    BY <1>1, <2>1, SyncLess DEF Less
  <2>3. PICK k : k = CpuPrep(s, b, how)
    OBVIOUS
  <2>4. /\ Less(s, k) /\ k.stream = s.stream
        /\ \A i \in DOMAIN k.jobs : b \notin k.jobs[i].wr
    BY <2>2, <2>3, CpuPrepLess
  <2>5. Less(g, k)
    BY <2>2, <2>4, LessTrans
  <2>6. Good(k) /\ k.pix = g.pix /\ k \in WorldType
    BY <2>5, LessIsGood DEF Less
  <2>7. NoFill => \A batch \in UndoneIn(k) : b \notin batch.writes
    <3> SUFFICES ASSUME NoFill, NEW batch \in UndoneIn(k) PROVE b \notin batch.writes
      OBVIOUS
    <3>1. Strict(batch)
      BY <2>6 DEF Good
    <3>2. CASE batch = k.stream
      <4>1. CASE Ready(g, b)
        <5>1. b \notin batch.wr
          BY <2>2, <2>4, <3>2, <4>1 DEF Ready, Named
        <5> QED BY <3>1, <5>1 DEF Strict
      <4>2. CASE ~Ready(g, b)
        BY <2>2, <2>4, <3>2, <4>2, EmptyIs
      <4> QED BY <4>1, <4>2
    <3>3. CASE batch # k.stream
      <4>1. b \notin batch.wr
        BY <2>4, <3>3 DEF UndoneIn
      <4> QED BY <3>1, <4>1 DEF Strict
    <3> QED BY <3>2, <3>3
  <2>8. PICK q : q = [g.pix[p] EXCEPT !.refcnt = -1]
    OBVIOUS
  <2>9. /\ q \in PixmapRec /\ q.refcnt <= 0 /\ q.bo = g.pix[p].bo
        /\ q.live = g.pix[p].live
    BY <1>1, <2>8 DEF PixmapRec
  <2>10. PICK P : P = [g.pix EXCEPT ![p] = q]
    OBVIOUS
  <2>11. /\ P \in [Pixmap -> PixmapRec] /\ P[p] = q
         /\ \A r \in Pixmap \ {p} : P[r] = g.pix[r]
    BY <1>1, <2>9, <2>10
  <2>12. \A r \in Pixmap : /\ P[r].bo = k.pix[r].bo /\ P[r].live = k.pix[r].live
                           /\ P[r].cpu # "no" => P[r].refcnt <= 0
    BY <2>6, <2>9, <2>11 DEF Good, AccessedAreUnused
  <2>13. Plain => \A r \in Pixmap, batch \in UndoneIn(k) :
                    k.pix[r].bo \in batch.writes => P[r].refcnt > 0
    <3> SUFFICES ASSUME Plain, NEW r \in Pixmap, NEW batch \in UndoneIn(k),
                        k.pix[r].bo \in batch.writes
                 PROVE  P[r].refcnt > 0
      OBVIOUS
    <3>1. r # p
      BY <2>6, <2>7, PlainNoFill
    <3> QED BY <2>6, <2>11, <3>1 DEF Good, DrawnAreUsed
  <2>14. Access(g, p, how) = [k EXCEPT !.pix = P]
    BY <1>1, <1>3, <2>1, <2>3, <2>6, <2>8, <2>10 DEF Access, WorldType, PixmapRec
  <2> QED BY <1>3, <2>6, <2>8, <2>11, <2>12, <2>13, <2>14, PixGood
<1> QED BY <1>2, <1>3

LEMMA EndAccessGood ==
  ASSUME NEW g, Good(g), NEW p \in Pixmap
  PROVE  /\ Good(EndAccess(g, p))
         /\ \A q \in Pixmap \ {p} : EndAccess(g, p).pix[q] = g.pix[q]
         /\ EndAccess(g, p).pix[p] =
              IF g.pix[p].refcnt = -1 THEN [g.pix[p] EXCEPT !.refcnt = 0] ELSE g.pix[p]
<1>1. g \in WorldType /\ g.pix \in [Pixmap -> PixmapRec] /\ g.pix[p] \in PixmapRec
  BY UndoneTypes DEF Good
<1>2. CASE g.pix[p].refcnt # -1
  BY <1>2 DEF EndAccess
<1>3. CASE g.pix[p].refcnt = -1
  <2>1. PICK q : q = [g.pix[p] EXCEPT !.refcnt = 0]
    OBVIOUS
  <2>2. /\ q \in PixmapRec /\ q.refcnt <= 0 /\ q.bo = g.pix[p].bo
        /\ q.live = g.pix[p].live
    BY <1>1, <2>1 DEF PixmapRec
  <2>3. PICK P : P = [g.pix EXCEPT ![p] = q]
    OBVIOUS
  <2>4. /\ P \in [Pixmap -> PixmapRec] /\ P[p] = q
        /\ \A r \in Pixmap \ {p} : P[r] = g.pix[r]
    BY <1>1, <2>2, <2>3
  <2>5. \A r \in Pixmap : /\ P[r].bo = g.pix[r].bo /\ P[r].live = g.pix[r].live
                          /\ P[r].cpu # "no" => P[r].refcnt <= 0
    BY <2>2, <2>4 DEF Good, AccessedAreUnused
  <2>6. Plain => \A r \in Pixmap, batch \in UndoneIn(g) :
                   g.pix[r].bo \in batch.writes => P[r].refcnt > 0
    <3>1. ~(g.pix[p].refcnt > 0)
      BY <1>3
    <3> QED BY <2>4, <3>1 DEF Good, DrawnAreUsed
  <2>7. EndAccess(g, p) = [g EXCEPT !.pix = P]
    BY <1>1, <1>3, <2>1, <2>3 DEF EndAccess, WorldType, PixmapRec
  <2> QED BY <1>3, <2>1, <2>4, <2>5, <2>6, <2>7, PixGood
<1> QED BY <1>2, <1>3

\* The use count goes to -1 only for as long as the CPU has a pixmap.
Steady(g) == \A p \in Pixmap : g.pix[p].cpu = "no" => g.pix[p].refcnt \in Nat

SameOwners(g, h) ==
  \A p \in Pixmap : /\ h.pix[p].bo = g.pix[p].bo /\ h.pix[p].live = g.pix[p].live
                    /\ h.pix[p].cpu = g.pix[p].cpu

LEMMA FirstPixelGood ==
  ASSUME NEW g, Good(g), Steady(g), NEW p \in Pixmap
  PROVE  /\ Good(FirstPixel(g, p)) /\ Steady(FirstPixel(g, p))
         /\ SameOwners(g, FirstPixel(g, p))
         /\ \A q \in Pixmap \ {p} : FirstPixel(g, p).pix[q] = g.pix[q]
<1>1. g.pix[p] \in PixmapRec
  BY UndoneTypes DEF Good
<1>2. PICK k : k = Access(g, p, "read")
  OBVIOUS
<1>3. PICK h : h = EndAccess(k, p)
  OBVIOUS
<1>4. /\ Good(k) /\ \A q \in Pixmap \ {p} : k.pix[q] = g.pix[q]
      /\ k.pix[p] = IF g.pix[p].refcnt <= 0 THEN g.pix[p]
                    ELSE [g.pix[p] EXCEPT !.refcnt = -1]
  BY <1>2, AccessGood
<1>5. /\ Good(h) /\ \A q \in Pixmap \ {p} : h.pix[q] = k.pix[q]
      /\ h.pix[p] = IF k.pix[p].refcnt = -1 THEN [k.pix[p] EXCEPT !.refcnt = 0]
                    ELSE k.pix[p]
  BY <1>3, <1>4, EndAccessGood
<1>6. /\ h.pix[p].bo = g.pix[p].bo /\ h.pix[p].live = g.pix[p].live
      /\ h.pix[p].cpu = g.pix[p].cpu
      /\ g.pix[p].refcnt \in Nat => h.pix[p].refcnt \in Nat
  BY <1>1, <1>4, <1>5 DEF PixmapRec
<1>7. Steady(h) /\ SameOwners(g, h)
  BY <1>4, <1>5, <1>6 DEF Steady, SameOwners
<1> QED BY <1>2, <1>3, <1>4, <1>5, <1>7 DEF FirstPixel

LEMMA ReadPixelsGood ==
  ASSUME NEW g, Good(g), Steady(g), NEW P \in SUBSET Pixmap
  PROVE  /\ Good(ReadPixels(g, P)) /\ Steady(ReadPixels(g, P))
         /\ SameOwners(g, ReadPixels(g, P))
         /\ \A q \in Pixmap \ (P \cap Tiny) : ReadPixels(g, P).pix[q] = g.pix[q]
<1>1. CASE P \cap Tiny = {}
  BY <1>1 DEF ReadPixels, SameOwners
<1>2. CASE P \cap Tiny # {}
  <2>1. PICK p : p = CHOOSE x \in P : x \in Tiny
    OBVIOUS
  <2>2. p \in P \cap Tiny /\ p \in Pixmap
    BY <1>2, <2>1
  <2>3. ReadPixels(g, P) = FirstPixel(g, p)
    BY <1>2, <2>1 DEF ReadPixels
  <2> QED BY <2>2, <2>3, FirstPixelGood
<1> QED BY <1>1, <1>2

-----------------------------------------------------------------------------
(* Pixmaps come, change and go                                             *)

LEMMA ReleaseLess ==
  ASSUME NEW g \in WorldType, NEW p \in Pixmap, g.pix[p].bo \in Bo
  PROVE  Less(g, Release(g, p))
BY SyncLess, CacheDelLess DEF Release

\* A bo that is chosen for a pixmap or a temporary belongs to none and is in no
\* batch.
LEMMA NewBoIsFree ==
  ASSUME NEW g \in WorldType, FreeBo(g) # {}
  PROVE  /\ NewBo(g) \in Bo
         /\ \A p \in Pixmap : g.pix[p].bo # NewBo(g)
         /\ \A batch \in UndoneIn(g) : NewBo(g) \notin Named(batch)
<1>1. NewBo(g) \in FreeBo(g)
  BY DEF NewBo
<1> QED BY <1>1 DEF FreeBo, UndoneIn, Ready

LEMMA PutPixGood ==
  ASSUME NEW g, Good(g), Steady(g), NEW p \in Pixmap, NEW q \in PixmapRec,
         q.cpu = "no", q.refcnt \in Nat,
         q.live => q.bo \in Bo,
         \A r \in Pixmap \ {p} : g.pix[r].bo = q.bo => q.bo = NoBo,
         Plain => \A batch \in UndoneIn(g) : q.bo \notin batch.writes
  PROVE  /\ Good([g EXCEPT !.pix = [g.pix EXCEPT ![p] = q]])
         /\ Steady([g EXCEPT !.pix = [g.pix EXCEPT ![p] = q]])
<1>1. g \in WorldType /\ g.pix \in [Pixmap -> PixmapRec]
  BY UndoneTypes DEF Good
<1>2. PICK P : P = [g.pix EXCEPT ![p] = q]
  OBVIOUS
<1>3. P \in [Pixmap -> PixmapRec] /\ P[p] = q /\ \A r \in Pixmap \ {p} : P[r] = g.pix[r]
  BY <1>1, <1>2
<1>4. PICK h : h = [g EXCEPT !.pix = P]
  OBVIOUS
<1>5. h \in WorldType /\ h.pix = P /\ h.stream = g.stream /\ h.jobs = g.jobs
  BY <1>1, <1>3, <1>4 DEF WorldType
<1>6. UndoneIn(h) = UndoneIn(g)
  BY <1>5 DEF UndoneIn
<1>7. BosAreOwn(h) /\ AccessedAreUnused(h) /\ Steady(h)
  BY <1>3, <1>5 DEF Good, BosAreOwn, AccessedAreUnused, Steady
<1>8. Plain => DrawnAreUsed(h)
  BY <1>3, <1>5, <1>6 DEF Good, DrawnAreUsed
<1>9. Good(h) /\ Steady(h)
  BY <1>5, <1>6, <1>7, <1>8 DEF Good
<1> QED BY <1>2, <1>4, <1>9

-----------------------------------------------------------------------------
(* The invariant                                                           *)

\* The operation o begun in a world: what it draws is named in the stream, and
\* its destination is in use.
OpGood(o, g) ==
  /\ o \in Op
  /\ o.kind # "none" => o.dst \in Bo
  /\ o.kind = "mask" => o.rects = <<>>
  /\ NoFill /\ o.kind \in {"solid", "copy", "comp"} =>
       o.src \subseteq g.stream.rd /\ o.dst \in g.stream.wr
  /\ Plain /\ o.kind # "none" =>
       \A p \in Pixmap : g.pix[p].bo = o.dst => g.pix[p].refcnt > 0

IInv ==
  /\ Good(World)
  /\ Steady(World)
  /\ OpGood(op, World)
  /\ closed \in BOOLEAN

LEMMA WorldIs ==
  /\ World.pix = pix /\ World.stream = stream /\ World.jobs = jobs
  /\ World.cache = cache
BY DEF World

\* A world that a step becomes is the world after it.
LEMMA BecomeInv ==
  ASSUME NEW g, Good(g), Steady(g), Become(g), OpGood(op', g), closed' \in BOOLEAN
  PROVE  IInv'
<1>1. World' = g
  BY DEF Become, World, Good, WorldType
<1>2. (Good(World) /\ Steady(World) /\ OpGood(op, World))'
  BY <1>1 DEF Good, Steady, OpGood, BosAreOwn, AccessedAreUnused, DrawnAreUsed,
              UndoneIn, Strict, WorldType, NoFill, Plain
<1> QED BY <1>2 DEF IInv

LEMMA NoOpGood ==
  ASSUME NEW g
  PROVE  OpGood(NoOp, g)
<1>1. <<>> \in Seq(Origin \cup {-1})
  OBVIOUS
<1> QED BY <1>1 DEF OpGood, NoOp, Op

\* A step that only makes less of the world, with no operation begun.
LEMMA LessInv ==
  ASSUME IInv, NEW g, Less(World, g), Become(g), op.kind = "none", op' = op,
         closed' \in BOOLEAN
  PROVE  IInv'
<1>1. Good(g) /\ g.pix = pix
  BY LessIsGood, WorldIs DEF IInv, Less
<1>2. Steady(g)
  BY <1>1, WorldIs DEF IInv, Steady
<1>3. OpGood(op', g)
  BY DEF IInv, OpGood
<1> QED BY <1>1, <1>2, <1>3, BecomeInv

LEMMA IdleIs ==
  ASSUME IInv, Idle
  PROVE  /\ op.kind = "none" /\ World \in WorldType
         /\ \A p \in Pixmap : /\ pix[p] \in PixmapRec /\ pix[p].cpu = "no"
                              /\ pix[p].refcnt \in Nat
                              /\ pix[p].live => pix[p].bo \in Bo
<1>1. World \in WorldType
  BY DEF IInv, Good
<1>2. \A p \in Pixmap : pix[p] \in PixmapRec /\ pix[p].cpu = "no"
  BY <1>1, UndoneTypes, WorldIs DEF Idle, Accessed
<1> QED BY <1>1, <1>2, WorldIs DEF Idle, IInv, Steady, Good, BosAreOwn

-----------------------------------------------------------------------------
(* One lemma per action                                                    *)

LEMMA PrepareAccessInv ==
  ASSUME IInv, NEW p \in Pixmap, NEW how \in {"read", "write"}, PrepareAccess(p, how)
  PROVE  IInv'
<1>1. PICK k : k = Access(World, p, how)
  OBVIOUS
<1>2. /\ op.kind = "none" /\ pix[p].cpu = "no" /\ op' = op /\ closed' = closed
      /\ Become([k EXCEPT !.pix[p].cpu = how])
  BY <1>1 DEF PrepareAccess
<1>3. /\ Good(k) /\ \A q \in Pixmap \ {p} : k.pix[q] = pix[q]
      /\ k.pix[p] = IF pix[p].refcnt <= 0 THEN pix[p] ELSE [pix[p] EXCEPT !.refcnt = -1]
  BY <1>1, AccessGood, WorldIs DEF IInv
<1>4. /\ k \in WorldType /\ k.pix \in [Pixmap -> PixmapRec] /\ k.pix[p] \in PixmapRec
      /\ World \in WorldType /\ pix[p] \in PixmapRec
  BY <1>3, UndoneTypes, WorldIs DEF IInv, Good
<1>5. PICK q : q = [k.pix[p] EXCEPT !.cpu = how]
  OBVIOUS
<1>6. /\ q \in PixmapRec /\ q.refcnt <= 0 /\ q.refcnt = k.pix[p].refcnt
      /\ q.bo = k.pix[p].bo /\ q.live = k.pix[p].live /\ q.cpu # "no"
  BY <1>3, <1>4, <1>5 DEF PixmapRec
<1>7. PICK P : P = [k.pix EXCEPT ![p] = q]
  OBVIOUS
<1>8. /\ P \in [Pixmap -> PixmapRec] /\ P[p] = q
      /\ \A r \in Pixmap \ {p} : P[r] = k.pix[r]
  BY <1>4, <1>6, <1>7
<1>9. \A r \in Pixmap : /\ P[r].bo = k.pix[r].bo /\ P[r].live = k.pix[r].live
                        /\ P[r].cpu # "no" => P[r].refcnt <= 0
  BY <1>3, <1>6, <1>8 DEF Good, AccessedAreUnused
<1>10. Plain => \A r \in Pixmap, batch \in UndoneIn(k) :
                  k.pix[r].bo \in batch.writes => P[r].refcnt > 0
  BY <1>3, <1>6, <1>8 DEF Good, DrawnAreUsed
<1>11. PICK h : h = [k EXCEPT !.pix = P]
  OBVIOUS
<1>12. Good(h) /\ h.pix = P
  BY <1>3, <1>8, <1>9, <1>10, <1>11, PixGood
<1>13. h = [k EXCEPT !.pix[p].cpu = how]
  BY <1>4, <1>5, <1>7, <1>11 DEF WorldType, PixmapRec
<1>14. Steady(h)
  BY <1>3, <1>6, <1>8, <1>12, WorldIs DEF IInv, Steady
<1>15. OpGood(op', h)
  BY <1>2 DEF IInv, OpGood
<1> QED BY <1>2, <1>12, <1>13, <1>14, <1>15, BecomeInv DEF IInv

LEMMA FinishAccessInv ==
  ASSUME IInv, FinishAccess
  PROVE  IInv'
<1>1. UNCHANGED <<op, stream, jobs, cache, closed>>
  BY DEF FinishAccess
<1>2. World \in WorldType /\ pix \in [Pixmap -> PixmapRec]
  BY UndoneTypes, WorldIs DEF IInv, Good
<1>3. /\ DOMAIN pix' = Pixmap
      /\ \A p \in Pixmap : pix'[p] = IF pix[p].cpu = "no" THEN pix[p]
                                     ELSE [EndAccess(World, p).pix[p] EXCEPT !.cpu = "no"]
      /\ pix' = [p \in Pixmap |-> pix'[p]]
  BY DEF FinishAccess
<1>4. ASSUME NEW p \in Pixmap
      PROVE  /\ pix'[p] \in PixmapRec /\ pix'[p].cpu = "no"
             /\ pix'[p].bo = pix[p].bo /\ pix'[p].live = pix[p].live
             /\ pix[p].refcnt > 0 => pix'[p].refcnt > 0
             /\ pix'[p].refcnt \in Nat
  <2>1. pix[p] \in PixmapRec
    BY <1>2
  <2>2. CASE pix[p].cpu = "no"
    BY <1>3, <2>1, <2>2, WorldIs DEF IInv, Steady
  <2>3. CASE pix[p].cpu # "no"
    <3>1. PICK e : e = EndAccess(World, p).pix[p]
      OBVIOUS
    <3>2. e = IF pix[p].refcnt = -1 THEN [pix[p] EXCEPT !.refcnt = 0] ELSE pix[p]
      BY <3>1, EndAccessGood, WorldIs DEF IInv
    <3>3. /\ e \in PixmapRec /\ e.bo = pix[p].bo /\ e.live = pix[p].live
          /\ e.refcnt \in Nat
          /\ pix[p].refcnt > 0 => e.refcnt > 0
      BY <2>1, <3>2 DEF PixmapRec
    <3>4. pix'[p] = [e EXCEPT !.cpu = "no"]
      BY <1>3, <2>3, <3>1
    <3> QED BY <3>3, <3>4 DEF PixmapRec
  <2> QED BY <2>2, <2>3
<1>5. pix' \in [Pixmap -> PixmapRec]
  BY <1>3, <1>4
<1>6. PICK h : h = [World EXCEPT !.pix = pix']
  OBVIOUS
<1>7. \A p \in Pixmap : /\ pix'[p].bo = World.pix[p].bo /\ pix'[p].live = World.pix[p].live
                        /\ pix'[p].cpu # "no" => pix'[p].refcnt <= 0
  BY <1>4, WorldIs
<1>8. Plain => \A p \in Pixmap, batch \in UndoneIn(World) :
                 World.pix[p].bo \in batch.writes => pix'[p].refcnt > 0
  BY <1>4, WorldIs DEF IInv, Good, DrawnAreUsed
<1>9. Good(h) /\ h.pix = pix'
  BY <1>5, <1>6, <1>7, <1>8, PixGood DEF IInv
<1>10. Steady(h)
  BY <1>4, <1>9 DEF Steady
<1>11. Become(h)
  BY <1>1, <1>6 DEF Become, World
<1>12. h.stream = stream
  BY <1>1, <1>11 DEF Become
<1>13. OpGood(op', h)
  <2>1. Plain /\ op.kind # "none" =>
          \A p \in Pixmap : pix'[p].bo = op.dst => pix'[p].refcnt > 0
    BY <1>4, WorldIs DEF IInv, OpGood
  <2> QED BY <1>1, <1>9, <1>12, <2>1, WorldIs DEF IInv, OpGood
<1> QED BY <1>1, <1>9, <1>10, <1>11, <1>13, BecomeInv DEF IInv

\* A step that puts q for a pixmap in a world that is less.
LEMMA PutPixInv ==
  ASSUME IInv, Idle, NEW g, Less(World, g), NEW p \in Pixmap, NEW q \in PixmapRec,
         q.cpu = "no", q.refcnt \in Nat,
         q.live => q.bo \in Bo,
         \A r \in Pixmap \ {p} : pix[r].bo = q.bo => q.bo = NoBo,
         Plain => \A batch \in UndoneIn(g) : q.bo \notin batch.writes,
         Become([g EXCEPT !.pix = [g.pix EXCEPT ![p] = q]]), UNCHANGED <<op, closed>>
  PROVE  IInv'
<1>1. Good(g) /\ g.pix = pix
  BY LessIsGood, WorldIs DEF IInv, Less
<1>2. Steady(g)
  BY <1>1, WorldIs DEF IInv, Steady
<1>3. PICK h : h = [g EXCEPT !.pix = [g.pix EXCEPT ![p] = q]]
  OBVIOUS
<1>4. Good(h) /\ Steady(h)
  BY <1>1, <1>2, <1>3, PutPixGood
<1>5. OpGood(op', h)
  BY DEF Idle, IInv, OpGood
<1> QED BY <1>3, <1>4, <1>5, BecomeInv DEF IInv

LEMMA CreatePixmapInv ==
  ASSUME IInv, NEW p \in Pixmap, CreatePixmap(p)
  PROVE  IInv'
<1>1. /\ Idle /\ FreeBo(World) # {} /\ UNCHANGED <<op, stream, jobs, cache, closed>>
      /\ pix' = [pix EXCEPT ![p] = [NoPixmap EXCEPT !.live = TRUE, !.bo = NewBo(World)]]
  BY DEF CreatePixmap
<1>2. World \in WorldType /\ Less(World, World)
  BY LessSelf DEF IInv, Good
<1>3. /\ NewBo(World) \in Bo /\ \A r \in Pixmap : pix[r].bo # NewBo(World)
      /\ \A batch \in UndoneIn(World) : NewBo(World) \notin Named(batch)
  BY <1>1, <1>2, NewBoIsFree, WorldIs
<1>4. PICK q : q = [NoPixmap EXCEPT !.live = TRUE, !.bo = NewBo(World)]
  OBVIOUS
<1>5. /\ q \in PixmapRec /\ q.cpu = "no" /\ q.refcnt = 0 /\ q.live
      /\ q.bo = NewBo(World)
  BY <1>3, <1>4 DEF NoPixmap, PixmapRec
<1>6. Plain => \A batch \in UndoneIn(World) : q.bo \notin batch.writes
  BY <1>3, <1>5, PlainNoFill DEF IInv, Good, Strict, Named
<1>7. Become([World EXCEPT !.pix = [World.pix EXCEPT ![p] = q]])
  BY <1>1, <1>4 DEF World, Become
<1> QED BY <1>1, <1>2, <1>3, <1>5, <1>6, <1>7, PutPixInv

LEMMA DestroyPixmapInv ==
  ASSUME IInv, NEW p \in Pixmap, DestroyPixmap(p)
  PROVE  IInv'
<1>1. /\ Idle /\ pix[p].live /\ UNCHANGED <<op, closed>>
      /\ Become([Release(World, p) EXCEPT !.pix[p] = NoPixmap])
  BY DEF DestroyPixmap
<1>2. World \in WorldType /\ pix[p].bo \in Bo
  BY <1>1, IdleIs
<1>3. PICK g : g = Release(World, p)
  OBVIOUS
<1>4. Less(World, g) /\ g \in WorldType
  BY <1>2, <1>3, ReleaseLess, WorldIs DEF Less
<1>5. NoPixmap \in PixmapRec /\ NoPixmap.cpu = "no" /\ NoPixmap.refcnt = 0
      /\ ~NoPixmap.live /\ NoPixmap.bo = NoBo
  BY DEF NoPixmap, PixmapRec
<1>6. \A batch \in UndoneIn(g) : NoBo \notin batch.writes
  <2>1. UndoneIn(g) \subseteq Batch
    BY <1>4, UndoneTypes
  <2> QED BY <2>1, StreamAssumption DEF Batch
<1>7. Become([g EXCEPT !.pix = [g.pix EXCEPT ![p] = NoPixmap]])
  BY <1>1, <1>3
<1> QED BY <1>1, <1>4, <1>5, <1>6, <1>7, PutPixInv

LEMMA ModifyPixmapHeaderInv ==
  ASSUME IInv, NEW p \in Pixmap, ModifyPixmapHeader(p)
  PROVE  IInv'
<1>1. PICK g : g = Release(World, p)
  OBVIOUS
<1>2. /\ Idle /\ pix[p].live /\ UNCHANGED <<op, closed>> /\ FreeBo(g) # {}
      /\ Become([g EXCEPT !.pix[p].bo = NewBo(g)])
  BY <1>1 DEF ModifyPixmapHeader
<1>3. World \in WorldType /\ pix[p].bo \in Bo /\ pix[p] \in PixmapRec
      /\ pix[p].cpu = "no" /\ pix[p].refcnt \in Nat
  BY <1>2, IdleIs
<1>4. Less(World, g) /\ g \in WorldType /\ g.pix = pix
  BY <1>1, <1>3, ReleaseLess, WorldIs DEF Less
<1>5. /\ NewBo(g) \in Bo /\ \A r \in Pixmap : pix[r].bo # NewBo(g)
      /\ \A batch \in UndoneIn(g) : NewBo(g) \notin Named(batch)
  BY <1>2, <1>4, NewBoIsFree
<1>6. PICK q : q = [pix[p] EXCEPT !.bo = NewBo(g)]
  OBVIOUS
<1>7. /\ q \in PixmapRec /\ q.cpu = "no" /\ q.refcnt \in Nat /\ q.bo = NewBo(g)
  BY <1>3, <1>5, <1>6 DEF PixmapRec
<1>8. Plain => \A batch \in UndoneIn(g) : q.bo \notin batch.writes
  <2>1. Good(g)
    BY <1>4, LessIsGood DEF IInv
  <2> QED BY <2>1, <1>5, <1>7, PlainNoFill DEF Good, Strict, Named
<1>9. Become([g EXCEPT !.pix = [g.pix EXCEPT ![p] = q]])
  <2>1. [g EXCEPT !.pix = [g.pix EXCEPT ![p] = q]] = [g EXCEPT !.pix[p].bo = NewBo(g)]
    BY <1>4, <1>6 DEF WorldType
  <2> QED BY <1>2, <2>1
<1> QED BY <1>2, <1>4, <1>5, <1>7, <1>8, <1>9, PutPixInv

-----------------------------------------------------------------------------
(* Drawing, one lemma per action                                           *)

\* Prepare names what it will draw in a world k that has its destination in use.
LEMMA NamedInv ==
  ASSUME IInv, Idle, NEW k, Good(k), Steady(k), SameOwners(World, k),
         NEW d \in Pixmap, pix[d].live, Plain => k.pix[d].refcnt > 0,
         NEW reads \in SUBSET Bo, NEW fill \in BOOLEAN,
         Become(Name(Reserve(k, fill), reads, pix[d].bo)),
         NEW kind \in {"solid", "copy", "comp"},
         op' = OpInit(kind, reads, {}, pix[d].bo), closed' = closed
  PROVE  IInv'
<1> DEFINE dst == pix[d].bo
<1>1. dst \in Bo
  BY IdleIs
<1>2. k \in WorldType
  BY DEF Good
<1>3. PICK l : l = Reserve(k, fill)
  OBVIOUS
<1>4. Good(l) /\ l.pix = k.pix
  BY <1>2, <1>3, ReserveLess, LessIsGood DEF Less
<1>5. PICK h : h = Name(l, reads, dst)
  OBVIOUS
<1>6. /\ Good(h) /\ h.pix = k.pix
      /\ reads \subseteq h.stream.rd /\ dst \in h.stream.wr
  BY <1>1, <1>4, <1>5, NameGood
<1>7. Steady(h)
  BY <1>6 DEF Steady
<1>8. Plain => \A p \in Pixmap : h.pix[p].bo = dst => h.pix[p].refcnt > 0
  <2>1. \A p \in Pixmap : k.pix[p].bo = dst => p = d
    BY <1>1, StreamAssumption, WorldIs DEF SameOwners, Good, BosAreOwn
  <2> QED BY <1>6, <2>1
<1>9. OpGood(op', h)
  <2>1. PICK o : o = OpInit(kind, reads, {}, dst)
    OBVIOUS
  <2>2. o.kind = kind /\ o.src = reads /\ o.dst = dst /\ o \in Op
    <3>1. <<>> \in Seq(Origin \cup {-1})
      OBVIOUS
    <3> QED BY <1>1, <2>1, <3>1 DEF OpInit, NoOp, Op
  <2>3. o.kind # "mask"
    BY <2>2
  <2> HIDE DEF dst
  <2>4. OpGood(o, h)
    BY <1>1, <1>6, <1>8, <2>2, <2>3 DEF OpGood
  <2> QED BY <2>1, <2>4 DEF dst
<1> QED BY <1>3, <1>5, <1>6, <1>7, <1>9, BecomeInv DEF IInv

\* The destination is in use before anything else is done.
LEMMA UsedWorld ==
  ASSUME IInv, Idle, NEW d \in Pixmap
  PROVE  /\ Good(Use(World, d)) /\ Steady(Use(World, d))
         /\ SameOwners(World, Use(World, d))
         /\ Use(World, d).pix[d].refcnt > 0
<1>1. /\ pix[d].cpu = "no" /\ pix[d].refcnt \in Nat /\ World \in WorldType
      /\ \A p \in Pixmap : pix[p] \in PixmapRec
  BY IdleIs
<1>2. PICK k : k = Use(World, d)
  OBVIOUS
<1>3. Good(k) /\ k.pix = [pix EXCEPT ![d].refcnt = @ + 1]
  BY <1>1, <1>2, UseGood, WorldIs DEF IInv
<1>4. pix \in [Pixmap -> PixmapRec]
  BY <1>1, UndoneTypes, WorldIs
<1>5. /\ k.pix[d].refcnt = pix[d].refcnt + 1 /\ k.pix[d].bo = pix[d].bo
      /\ k.pix[d].live = pix[d].live /\ k.pix[d].cpu = pix[d].cpu
      /\ \A p \in Pixmap \ {d} : k.pix[p] = pix[p]
  BY <1>3, <1>4 DEF PixmapRec
<1>6. SameOwners(World, k) /\ k.pix[d].refcnt > 0
  BY <1>1, <1>5, WorldIs DEF SameOwners
<1>7. Steady(k)
  BY <1>1, <1>5, WorldIs DEF IInv, Steady
<1> QED BY <1>2, <1>3, <1>6, <1>7

LEMMA PrepareSolidInv ==
  ASSUME IInv, NEW p \in Pixmap, NEW fill \in BOOLEAN, PrepareSolid(p, fill)
  PROVE  IInv'
<1>1. /\ Idle /\ pix[p].live /\ closed' = closed
      /\ Become(Name(Reserve(Use(World, p), fill), {}, pix[p].bo))
      /\ op' = OpInit("solid", {}, {}, pix[p].bo)
  BY DEF PrepareSolid, CanDraw
<1>2. PICK k : k = Use(World, p)
  OBVIOUS
<1>3. Good(k) /\ Steady(k) /\ SameOwners(World, k) /\ k.pix[p].refcnt > 0
  BY <1>1, <1>2, UsedWorld
<1>4. {} \in SUBSET Bo
  OBVIOUS
<1> QED BY <1>1, <1>2, <1>3, <1>4, NamedInv

LEMMA PrepareCopyInv ==
  ASSUME IInv, NEW s \in Pixmap, NEW d \in Pixmap, NEW fill \in BOOLEAN,
         PrepareCopy(s, d, fill)
  PROVE  IInv'
<1>1. /\ Idle /\ pix[d].live /\ pix[s].live /\ closed' = closed
      /\ Become(Name(Reserve(Use(World, d), fill), {pix[s].bo}, pix[d].bo))
      /\ op' = OpInit("copy", {pix[s].bo}, {}, pix[d].bo)
  BY DEF PrepareCopy, CanDraw
<1>2. PICK k : k = Use(World, d)
  OBVIOUS
<1>3. Good(k) /\ Steady(k) /\ SameOwners(World, k) /\ k.pix[d].refcnt > 0
  BY <1>1, <1>2, UsedWorld
<1>4. {pix[s].bo} \in SUBSET Bo
  BY <1>1, IdleIs
<1> QED BY <1>1, <1>2, <1>3, <1>4, NamedInv

LEMMA PrepareCompositeInv ==
  ASSUME IInv, NEW S \in Pictures, NEW M \in Pictures, NEW masked \in BOOLEAN,
         NEW d \in Pixmap, NEW fill \in BOOLEAN,
         PrepareComposite(S, M, masked, d, fill)
  PROVE  IInv'
<1>1. PICK u : u = Use(World, d)
  OBVIOUS
<1>2. PICK v : v = ReadPixels(u, S)
  OBVIOUS
<1>3. PICK k : k = ReadPixels(v, M)
  OBVIOUS
<1>4. /\ Idle /\ pix[d].live /\ closed' = closed
      /\ d \in (S \cup M) \cap Tiny => "self" \in Env
      /\ masked => /\ Become(k)
                   /\ op' = OpInit("mask", Sources(S), Sources(M), pix[d].bo)
      /\ ~masked => /\ Become(Name(Reserve(k, fill), Sources(S), pix[d].bo))
                    /\ op' = OpInit("comp", Sources(S), {}, pix[d].bo)
  BY <1>1, <1>2, <1>3 DEF PrepareComposite, CanDraw
<1>5. Good(u) /\ Steady(u) /\ SameOwners(World, u) /\ u.pix[d].refcnt > 0
  BY <1>1, <1>4, UsedWorld
<1>6. S \in SUBSET Pixmap /\ M \in SUBSET Pixmap
  BY DEF Pictures
<1>7. /\ Good(v) /\ Steady(v) /\ SameOwners(u, v)
      /\ \A q \in Pixmap \ (S \cap Tiny) : v.pix[q] = u.pix[q]
  BY <1>2, <1>5, <1>6, ReadPixelsGood
<1>8. /\ Good(k) /\ Steady(k) /\ SameOwners(v, k)
      /\ \A q \in Pixmap \ (M \cap Tiny) : k.pix[q] = v.pix[q]
  BY <1>3, <1>6, <1>7, ReadPixelsGood
<1>9. SameOwners(World, k)
  BY <1>5, <1>7, <1>8 DEF SameOwners
<1>10. Plain => k.pix[d].refcnt > 0
  <2>1. Plain => d \notin S \cap Tiny /\ d \notin M \cap Tiny
    BY <1>4 DEF Plain
  <2> QED BY <1>5, <1>7, <1>8, <2>1
<1>11. Sources(S) \in SUBSET Bo /\ Sources(M) \in SUBSET Bo
  BY <1>4, IdleIs DEF Sources, Pictures
<1>12. CASE ~masked
  BY <1>4, <1>8, <1>9, <1>10, <1>11, <1>12, NamedInv
<1>13. CASE masked
  <2>1. pix[d].bo \in Bo
    BY <1>4, IdleIs
  <2>2. PICK o : o = OpInit("mask", Sources(S), Sources(M), pix[d].bo)
    OBVIOUS
  <2>3. o.kind = "mask" /\ o.rects = <<>> /\ o.dst = pix[d].bo /\ o \in Op
    <3>1. <<>> \in Seq(Origin \cup {-1})
      OBVIOUS
    <3> QED BY <1>11, <2>1, <2>2, <3>1 DEF OpInit, NoOp, Op
  <2>4. Plain => \A p \in Pixmap : k.pix[p].bo = pix[d].bo => k.pix[p].refcnt > 0
    <3>1. \A p \in Pixmap : k.pix[p].bo = pix[d].bo => p = d
      BY <1>8, <1>9, <2>1, StreamAssumption, WorldIs DEF SameOwners, Good, BosAreOwn
    <3> QED BY <1>10, <3>1
  <2>5. OpGood(o, k)
    BY <2>1, <2>3, <2>4 DEF OpGood
  <2> QED BY <1>4, <1>8, <1>13, <2>2, <2>5, BecomeInv DEF IInv
<1> QED BY <1>12, <1>13

\* The rectangles collected are drawn to what Prepare named.
LEMMA DrawRectsGood ==
  ASSUME IInv, NEW fill \in BOOLEAN, NoFill => ~fill,
         op.kind \in {"solid", "copy", "comp"}
  PROVE  /\ Good(DrawRects(World, fill))
         /\ DrawRects(World, fill).pix = pix
         /\ NoFill => /\ DrawRects(World, fill).stream.rd = stream.rd
                      /\ DrawRects(World, fill).stream.wr = stream.wr
<1>1. PICK l : l = Reserve(World, fill)
  OBVIOUS
<1>2. World \in WorldType
  BY DEF IInv, Good
<1>3. Good(l) /\ l.pix = pix /\ (NoFill => l = World)
  BY <1>1, <1>2, ReserveLess, LessIsGood, WorldIs DEF Less, IInv
<1>4. CASE op.rects = <<>>
  BY <1>1, <1>3, <1>4, WorldIs DEF DrawRects
<1>5. CASE op.rects # <<>>
  <2>1. op.src \in SUBSET Bo /\ op.dst \in Bo
    BY DEF IInv, OpGood, Op
  <2>2. NoFill => op.src \subseteq l.stream.rd /\ op.dst \in l.stream.wr
    BY <1>3 DEF IInv, OpGood
  <2>3. Plain => \A p \in Pixmap : l.pix[p].bo = op.dst => l.pix[p].refcnt > 0
    BY <1>3, WorldIs DEF IInv, OpGood
  <2>4. DrawRects(World, fill) = AddDraw(l, op.src, op.dst)
    BY <1>1, <1>5 DEF DrawRects
  <2> QED BY <1>3, <2>1, <2>2, <2>3, <2>4, AddDrawGood, WorldIs
<1> QED BY <1>4, <1>5

\* A rectangle is collected, after those before it were drawn if need be.
LEMMA CollectInv ==
  ASSUME IInv, NEW fill \in BOOLEAN, NoFill => ~fill,
         op.kind \in {"solid", "copy", "comp"}, NEW flush \in BOOLEAN,
         Become(IF flush THEN DrawRects(World, fill) ELSE World),
         op' \in Op, op'.kind = op.kind, op'.src = op.src, op'.dst = op.dst,
         closed' = closed
  PROVE  IInv'
<1>1. PICK g : g = IF flush THEN DrawRects(World, fill) ELSE World
  OBVIOUS
<1>2. /\ Good(g) /\ g.pix = pix
      /\ NoFill => g.stream.rd = stream.rd /\ g.stream.wr = stream.wr
  BY <1>1, DrawRectsGood, WorldIs DEF IInv
<1>3. Steady(g)
  BY <1>2, WorldIs DEF IInv, Steady
<1>4. OpGood(op', g)
  BY <1>2, WorldIs DEF IInv, OpGood
<1> QED BY <1>1, <1>2, <1>3, <1>4, BecomeInv DEF IInv

LEMMA MidwayIs ==
  ASSUME NEW fill \in BOOLEAN, CanFillMidway(fill), NoFill
  PROVE  ~fill
BY DEF CanFillMidway, NoFill

LEMMA SolidInv ==
  ASSUME IInv, NEW fill \in BOOLEAN, Solid(fill)
  PROVE  IInv'
<1>1. PICK full \in BOOLEAN : full <=> Len(op.rects) >= MaxRects
  <2>1. CASE Len(op.rects) >= MaxRects
    BY <2>1
  <2>2. CASE ~(Len(op.rects) >= MaxRects)
    BY <2>2
  <2> QED BY <2>1, <2>2
<1>2. /\ op.kind = "solid" /\ CanFillMidway(fill) /\ closed' = closed
      /\ Become(IF full THEN DrawRects(World, fill) ELSE World)
      /\ op' = [op EXCEPT !.rects = Append(IF full THEN <<>> ELSE @, -1)]
  BY <1>1 DEF Solid
<1>3. op \in Op /\ op.rects \in Seq(Origin \cup {-1})
  BY DEF IInv, OpGood, Op
<1>4. Append(IF full THEN <<>> ELSE op.rects, -1) \in Seq(Origin \cup {-1})
  BY <1>3, AppendProperties
<1>5. op' \in Op /\ op'.kind = op.kind /\ op'.src = op.src /\ op'.dst = op.dst
  BY <1>2, <1>3, <1>4 DEF Op
<1> QED BY <1>2, <1>5, MidwayIs, CollectInv

LEMMA CopyInv ==
  ASSUME IInv, NEW srcX \in Origin, NEW fill \in BOOLEAN, Copy(srcX, fill)
  PROVE  IInv'
<1>1. PICK flush \in BOOLEAN : flush <=> (NewGroup(srcX) /\ op.prev > -1)
  <2>1. CASE NewGroup(srcX) /\ op.prev > -1
    BY <2>1
  <2>2. CASE ~(NewGroup(srcX) /\ op.prev > -1)
    BY <2>2
  <2> QED BY <2>1, <2>2
<1>2. /\ op.kind \in {"copy", "comp"} /\ CanFillMidway(fill) /\ closed' = closed
      /\ Become(IF flush THEN DrawRects(World, fill) ELSE World)
      /\ op' = [op EXCEPT !.rects = Append(IF flush THEN <<>> ELSE @, srcX), !.prev = srcX]
  BY <1>1 DEF Copy
<1>3. op \in Op /\ op.rects \in Seq(Origin \cup {-1})
  BY DEF IInv, OpGood, Op
<1>4. Append(IF flush THEN <<>> ELSE op.rects, srcX) \in Seq(Origin \cup {-1})
  BY <1>3, AppendProperties
<1>5. op' \in Op /\ op'.kind = op.kind /\ op'.src = op.src /\ op'.dst = op.dst
  BY <1>2, <1>3, <1>4 DEF Op
<1> QED BY <1>2, <1>5, MidwayIs, CollectInv

\* A pass names what it draws, whether or not it finds room.
LEMMA PassGood ==
  ASSUME NEW g, Good(g), NEW n, NEW fill, NEW reads \in SUBSET Bo, NEW dst \in Bo,
         Plain => \A p \in Pixmap : g.pix[p].bo = dst => g.pix[p].refcnt > 0
  PROVE  Good(Pass(g, n, fill, reads, dst)) /\ Pass(g, n, fill, reads, dst).pix = g.pix
<1>1. PICK b \in BOOLEAN : b = (fill = n)
  OBVIOUS
<1>2. PICK l : l = Reserve(g, b)
  OBVIOUS
<1>3. Good(l) /\ l.pix = g.pix
  BY <1>2, ReserveLess, LessIsGood DEF Less, Good
<1>4. PICK m : m = Name(l, reads, dst)
  OBVIOUS
<1>5. /\ Good(m) /\ m.pix = g.pix
      /\ reads \subseteq m.stream.rd /\ dst \in m.stream.wr
  BY <1>3, <1>4, NameGood
<1>6. Pass(g, n, fill, reads, dst) = AddDraw(m, reads, dst)
  BY <1>1, <1>2, <1>4 DEF Pass
<1> QED BY <1>5, <1>6, AddDrawGood

LEMMA CompositeMaskedInv ==
  ASSUME IInv, NEW fill \in 0..3, CompositeMasked(fill)
  PROVE  IInv'
<1>1. PICK tmp : tmp = NewBo(World)
  OBVIOUS
<1>2. PICK s : s = Pass(World, 1, fill, op.src, tmp)
  OBVIOUS
<1>3. PICK m : m = Pass(s, 2, fill, op.msk, tmp)
  OBVIOUS
<1>4. PICK d : d = Pass(m, 3, fill, {tmp}, op.dst)
  OBVIOUS
<1>5. /\ op.kind = "mask" /\ FreeBo(World) # {} /\ Become(CacheDel(d, tmp))
      /\ UNCHANGED <<op, closed>>
  BY <1>1, <1>2, <1>3, <1>4 DEF CompositeMasked
<1>6. World \in WorldType
  BY DEF IInv, Good
<1>7. tmp \in Bo /\ \A p \in Pixmap : pix[p].bo # tmp
  BY <1>1, <1>5, <1>6, NewBoIsFree, WorldIs
<1>8. op.src \in SUBSET Bo /\ op.msk \in SUBSET Bo /\ op.dst \in Bo
  BY <1>5 DEF IInv, OpGood, Op
<1>9. Good(s) /\ s.pix = pix
  BY <1>2, <1>7, <1>8, PassGood, WorldIs DEF IInv
<1>10. Good(m) /\ m.pix = pix
  BY <1>3, <1>7, <1>8, <1>9, PassGood
<1>11. Plain => \A p \in Pixmap : pix[p].bo = op.dst => pix[p].refcnt > 0
  BY <1>5, WorldIs DEF IInv, OpGood
<1>12. Good(d) /\ d.pix = pix
  BY <1>4, <1>7, <1>8, <1>10, <1>11, PassGood
<1>13. PICK h : h = CacheDel(d, tmp)
  OBVIOUS
<1>14. Good(h) /\ h.pix = pix
  BY <1>7, <1>12, <1>13, CacheDelLess, LessIsGood DEF Less, Good
<1>15. Steady(h)
  BY <1>14, WorldIs DEF IInv, Steady
<1>16. OpGood(op', h)
  BY <1>5, <1>11, <1>14 DEF IInv, OpGood
<1> QED BY <1>5, <1>13, <1>14, <1>15, <1>16, BecomeInv DEF IInv

LEMMA DoneInv ==
  ASSUME IInv, NEW fill \in BOOLEAN, Done(fill)
  PROVE  IInv'
<1>1. PICK last \in BOOLEAN : last = (op.kind = "copy" \/ op.rects # <<>>)
  OBVIOUS
<1>2. /\ op.kind # "none" /\ CanFillMidway(fill) /\ op' = NoOp /\ closed' = closed
      /\ Become(IF last THEN DrawRects(World, fill) ELSE World)
  BY <1>1 DEF Done
<1>3. PICK g : g = IF last THEN DrawRects(World, fill) ELSE World
  OBVIOUS
<1>4. last => op.kind \in {"solid", "copy", "comp"}
  BY <1>1, <1>2 DEF IInv, OpGood, Op
<1>5. Good(g) /\ g.pix = pix
  BY <1>2, <1>3, <1>4, MidwayIs, DrawRectsGood, WorldIs DEF IInv
<1>6. Steady(g)
  BY <1>5, WorldIs DEF IInv, Steady
<1> QED BY <1>2, <1>3, <1>5, <1>6, NoOpGood, BecomeInv DEF IInv

LEMMA PutTextureImageInv ==
  ASSUME IInv, NEW S \in SUBSET Pixmap, NEW d \in Pixmap, NEW fill \in BOOLEAN,
         PutTextureImage(S, d, fill)
  PROVE  IInv'
<1> DEFINE src == {pix[s].bo : s \in S}
           dst == pix[d].bo
<1>1. PICK tmp : tmp = NewBo(World)
  OBVIOUS
<1>2. PICK g : g = Reserve(World, fill)
  OBVIOUS
<1>3. PICK h : h = Name(g, src, tmp)
  OBVIOUS
<1>4. PICK i : i = AddDraw(h, src, tmp)
  OBVIOUS
<1>5. PICK v : v = Name(i, {tmp}, dst)
  OBVIOUS
<1>6. PICK w : w = AddDraw(v, {tmp}, dst)
  OBVIOUS
<1>7. /\ "xv" \in Env /\ Idle /\ pix[d].live /\ FreeBo(World) # {}
      /\ \A s \in S : pix[s].live
      /\ Become(CacheDel(Commit(w), tmp)) /\ UNCHANGED <<op, closed>>
  BY <1>1, <1>2, <1>3, <1>4, <1>5, <1>6 DEF PutTextureImage
<1>8. ~Plain /\ World \in WorldType
  BY <1>7, IdleIs DEF Plain
<1>9. tmp \in Bo /\ src \in SUBSET Bo /\ dst \in Bo /\ {tmp} \in SUBSET Bo
  BY <1>1, <1>7, <1>8, IdleIs, NewBoIsFree
<1> HIDE DEF src, dst
<1>10. Good(g) /\ g.pix = pix
  BY <1>2, <1>8, ReserveLess, LessIsGood, WorldIs DEF IInv, Less
<1>11. /\ Good(h) /\ h.pix = pix /\ src \subseteq h.stream.rd /\ tmp \in h.stream.wr
  BY <1>3, <1>9, <1>10, NameGood
<1>12. Good(i) /\ i.pix = pix
  BY <1>4, <1>8, <1>9, <1>11, AddDrawGood
<1>13. /\ Good(v) /\ v.pix = pix /\ {tmp} \subseteq v.stream.rd /\ dst \in v.stream.wr
  BY <1>5, <1>9, <1>12, NameGood
<1>14. Good(w) /\ w.pix = pix
  BY <1>6, <1>8, <1>9, <1>13, AddDrawGood
<1>15. PICK c : c = Commit(w)
  OBVIOUS
<1>16. Good(c) /\ c.pix = pix
  BY <1>14, <1>15, CommitLess, LessIsGood DEF Less, Good
<1>17. PICK k : k = CacheDel(c, tmp)
  OBVIOUS
<1>18. Good(k) /\ k.pix = pix
  BY <1>9, <1>16, <1>17, CacheDelLess, LessIsGood DEF Less, Good
<1>19. Steady(k)
  BY <1>18, WorldIs DEF IInv, Steady
<1>20. OpGood(op', k)
  BY <1>7 DEF Idle, IInv, OpGood
<1> QED BY <1>7, <1>15, <1>17, <1>18, <1>19, <1>20, BecomeInv DEF IInv

LEMMA RunJobInv ==
  ASSUME IInv, RunJob
  PROVE  IInv'
<1>1. jobs # <<>> /\ jobs' = Tail(jobs) /\ UNCHANGED <<pix, op, stream, cache, closed>>
  BY DEF RunJob
<1>2. World \in WorldType /\ jobs \in Seq(Batch)
  BY UndoneTypes, WorldIs DEF IInv, Good
<1>3. /\ Tail(jobs) \in Seq(Batch)
      /\ \A i \in DOMAIN Tail(jobs) : i + 1 \in DOMAIN jobs /\ Tail(jobs)[i] = jobs[i + 1]
  <2>1. /\ Len(jobs) \in Nat \ {0} /\ DOMAIN jobs = 1..Len(jobs)
        /\ DOMAIN Tail(jobs) = 1..Len(jobs) - 1
    BY <1>1, <1>2, EmptySeq, LenProperties, HeadTailProperties
  <2> QED BY <1>1, <1>2, <2>1, HeadTailProperties
<1>4. \A i \in DOMAIN Tail(jobs) : Tail(jobs)[i] \in UndoneIn(World)
  BY <1>3, WorldIs DEF UndoneIn
<1>5. PICK h : h = [World EXCEPT !.jobs = Tail(jobs)]
  OBVIOUS
<1>6. Less(World, h)
  BY <1>2, <1>3, <1>4, <1>5, JobsLess
<1>7. Become(h)
  BY <1>1, <1>5 DEF World, Become
<1>8. Good(h) /\ h.pix = pix /\ h.stream = stream
  BY <1>1, <1>6, <1>7, LessIsGood, WorldIs DEF IInv, Less, Become
<1>9. Steady(h) /\ OpGood(op', h)
  BY <1>1, <1>8, WorldIs DEF IInv, Steady, OpGood
<1> QED BY <1>1, <1>7, <1>8, <1>9, BecomeInv DEF IInv

LEMMA FlushInv ==
  ASSUME IInv, Flush
  PROVE  IInv'
<1>1. PICK w : w = Wait(World)
  OBVIOUS
<1>2. Idle /\ Become(Commit(w)) /\ UNCHANGED <<op, closed>>
  BY <1>1 DEF Flush, Flushed
<1>3. World \in WorldType
  BY DEF IInv, Good
<1>4. Less(World, w) /\ w \in WorldType
  BY <1>1, <1>3, WaitLess DEF Less
<1>5. Less(World, Commit(w))
  BY <1>4, CommitLess, LessTrans
<1> QED BY <1>2, <1>5, LessInv DEF Idle, IInv

LEMMA CloseScreenInv ==
  ASSUME IInv, CloseScreen
  PROVE  IInv'
<1>1. PICK c : c = Commit(World)
  OBVIOUS
<1>2. PICK w : w = Wait(c)
  OBVIOUS
<1>3. Idle /\ Become(CacheClean(w)) /\ op' = op /\ closed' = TRUE
  BY <1>1, <1>2 DEF CloseScreen
<1>4. World \in WorldType
  BY DEF IInv, Good
<1>5. Less(World, c) /\ c \in WorldType
  BY <1>1, <1>4, CommitLess DEF Less
<1>6. Less(World, w) /\ w \in WorldType
  BY <1>2, <1>5, WaitLess, LessTrans DEF Less
<1>7. Less(World, CacheClean(w))
  BY <1>6, CacheCleanLess, LessTrans
<1> QED BY <1>3, <1>7, LessInv DEF Idle

-----------------------------------------------------------------------------
(* The theorems                                                            *)

LEMMA InitInv == Init => IInv
<1> SUFFICES ASSUME Init PROVE IInv
  OBVIOUS
<1>1. NoPixmap \in PixmapRec /\ NoPixmap.cpu = "no" /\ NoPixmap.refcnt = 0
      /\ ~NoPixmap.live /\ NoPixmap.bo = NoBo
  BY DEF NoPixmap, PixmapRec
<1>2. /\ \A p \in Pixmap : pix[p] = NoPixmap
      /\ pix \in [Pixmap -> PixmapRec] /\ op = NoOp /\ stream = Empty /\ jobs = <<>>
      /\ cache = <<>> /\ closed = FALSE
  BY <1>1 DEF Init
<1>3. <<>> \in Seq(Batch) /\ <<>> \in Seq(Bo)
  OBVIOUS
<1>4. World \in WorldType
  BY <1>2, <1>3, EmptyIs DEF World, WorldType
<1>5. UndoneIn(World) = {Empty}
  BY <1>2, WorldIs DEF UndoneIn
<1>6. BosAreOwn(World) /\ AccessedAreUnused(World) /\ Steady(World)
  BY <1>1, <1>2, WorldIs DEF BosAreOwn, AccessedAreUnused, Steady
<1>7. DrawnAreUsed(World) /\ \A batch \in UndoneIn(World) : Strict(batch)
  BY <1>5, EmptyIs DEF DrawnAreUsed
<1> QED BY <1>2, <1>4, <1>6, <1>7, NoOpGood DEF IInv, Good

LEMMA StutterInv ==
  ASSUME IInv, UNCHANGED vars
  PROVE  IInv'
<1>1. Become(World) /\ UNCHANGED <<op, closed>>
  BY WorldIs DEF vars, Become
<1> QED BY <1>1, BecomeInv DEF IInv

LEMMA NextInv ==
  ASSUME IInv, [Next]_vars
  PROVE  IInv'
<1>1. ASSUME NEW p \in Pixmap, NEW how \in {"read", "write"}, PrepareAccess(p, how)
      PROVE  IInv'
  BY <1>1, PrepareAccessInv
<1>2. ASSUME NEW p \in Pixmap, CreatePixmap(p) \/ ModifyPixmapHeader(p) \/ DestroyPixmap(p)
      PROVE  IInv'
  BY <1>2, CreatePixmapInv, ModifyPixmapHeaderInv, DestroyPixmapInv
<1>3. ASSUME NEW p \in Pixmap, NEW fill \in BOOLEAN, PrepareSolid(p, fill)
      PROVE  IInv'
  BY <1>3, PrepareSolidInv
<1>4. ASSUME NEW p \in Pixmap, NEW fill \in BOOLEAN,
             \/ \E s \in Pixmap : PrepareCopy(s, p, fill)
             \/ \E S \in SUBSET (Pixmap \ {p}) : PutTextureImage(S, p, fill)
      PROVE  IInv'
  BY <1>4, PrepareCopyInv, PutTextureImageInv
<1>5. ASSUME NEW p \in Pixmap, NEW fill \in BOOLEAN, NEW S \in Pictures,
             NEW M \in Pictures, NEW masked \in BOOLEAN,
             PrepareComposite(S, M, masked, p, fill)
      PROVE  IInv'
  BY <1>5, PrepareCompositeInv
<1>6. ASSUME NEW fill \in BOOLEAN, Solid(fill) \/ Done(fill)
      PROVE  IInv'
  BY <1>6, SolidInv, DoneInv
<1>7. ASSUME NEW fill \in BOOLEAN, NEW srcX \in Origin, Copy(srcX, fill)
      PROVE  IInv'
  BY <1>7, CopyInv
<1>8. ASSUME NEW fill \in 0..3, CompositeMasked(fill)
      PROVE  IInv'
  BY <1>8, CompositeMaskedInv
<1>9. CASE FinishAccess \/ Flush \/ RunJob \/ CloseScreen \/ UNCHANGED vars
  BY <1>9, FinishAccessInv, FlushInv, RunJobInv, CloseScreenInv, StutterInv
<1> QED
  BY <1>1, <1>2, <1>3, <1>4, <1>5, <1>6, <1>7, <1>8, <1>9 DEF Next

\* The inductive invariant holds in every behaviour: what it says of names only
\* if no stream fills up midway, what it says of use counts only if neither
\* that, nor Xv, nor a composite of a 1x1 pixmap onto itself comes.
THEOREM Invariance == Spec => []IInv
BY InitInv, NextInv, PTL DEF Spec

\* Every variable keeps its type, for every number of pixmaps, bos and batches:
\* a use count is never below -1, and an operation has a bo to draw to.
THEOREM TypeCorrect == Spec => []TypeOK
<1>1. IInv => TypeOK
  BY UndoneTypes, WorldIs DEF IInv, Good, OpGood, TypeOK
<1> QED BY <1>1, Invariance, PTL

LEMMA UndoneIs == UndoneIn(World) = Undone
BY WorldIs DEF UndoneIn, Undone

\* While the CPU has a pixmap no drawing to it is left anywhere, though
\* PrepareAccess waits only for a use count above 0 and for the last batches.
THEOREM CpuCorrect == Plain => (Spec => []CpuSeesDrawing)
<1> SUFFICES ASSUME Plain
             PROVE  Spec => []CpuSeesDrawing
  OBVIOUS
<1>1. IInv => CpuSeesDrawing
  <2> SUFFICES ASSUME IInv, NEW p \in Accessed, NEW batch \in Undone
               PROVE  pix[p].bo \notin batch.writes
    BY DEF CpuSeesDrawing
  <2>1. p \in Pixmap /\ pix[p].cpu # "no" /\ pix[p].refcnt \in Int
    BY UndoneTypes, WorldIs DEF Accessed, IInv, Good, PixmapRec
  <2>2. ~(pix[p].refcnt > 0)
    BY <2>1, WorldIs DEF IInv, Good, AccessedAreUnused
  <2> QED BY <2>1, <2>2, UndoneIs, WorldIs DEF IInv, Good, DrawnAreUsed
<1> QED BY <1>1, Invariance, PTL

-----------------------------------------------------------------------------
(* The rectangles of a group                                               *)

\* Until the first rectangle of a copy its group is empty.
OriginsInv ==
  /\ op \in Op
  /\ BatchSharesOrigin
  /\ op.kind \in {"copy", "comp"} /\ op.prev = -1 => op.rects = <<>>

LEMMA NoRects ==
  ASSUME op' \in Op, op'.rects = <<>>
  PROVE  OriginsInv'
BY StreamAssumption DEF OriginsInv, BatchSharesOrigin

\* All rectangles of a group have the origin that they are drawn with, and the
\* array of rectangles is not left, for origins that are not negative.
THEOREM OriginsCorrect == Origin \subseteq Nat => (Spec => []BatchSharesOrigin)
<1> SUFFICES ASSUME Origin \subseteq Nat
             PROVE  Spec => []BatchSharesOrigin
  OBVIOUS
<1>1. Init => OriginsInv
  <2> SUFFICES ASSUME Init PROVE OriginsInv
    OBVIOUS
  <2>1. op = NoOp /\ op \in Op /\ op.rects = <<>>
    BY NoOpGood DEF Init, NoOp, OpGood
  <2> QED BY <2>1, StreamAssumption DEF OriginsInv, BatchSharesOrigin
<1>2. OriginsInv /\ (IInv)' /\ [Next]_vars => OriginsInv'
  <2> SUFFICES ASSUME OriginsInv, IInv', [Next]_vars
               PROVE  OriginsInv'
    OBVIOUS
  <2>1. op' \in Op /\ op \in Op /\ op.rects \in Seq(Origin \cup {-1})
    BY DEF IInv, OpGood, OriginsInv, Op
  <2>2. CASE op' = op
    BY <2>2 DEF OriginsInv, BatchSharesOrigin
  <2>3. ASSUME NEW fill \in BOOLEAN, Solid(fill)
        PROVE  OriginsInv'
    <3>1. PICK full \in BOOLEAN : full <=> Len(op.rects) >= MaxRects
      <4>1. CASE Len(op.rects) >= MaxRects
        BY <4>1
      <4>2. CASE ~(Len(op.rects) >= MaxRects)
        BY <4>2
      <4> QED BY <4>1, <4>2
    <3>2. /\ op.kind = "solid"
          /\ op' = [op EXCEPT !.rects = Append(IF full THEN <<>> ELSE @, -1)]
      BY <2>3, <3>1 DEF Solid
    <3>3. PICK kept : kept = IF full THEN <<>> ELSE op.rects
      OBVIOUS
    <3>4. kept \in Seq(Origin \cup {-1}) /\ Len(kept) + 1 <= MaxRects
      <4>1. CASE full
        <5>1. kept = <<>> /\ Len(kept) = 0
          BY <3>3, <4>1
        <5> QED BY <5>1, StreamAssumption
      <4>2. CASE ~full
        <5>1. kept = op.rects /\ Len(kept) \in Nat /\ ~(Len(kept) >= MaxRects)
          BY <2>1, <3>1, <3>3, <4>2, LenProperties
        <5> QED BY <2>1, <5>1, StreamAssumption
      <4> QED BY <4>1, <4>2
    <3>5. op'.kind = "solid" /\ op'.rects = Append(kept, -1)
      BY <2>1, <3>2, <3>3 DEF Op
    <3>6. Len(op'.rects) <= MaxRects
      BY <3>4, <3>5, AppendProperties
    <3> QED BY <2>1, <3>5, <3>6 DEF OriginsInv, BatchSharesOrigin
  <2>4. ASSUME NEW fill \in BOOLEAN, NEW srcX \in Origin, Copy(srcX, fill)
        PROVE  OriginsInv'
    <3>1. PICK flush \in BOOLEAN : flush <=> (NewGroup(srcX) /\ op.prev > -1)
      <4>1. CASE NewGroup(srcX) /\ op.prev > -1
        BY <4>1
      <4>2. CASE ~(NewGroup(srcX) /\ op.prev > -1)
        BY <4>2
      <4> QED BY <4>1, <4>2
    <3>2. /\ op.kind \in {"copy", "comp"}
          /\ op' = [op EXCEPT !.rects = Append(IF flush THEN <<>> ELSE @, srcX),
                              !.prev = srcX]
      BY <2>4, <3>1 DEF Copy
    <3>3. PICK kept : kept = IF flush THEN <<>> ELSE op.rects
      OBVIOUS
    <3>4. op.prev \in Nat \cup {-1} /\ srcX \in Nat
      BY <2>1 DEF Op
    <3>5. /\ kept \in Seq(Origin \cup {-1}) /\ Len(kept) + 1 <= MaxRects
          /\ \A i \in DOMAIN kept : kept[i] = srcX
      <4>1. CASE kept = <<>>
        <5>1. Len(kept) = 0 /\ DOMAIN kept = {}
          BY <4>1
        <5> QED BY <4>1, <5>1, StreamAssumption
      <4>2. CASE kept # <<>>
        <5>1. ~flush /\ kept = op.rects
          BY <3>3, <4>2
        <5>2. op.prev # -1
          BY <3>2, <4>2, <5>1 DEF OriginsInv
        <5>3. op.prev > -1
          BY <3>4, <5>2
        <5>4. op.prev = srcX /\ ~(Len(op.rects) >= MaxRects)
          BY <3>1, <5>1, <5>3 DEF NewGroup
        <5>5. \A i \in DOMAIN op.rects : op.rects[i] = srcX
          BY <3>2, <5>4 DEF OriginsInv, BatchSharesOrigin
        <5>6. Len(op.rects) \in Nat
          BY <2>1, LenProperties
        <5> QED BY <2>1, <5>1, <5>4, <5>5, <5>6, StreamAssumption
      <4> QED BY <4>1, <4>2
    <3>6. op'.kind = op.kind /\ op'.rects = Append(kept, srcX) /\ op'.prev = srcX
      BY <2>1, <3>2, <3>3 DEF Op
    <3>7. /\ Len(op'.rects) <= MaxRects
          /\ \A i \in DOMAIN op'.rects : op'.rects[i] = srcX
      <4>1. /\ Len(kept) \in Nat /\ DOMAIN kept = 1..Len(kept)
            /\ DOMAIN op'.rects = 1..Len(kept) + 1 /\ Len(op'.rects) = Len(kept) + 1
        BY <3>5, <3>6, LenProperties, AppendProperties
      <4>2. /\ \A i \in 1..Len(kept) : op'.rects[i] = kept[i]
            /\ op'.rects[Len(kept) + 1] = srcX
        BY <3>5, <3>6, AppendProperties
      <4>3. \A i \in DOMAIN op'.rects : i \in DOMAIN kept \/ i = Len(kept) + 1
        BY <4>1
      <4> QED BY <3>5, <4>1, <4>2, <4>3
    <3> QED BY <2>1, <3>4, <3>6, <3>7 DEF OriginsInv, BatchSharesOrigin
  <2>5. ASSUME NEW fill \in BOOLEAN, Done(fill)
        PROVE  OriginsInv'
    <3>1. op'.rects = <<>>
      BY <2>5 DEF Done, NoOp
    <3> QED BY <2>1, <3>1, NoRects
  <2>6. ASSUME NEW p \in Pixmap, NEW fill \in BOOLEAN,
               \/ PrepareSolid(p, fill)
               \/ \E s \in Pixmap : PrepareCopy(s, p, fill)
               \/ \E S, M \in Pictures, masked \in BOOLEAN :
                    PrepareComposite(S, M, masked, p, fill)
        PROVE  OriginsInv'
    <3>1. \E kind, src, msk, dst : op' = OpInit(kind, src, msk, dst)
      BY <2>6 DEF PrepareSolid, PrepareCopy, PrepareComposite
    <3>2. op'.rects = <<>>
      BY <3>1 DEF OpInit, NoOp
    <3> QED BY <2>1, <3>2, NoRects
  <2>7. ASSUME NEW p \in Pixmap,
               \/ \E how \in {"read", "write"} : PrepareAccess(p, how)
               \/ CreatePixmap(p) \/ ModifyPixmapHeader(p) \/ DestroyPixmap(p)
               \/ \E S \in SUBSET (Pixmap \ {p}), fill \in BOOLEAN :
                    PutTextureImage(S, p, fill)
        PROVE  op' = op
    BY <2>7 DEF PrepareAccess, CreatePixmap, ModifyPixmapHeader, DestroyPixmap,
                PutTextureImage
  <2>8. CASE \/ FinishAccess \/ Flush \/ RunJob \/ CloseScreen \/ UNCHANGED vars
             \/ \E fill \in 0..3 : CompositeMasked(fill)
    BY <2>2, <2>8 DEF FinishAccess, Flush, RunJob, CloseScreen, vars, CompositeMasked
  <2> QED BY <2>2, <2>3, <2>4, <2>5, <2>6, <2>7, <2>8 DEF Next
<1>3. OriginsInv => BatchSharesOrigin
  BY DEF OriginsInv
<1> QED BY <1>1, <1>2, <1>3, Invariance, PTL DEF Spec
=============================================================================
