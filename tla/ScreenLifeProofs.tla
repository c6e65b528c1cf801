-------------------------- MODULE ScreenLifeProofs --------------------------
(***************************************************************************)
(* The counts of the DRM connection are right for any number of screens    *)
(* and server generations.                                                 *)
(***************************************************************************)
EXTENDS ScreenLife, FiniteSetTheorems, TLAPS

(* The sets that CountCoversHolders counts.                                *)
Fds      == {s \in Screen : scr[s].drmFD}
Scanouts == {s \in Screen : scr[s].scanout}
Entered  == {s \in Screen : scr[s].entered}

\* What holds of the connection at all times.
Base(c) ==
  /\ c \in Connection
  /\ c.asserts
  /\ ~c.denied
  /\ c.fd <=> c.open_count > 0
  /\ ~c.fd => c.master_count = 0

\* What holds of it until a fatal error.
Sound(c) == Base(c) /\ (c.master_count > 0 => c.kernel)

\* How far a live screen is, by the phase and whether it is still to be
\* called in it: has it a scanout, has it the VT.
Stage(s) ==
  LET r == scr[s]
      p == server.phase
      todo == s \in server.todo
  IN  /\ p = "probe" => ~r.scanout /\ ~r.entered
      /\ p = "delete" => ~r.scanout /\ ~r.entered /\ ~todo
      /\ p = "init" => (r.scanout <=> ~todo) /\ (r.entered <=> ~todo)
      /\ p \in {"run", "leaving", "away", "entering"} => r.scanout
      /\ p = "run" => r.entered
      /\ p = "leaving" => (r.entered <=> todo)
      /\ p = "away" => ~r.entered
      /\ p = "entering" => (r.entered <=> ~todo)
      /\ p = "closing" => (r.scanout <=> todo) /\ (r.entered => todo)
      /\ p \notin {"abort", "dead"} => (r.vtSema <=> r.scanout)

ScreenShape(s) ==
  LET r == scr[s]
      p == server.phase
      todo == s \in server.todo
  IN  /\ r.life = "live" => r.drmFD /\ Stage(s)
      /\ r.life # "live" => ~r.scanout /\ ~r.entered /\ ~r.vtSema
      /\ r.life = "new" => p = "probe" /\ ~r.drmFD
      /\ p = "probe" => (todo <=> r.life = "new") /\ r.life # "freed"
      /\ p = "delete" => (todo <=> r.life = "failed")
      /\ p \in {"init", "leaving", "entering", "closing", "abort"} =>
           (todo => r.life = "live")
      /\ r.drmFD => conn.fd

Counts ==
  /\ server.phase \notin {"abort", "dead"} =>
       Sound(conn) /\ (conn.fd => conn.master_count > 0) /\ CountCoversHolders
  /\ server.phase = "abort" =>
       Base(conn) /\ conn.master_count >= Cardinality(server.todo)
  /\ server.phase = "dead" => Base(conn)

IInv == TypeOK /\ (\A s \in Screen : ScreenShape(s)) /\ Counts

-----------------------------------------------------------------------------
(* The operations of the connection                                        *)

\* Once master has been counted, SetDRMMaster counts it once more, asking
\* nothing of the kernel.
LEMMA SetCounts ==
  ASSUME NEW c, Sound(c), c.fd, c.master_count > 0, NEW granted \in BOOLEAN
  PROVE  LET r == SetDRMMaster(c, granted) IN
         /\ ~MasterRefused(c, granted)
         /\ Sound(r) /\ r.fd /\ r.open_count = c.open_count
         /\ r.master_count = c.master_count + 1
<1> DEFINE r == SetDRMMaster(c, granted)
<1>1. /\ c.master_count \in Nat /\ c.master_count + 1 \in Nat
      /\ c.master_count # 0 /\ c \in Connection /\ c.kernel
  BY DEF Sound, Base, Connection
<1>2. ~MasterRefused(c, granted)
  BY <1>1 DEF MasterRefused
<1>3. r = [c EXCEPT !.kernel = TRUE, !.asserts = TRUE,
                    !.master_count = c.master_count + 1]
  BY <1>1, <1>2 DEF SetDRMMaster, Assert, Connection, Sound, Base
<1> HIDE DEF r
<1>4. /\ r \in Connection /\ r.kernel /\ r.asserts /\ (r.fd <=> c.fd)
      /\ (r.denied <=> c.denied) /\ r.open_count = c.open_count
      /\ r.master_count = c.master_count + 1
  BY <1>1, <1>3 DEF Connection
<1>5. Sound(r)
  BY <1>4 DEF Sound, Base
<1> QED
  BY <1>2, <1>4, <1>5 DEF r

\* A KMS request of a master changes nothing.
LEMMA KmsGranted ==
  ASSUME NEW c, Sound(c), c.master_count > 0
  PROVE  LET r == Kms(c) IN
         /\ Sound(r) /\ (r.fd <=> c.fd) /\ r.open_count = c.open_count
         /\ r.master_count = c.master_count
<1> DEFINE r == Kms(c)
<1>1. c \in Connection /\ c.kernel /\ ~c.denied
  BY DEF Sound, Base
<1>2. r = [c EXCEPT !.denied = FALSE]
  BY <1>1 DEF Kms, Connection
<1> HIDE DEF r
<1>3. /\ r \in Connection /\ r.kernel /\ r.asserts = c.asserts /\ r.fd = c.fd
      /\ ~r.denied /\ r.open_count = c.open_count
      /\ r.master_count = c.master_count
  BY <1>1, <1>2 DEF Connection
<1> QED
  BY <1>3 DEF Sound, Base, r

\* An assert() that holds changes nothing.
LEMMA AssertTrue ==
  ASSUME NEW c, Sound(c), NEW b, b
  PROVE  LET r == Assert(c, b) IN
         /\ Sound(r) /\ (r.fd <=> c.fd) /\ r.open_count = c.open_count
         /\ r.master_count = c.master_count
<1> DEFINE r == Assert(c, b)
<1>1. c \in Connection /\ c.asserts /\ c.asserts \in BOOLEAN
  BY DEF Sound, Base, Connection
<1>2. r = [c EXCEPT !.asserts = TRUE]
  BY <1>1 DEF Assert
<1> HIDE DEF r
<1>3. /\ r \in Connection /\ (r.kernel <=> c.kernel) /\ r.asserts
      /\ (r.fd <=> c.fd) /\ (r.denied <=> c.denied)
      /\ r.open_count = c.open_count /\ r.master_count = c.master_count
  BY <1>1, <1>2 DEF Connection
<1> QED
  BY <1>3 DEF Sound, Base, r

\* fail1 of ScreenInit takes master from the kernel and leaves the counts.
LEMMA Fail1Counts ==
  ASSUME NEW c, Base(c)
  PROVE  LET r == Fail1(c) IN
         /\ Base(r) /\ (r.fd <=> c.fd) /\ r.open_count = c.open_count
         /\ r.master_count = c.master_count
<1> DEFINE r == Fail1(c)
<1>1. c \in Connection /\ r = [c EXCEPT !.kernel = FALSE]
  BY DEF Base, Fail1
<1> HIDE DEF r
<1>2. /\ r \in Connection /\ (r.asserts <=> c.asserts)
      /\ (r.fd <=> c.fd) /\ (r.denied <=> c.denied)
      /\ r.open_count = c.open_count /\ r.master_count = c.master_count
  BY <1>1 DEF Connection
<1> QED
  BY <1>2 DEF Base, r

\* EnterVT counts master once and sets the modes as master.
LEMMA EnterCounts ==
  ASSUME NEW c, Sound(c), c.fd, c.master_count > 0, NEW granted \in BOOLEAN
  PROVE  LET r == EnterVT(c, granted) IN
         /\ ~MasterRefused(c, granted)
         /\ Sound(r) /\ r.fd /\ r.open_count = c.open_count
         /\ r.master_count = c.master_count + 1
<1>1. c.master_count + 1 > 0
  BY DEF Sound, Base, Connection
<1> QED
  BY SetCounts, KmsGranted, <1>1 DEF EnterVT

\* With a count to give back, DropDRMMaster gives it back; if the kernel was
\* not told the truth, it may keep the last one.
LEMMA DropCounts ==
  ASSUME NEW c, Base(c), c.fd, c.master_count > 0
  PROVE  LET r == DropDRMMaster(c) IN
         /\ Base(r) /\ r.fd /\ r.open_count = c.open_count
         /\ r.master_count >= c.master_count - 1
         /\ Sound(c) => Sound(r) /\ r.master_count = c.master_count - 1
<1> DEFINE r == DropDRMMaster(c)
<1>1. /\ c.master_count \in Nat /\ c.master_count - 1 \in Nat
      /\ c \in Connection /\ c.asserts /\ c.kernel \in BOOLEAN
  BY DEF Base, Connection
<1>2. CASE c.master_count = 1 /\ ~c.kernel
  <2>1. r = [c EXCEPT !.asserts = TRUE]
    BY <1>1, <1>2 DEF DropDRMMaster, Assert
  <2> HIDE DEF r
  <2>2. /\ r \in Connection /\ (r.kernel <=> c.kernel) /\ r.asserts
        /\ (r.fd <=> c.fd) /\ (r.denied <=> c.denied)
        /\ r.open_count = c.open_count /\ r.master_count = c.master_count
    BY <1>1, <2>1 DEF Connection
  <2> QED BY <1>1, <1>2, <2>2 DEF Base, Sound, r
<1>3. CASE ~(c.master_count = 1 /\ ~c.kernel)
  <2> DEFINE k == c.kernel /\ c.master_count # 1
  <2>1. r = [c EXCEPT !.asserts = TRUE, !.kernel = k,
                      !.master_count = c.master_count - 1]
    BY <1>1, <1>3 DEF DropDRMMaster, Assert, Connection
  <2>2. k \in BOOLEAN /\ (Sound(c) /\ c.master_count - 1 > 0 => k)
    BY <1>1 DEF Sound
  <2> HIDE DEF r, k
  <2>3. /\ r \in Connection /\ (r.kernel <=> k) /\ r.asserts
        /\ (r.fd <=> c.fd) /\ (r.denied <=> c.denied)
        /\ r.open_count = c.open_count
        /\ r.master_count = c.master_count - 1
    BY <1>1, <2>1, <2>2 DEF Connection
  <2> QED BY <1>1, <2>2, <2>3 DEF Base, Sound, r
<1> QED BY <1>2, <1>3

\* Opening the connection counts an opening and a master, or changes nothing.
LEMMA OpenCounts ==
  ASSUME NEW c, Sound(c), c.fd => c.master_count > 0, NEW opened \in BOOLEAN
  PROVE  LET r == OpenDRM(c, opened) IN
         /\ Sound(r)
         /\ CanOpenDRM(c, opened) =>
              /\ r.fd
              /\ r.open_count = c.open_count + 1
              /\ r.master_count = c.master_count + 1
         /\ ~CanOpenDRM(c, opened) =>
              /\ (r.fd <=> c.fd) /\ r.open_count = c.open_count
              /\ r.master_count = c.master_count
<1> DEFINE r == OpenDRM(c, opened)
<1>1. /\ c \in Connection /\ c.asserts /\ ~c.denied
      /\ c.open_count \in Nat /\ c.open_count + 1 \in Nat
      /\ c.master_count \in Nat /\ c.master_count + 1 \in Nat
      /\ c.kernel \in BOOLEAN
  BY DEF Sound, Base, Connection
<1>2. CASE c.fd
  <2>1. c.open_count > 0
    BY <1>2 DEF Sound, Base
  <2>2. r = [c EXCEPT !.asserts = TRUE, !.open_count = c.open_count + 1,
                      !.master_count = c.master_count + 1]
    BY <1>1, <1>2, <2>1 DEF OpenDRM, Assert, Connection
  <2> HIDE DEF r
  <2>3. /\ r \in Connection /\ (r.kernel <=> c.kernel) /\ r.asserts
        /\ r.fd /\ ~r.denied /\ r.open_count = c.open_count + 1
        /\ r.master_count = c.master_count + 1
    BY <1>1, <1>2, <2>2 DEF Connection
  <2>4. c.kernel
    BY <1>2 DEF Sound
  <2> QED BY <1>1, <1>2, <2>3, <2>4 DEF Sound, Base, r, CanOpenDRM
<1>3. CASE ~c.fd
  <2>1. c.open_count = 0 /\ c.master_count = 0
    BY <1>1, <1>3 DEF Sound, Base
  <2>2. CASE opened
    <3>1. r = [c EXCEPT !.asserts = TRUE, !.fd = TRUE, !.kernel = TRUE,
                        !.open_count = 1, !.master_count = 1]
      BY <1>1, <1>3, <2>1, <2>2 DEF OpenDRM, Assert, Connection
    <3> HIDE DEF r
    <3>2. /\ r \in Connection /\ r.kernel /\ r.asserts /\ r.fd
          /\ ~r.denied /\ r.open_count = 1 /\ r.master_count = 1
      BY <1>1, <3>1 DEF Connection
    <3>3. CanOpenDRM(c, opened)
      BY <2>2 DEF CanOpenDRM
    <3>4. Sound(r)
      BY <3>2 DEF Sound, Base
    <3> QED BY <2>1, <3>2, <3>3, <3>4 DEF r
  <2>3. CASE ~opened
    <3>1. r = [c EXCEPT !.asserts = TRUE]
      BY <1>1, <1>3, <2>1, <2>3 DEF OpenDRM, Assert, Connection
    <3> HIDE DEF r
    <3>2. /\ r \in Connection /\ r.asserts /\ (r.fd <=> c.fd)
          /\ ~r.denied /\ r.open_count = 0 /\ r.master_count = 0
      BY <1>1, <2>1, <3>1 DEF Connection
    <3> QED BY <1>3, <2>1, <2>3, <3>2 DEF Sound, Base, r, CanOpenDRM
  <2> QED BY <2>2, <2>3
<1> QED BY <1>2, <1>3

\* What CloseDRM does to a connection that is open with a count of n: if it
\* was the only one it needs to have given master back.
LEMMA CloseCounts ==
  ASSUME NEW c, Sound(c), c.fd, c.open_count = 1 => c.master_count = 0
  PROVE  LET r == CloseDRM(c) IN
         /\ Sound(r) /\ r.open_count = c.open_count - 1
         /\ r.fd <=> c.open_count > 1
         /\ r.master_count = c.master_count
<1> DEFINE r == CloseDRM(c)
<1>1. /\ c \in Connection /\ c.asserts /\ ~c.denied
      /\ c.open_count \in Nat /\ c.open_count > 0
      /\ c.open_count - 1 \in Nat /\ c.master_count \in Nat
  BY DEF Sound, Base, Connection
<1>2. CASE c.open_count = 1
  <2>1. r = [c EXCEPT !.asserts = TRUE, !.open_count = 0,
                      !.fd = FALSE, !.kernel = FALSE]
    BY <1>1, <1>2 DEF CloseDRM, Assert, Connection
  <2> HIDE DEF r
  <2>2. /\ r \in Connection /\ r.asserts /\ ~r.fd /\ ~r.denied
        /\ r.open_count = 0 /\ r.master_count = 0
    BY <1>1, <1>2, <2>1 DEF Connection
  <2> QED BY <1>2, <2>2 DEF Sound, Base, r
<1>3. CASE c.open_count # 1
  <2>1. r = [c EXCEPT !.open_count = c.open_count - 1]
    BY <1>1, <1>3 DEF CloseDRM, Connection
  <2> HIDE DEF r
  <2>2. /\ r \in Connection /\ r.asserts /\ r.fd /\ ~r.denied
        /\ (r.kernel <=> c.kernel)
        /\ r.open_count = c.open_count - 1
        /\ r.master_count = c.master_count
    BY <1>1, <2>1 DEF Connection
  <2> QED BY <1>1, <1>3, <2>2 DEF Sound, Base, r
<1> QED BY <1>2, <1>3

\* Opening the connection and giving it back, as a PreInit that fails late
\* does, leaves it as it was.
LEMMA OpenAndClose ==
  ASSUME NEW c, Sound(c), c.fd => c.master_count > 0
  PROVE  LET r == CloseDRM(DropDRMMaster(OpenDRM(c, TRUE))) IN
         /\ Sound(r) /\ (r.fd <=> c.fd) /\ r.open_count = c.open_count
         /\ r.master_count = c.master_count
<1> DEFINE o == OpenDRM(c, TRUE)
           d == DropDRMMaster(o)
<1>1. /\ Sound(o) /\ o.fd /\ o.open_count = c.open_count + 1
      /\ o.master_count = c.master_count + 1
  BY OpenCounts DEF CanOpenDRM
<1>2. /\ c.master_count \in Nat /\ c.open_count \in Nat
      /\ c.fd <=> c.open_count > 0
      /\ ~c.fd => c.master_count = 0
  BY DEF Sound, Base, Connection
<1> HIDE DEF o
<1>3. Base(o) /\ o.master_count > 0
  BY <1>1, <1>2 DEF Sound
<1>4. /\ Sound(d) /\ d.fd /\ d.open_count = c.open_count + 1
      /\ d.master_count = c.master_count
  BY <1>1, <1>2, <1>3, DropCounts
<1> HIDE DEF d
<1>5. d.open_count = 1 => d.master_count = 0
  BY <1>2, <1>4
<1>6. LET r == CloseDRM(d) IN
      /\ Sound(r) /\ (r.fd <=> c.fd) /\ r.open_count = c.open_count
      /\ r.master_count = c.master_count
  BY <1>2, <1>4, <1>5, CloseCounts
<1> QED BY <1>6 DEF d, o

-----------------------------------------------------------------------------
(* Sets of screens, and the server's calls                                 *)

LEMMA Sizes ==
  ASSUME NEW S \in SUBSET Screen
  PROVE  IsFiniteSet(S) /\ Cardinality(S) \in Nat
BY FS_Subset, FS_CardinalityType, LifeAssumption

LEMMA Added ==
  ASSUME NEW S \in SUBSET Screen, NEW s \in Screen, s \notin S
  PROVE  Cardinality(S \cup {s}) = Cardinality(S) + 1
BY Sizes, FS_AddElement

LEMMA Removed ==
  ASSUME NEW S \in SUBSET Screen, NEW s \in S
  PROVE  Cardinality(S \ {s}) = Cardinality(S) - 1
BY Sizes, FS_RemoveElement

LEMMA Fewer ==
  ASSUME NEW T \in SUBSET Screen, NEW S \in SUBSET T
  PROVE  Cardinality(S) <= Cardinality(T)
BY Sizes, FS_Subset

\* Goto changes the phase and who is to be called in it.
LEMMA GotoFields ==
  ASSUME TypeOK, NEW p \in Phase, NEW T \in SUBSET Screen, Goto(p, T)
  PROVE  /\ server' \in [phase : Phase, todo : SUBSET Screen, gen : Nat]
         /\ server'.phase = p /\ server'.todo = T
BY DEF TypeOK, Goto

\* After a call the server is with the next screen or in the next phase.
LEMMA CalledFields ==
  ASSUME TypeOK, NEW s, NEW p \in Phase, NEW T \in SUBSET Screen,
         Called(s, p, T)
  PROVE  /\ server' \in [phase : Phase, todo : SUBSET Screen, gen : Nat]
         /\ \/ /\ server.todo = {s}
               /\ server'.phase = p /\ server'.todo = T
            \/ /\ server.todo # {s}
               /\ server'.phase = server.phase
               /\ server'.todo = server.todo \ {s}
<1>1. /\ server.phase \in Phase /\ server.todo \in SUBSET Screen
      /\ server.todo \ {s} \in SUBSET Screen
  BY DEF TypeOK
<1>2. CASE server.todo = {s}
  BY <1>2, GotoFields DEF Called
<1>3. CASE server.todo # {s}
  BY <1>1, <1>3, GotoFields DEF Called
<1> QED BY <1>2, <1>3

Bit(b) == IF b THEN 1 ELSE 0

\* What a change of one of its elements does to the size of a set that a
\* Boolean function on the screens describes.
LEMMA OneBit ==
  ASSUME NEW S \in SUBSET Screen, NEW T \in SUBSET Screen, NEW s \in Screen,
         \A t \in Screen \ {s} : t \in T <=> t \in S
  PROVE  Cardinality(T) = Cardinality(S) + Bit(s \in T) - Bit(s \in S)
<1>1. Cardinality(S) \in Nat
  BY Sizes
<1>2. CASE s \in S <=> s \in T
  <2>1. S = T
    BY <1>2
  <2> QED BY <1>1, <2>1 DEF Bit
<1>3. CASE s \in S /\ s \notin T
  <2>1. T = S \ {s}
    BY <1>3
  <2> QED BY <1>1, <1>3, <2>1, Removed DEF Bit
<1>4. CASE s \notin S /\ s \in T
  <2>1. T = S \cup {s}
    BY <1>4
  <2> QED BY <1>1, <1>4, <2>1, Added DEF Bit
<1> QED BY <1>2, <1>3, <1>4

Held == Cardinality(Fds) + Cardinality(Scanouts) + Cardinality(Entered)

LEMMA HeldType == Held \in Nat
BY Sizes DEF Held, Fds, Scanouts, Entered

LEMMA CoversHeld ==
  CountCoversHolders <=>
    (server.phase \notin {"abort", "dead"} => conn.master_count >= Held)
BY DEF CountCoversHolders, Held, Fds, Scanouts, Entered

\* What a screen holds is what a change of its record changes.
HeldBy(r) == Bit(r.drmFD) + Bit(r.scanout) + Bit(r.entered)

LEMMA HeldStep ==
  ASSUME scr \in [Screen -> ScreenRec], scr' \in [Screen -> ScreenRec],
         NEW s \in Screen, \A t \in Screen \ {s} : scr'[t] = scr[t]
  PROVE  /\ Held' = Held + HeldBy(scr'[s]) - HeldBy(scr[s])
         /\ Held' >= HeldBy(scr'[s])
<1>1. /\ Fds \in SUBSET Screen /\ Fds' \in SUBSET Screen
      /\ Scanouts \in SUBSET Screen /\ Scanouts' \in SUBSET Screen
      /\ Entered \in SUBSET Screen /\ Entered' \in SUBSET Screen
  BY DEF Fds, Scanouts, Entered
<1>2. Cardinality(Fds') =
        Cardinality(Fds) + Bit(scr'[s].drmFD) - Bit(scr[s].drmFD)
  <2>1. \A t \in Screen \ {s} : t \in Fds' <=> t \in Fds
    BY DEF Fds
  <2>2. (s \in Fds' <=> scr'[s].drmFD) /\ (s \in Fds <=> scr[s].drmFD)
    BY DEF Fds
  <2> QED BY <1>1, <2>1, <2>2, OneBit DEF Bit
<1>3. Cardinality(Scanouts') =
        Cardinality(Scanouts) + Bit(scr'[s].scanout) - Bit(scr[s].scanout)
  <2>1. \A t \in Screen \ {s} : t \in Scanouts' <=> t \in Scanouts
    BY DEF Scanouts
  <2>2. /\ s \in Scanouts' <=> scr'[s].scanout
        /\ s \in Scanouts <=> scr[s].scanout
    BY DEF Scanouts
  <2> QED BY <1>1, <2>1, <2>2, OneBit DEF Bit
<1>4. Cardinality(Entered') =
        Cardinality(Entered) + Bit(scr'[s].entered) - Bit(scr[s].entered)
  <2>1. \A t \in Screen \ {s} : t \in Entered' <=> t \in Entered
    BY DEF Entered
  <2>2. /\ s \in Entered' <=> scr'[s].entered
        /\ s \in Entered <=> scr[s].entered
    BY DEF Entered
  <2> QED BY <1>1, <2>1, <2>2, OneBit DEF Bit
<1>5. /\ Cardinality(Fds) \in Nat /\ Cardinality(Scanouts) \in Nat
      /\ Cardinality(Entered) \in Nat
  BY Sizes, <1>1
<1>6. \A b : Bit(b) \in Nat
  BY DEF Bit
<1>7. \A S \in SUBSET Screen : s \in S => Cardinality(S) > 0
  BY Sizes, FS_EmptySet
<1>8. /\ Cardinality(Fds') >= Bit(scr'[s].drmFD)
      /\ Cardinality(Scanouts') >= Bit(scr'[s].scanout)
      /\ Cardinality(Entered') >= Bit(scr'[s].entered)
  <2>1. /\ Cardinality(Fds') \in Nat /\ Cardinality(Scanouts') \in Nat
        /\ Cardinality(Entered') \in Nat
    BY Sizes, <1>1
  <2>2. /\ scr'[s].drmFD => s \in Fds'
        /\ scr'[s].scanout => s \in Scanouts'
        /\ scr'[s].entered => s \in Entered'
    BY DEF Fds, Scanouts, Entered
  <2> QED BY <1>1, <1>7, <2>1, <2>2 DEF Bit
<1>9. Held' = Held + HeldBy(scr'[s]) - HeldBy(scr[s])
  BY <1>2, <1>3, <1>4, <1>5, <1>6 DEF Held, HeldBy
<1>10. Held' >= HeldBy(scr'[s])
  <2>1. /\ Cardinality(Fds') \in Nat /\ Cardinality(Scanouts') \in Nat
        /\ Cardinality(Entered') \in Nat
    BY Sizes, <1>1
  <2> QED BY <1>6, <1>8, <2>1 DEF Held, HeldBy
<1> QED BY <1>9, <1>10

-----------------------------------------------------------------------------
(* The initial state and the steps                                         *)

LEMMA InitInv == Init => IInv
<1> SUFFICES ASSUME Init PROVE IInv
  OBVIOUS
<1>1. TypeOK
  BY DEF Init, TypeOK, Connection, ScreenRec, Phase
<1>2. \A s \in Screen : ScreenShape(s)
  BY DEF Init, ScreenShape, Stage
<1>3. Sound(conn)
  BY <1>1 DEF Init, Sound, Base, TypeOK
<1>4. Fds = {} /\ Scanouts = {} /\ Entered = {}
  BY DEF Init, Fds, Scanouts, Entered
<1>5. CountCoversHolders
  BY <1>4, FS_EmptySet, CoversHeld DEF Init, Held
<1>6. Counts
  BY <1>3, <1>5 DEF Init, Counts
<1> QED BY <1>1, <1>2, <1>6 DEF IInv

\* What PreInit does to the connection and to its screen, and how they were.
LEMMA PreInitChanges ==
  ASSUME IInv, NEW s \in Screen, NEW how \in PreInitEnd(s), PreInit(s, how),
         NEW holds, holds <=> how \in {"bufs", "ok"}
  PROVE  /\ server.phase = "probe" /\ s \in server.todo
         /\ scr[s].life = "new" /\ ~scr[s].drmFD /\ ~scr[s].scanout
         /\ ~scr[s].entered /\ ~scr[s].vtSema
         /\ conn.master_count \in Nat /\ conn.master_count >= Held
         /\ scr' \in [Screen -> ScreenRec]
         /\ \A t \in Screen \ {s} : scr'[t] = scr[t]
         /\ scr'[s].life = IF how = "ok" THEN "live" ELSE "failed"
         /\ scr'[s].drmFD <=> holds
         /\ scr'[s].scanout = scr[s].scanout
         /\ scr'[s].entered = scr[s].entered
         /\ scr'[s].vtSema = scr[s].vtSema
         /\ Sound(conn') /\ (conn'.fd => conn'.master_count > 0)
         /\ conn.fd \/ holds => conn'.fd
         /\ conn'.master_count = conn.master_count + Bit(holds)
         /\ conn'.open_count = conn.open_count + Bit(holds)
<1>1. /\ server.phase = "probe" /\ s \in server.todo
      /\ scr \in [Screen -> ScreenRec] /\ conn \in Connection
  BY DEF PreInit, IsNext, IInv, TypeOK
<1>2. /\ how \in {"early", "open", "fail2", "bufs", "ok"}
      /\ Sound(conn) /\ (conn.fd => conn.master_count > 0)
      /\ conn.master_count \in Nat /\ conn.open_count \in Nat
      /\ conn.master_count >= Held
  BY <1>1, CoversHeld DEF IInv, Counts, PreInitEnd, Connection
<1> DEFINE n == [scr[s] EXCEPT !.drmFD = how \in {"bufs", "ok"},
                               !.life = IF how = "ok" THEN "live" ELSE "failed"]
<1>3. /\ scr' \in [Screen -> ScreenRec]
      /\ \A t \in Screen \ {s} : scr'[t] = scr[t]
      /\ scr'[s].life = IF how = "ok" THEN "live" ELSE "failed"
      /\ scr'[s].drmFD <=> holds
      /\ scr'[s].scanout = scr[s].scanout
      /\ scr'[s].entered = scr[s].entered
      /\ scr'[s].vtSema = scr[s].vtSema
  <2>1. scr[s] \in ScreenRec /\ (how \in {"bufs", "ok"}) \in BOOLEAN
    BY <1>1
  <2>2. scr' = [scr EXCEPT ![s] = n]
    BY <1>1, <2>1 DEF PreInit, ScreenRec
  <2>3. /\ n \in ScreenRec
        /\ n.life = IF how = "ok" THEN "live" ELSE "failed"
        /\ n.drmFD <=> holds
        /\ n.scanout = scr[s].scanout /\ n.entered = scr[s].entered
        /\ n.vtSema = scr[s].vtSema
    BY <2>1 DEF ScreenRec
  <2> HIDE DEF n
  <2> QED BY <1>1, <2>2, <2>3
<1> HIDE DEF n
<1>4. /\ Sound(conn') /\ (conn'.fd => conn'.master_count > 0)
      /\ (conn.fd \/ holds => conn'.fd)
      /\ conn'.master_count = conn.master_count + Bit(holds)
      /\ conn'.open_count = conn.open_count + Bit(holds)
  <2>1. CASE how = "early"
    <3>1. conn' = conn
      BY <2>1 DEF PreInit
    <3> QED BY <1>2, <2>1, <3>1 DEF Bit
  <2>2. CASE how = "fail2"
    <3>1. conn' = CloseDRM(DropDRMMaster(OpenDRM(conn, TRUE)))
      BY <2>2 DEF PreInit
    <3>2. /\ Sound(conn') /\ (conn'.fd <=> conn.fd)
          /\ conn'.open_count = conn.open_count
          /\ conn'.master_count = conn.master_count
      BY <1>2, <3>1, OpenAndClose
    <3> QED BY <1>2, <2>2, <3>2 DEF Bit
  <2>3. CASE how \in {"open", "bufs", "ok"}
    <3>1. conn' = OpenDRM(conn, how # "open")
      BY <2>3 DEF PreInit
    <3>2. CanOpenDRM(conn, how # "open") <=> holds
      BY <2>3 DEF PreInit, CanOpenDRM
    <3>3. /\ Sound(conn')
          /\ holds => /\ conn'.fd
                      /\ conn'.open_count = conn.open_count + 1
                      /\ conn'.master_count = conn.master_count + 1
          /\ ~holds => /\ conn'.fd <=> conn.fd
                       /\ conn'.open_count = conn.open_count
                       /\ conn'.master_count = conn.master_count
      BY <1>2, <3>1, <3>2, OpenCounts
    <3>4. conn'.fd => holds \/ conn.fd
      BY <3>3
    <3> QED BY <1>2, <3>3, <3>4 DEF Bit
  <2> QED BY <1>2, <2>1, <2>2, <2>3
<1>5. scr[s].life = "new" /\ ~scr[s].drmFD /\ ~scr[s].scanout
      /\ ~scr[s].entered /\ ~scr[s].vtSema
  BY <1>1 DEF IInv, ScreenShape
<1> QED BY <1>1, <1>2, <1>3, <1>4, <1>5

\* A PreInit that fails has taken nothing, or what it took is the screen's
\* and stays counted.
LEMMA PreInitInv ==
  ASSUME IInv, NEW s \in Screen, NEW how \in PreInitEnd(s), PreInit(s, how)
  PROVE  IInv'
<1> DEFINE holds == how \in {"bufs", "ok"}
<1>1. /\ server.phase = "probe" /\ s \in server.todo
      /\ scr \in [Screen -> ScreenRec]
  BY DEF PreInit, IsNext, IInv, TypeOK
<1>2. /\ conn.master_count \in Nat /\ conn.master_count >= Held
      /\ how \in {"early", "open", "fail2", "bufs", "ok"}
  BY PreInitChanges DEF PreInitEnd
<1>3. /\ scr' \in [Screen -> ScreenRec]
      /\ \A t \in Screen \ {s} : scr'[t] = scr[t]
      /\ scr'[s].life = IF how = "ok" THEN "live" ELSE "failed"
      /\ scr'[s].drmFD <=> holds
      /\ scr'[s].scanout = scr[s].scanout
      /\ scr'[s].entered = scr[s].entered
      /\ scr'[s].vtSema = scr[s].vtSema
  BY PreInitChanges
<1>4. /\ Sound(conn') /\ (conn'.fd => conn'.master_count > 0)
      /\ conn.fd \/ holds => conn'.fd
      /\ conn'.master_count = conn.master_count + Bit(holds)
  BY PreInitChanges
<1>5. scr[s].life = "new" /\ ~scr[s].drmFD /\ ~scr[s].scanout
      /\ ~scr[s].entered /\ ~scr[s].vtSema
  BY PreInitChanges
<1>6. conn'.master_count >= Held'
  <2>1. Held' = Held + HeldBy(scr'[s]) - HeldBy(scr[s])
    BY <1>1, <1>3, HeldStep
  <2>2. HeldBy(scr[s]) = 0 /\ HeldBy(scr'[s]) = Bit(holds)
    BY <1>3, <1>5 DEF HeldBy, Bit
  <2> QED BY <1>2, <1>4, <2>1, <2>2, HeldType DEF Bit
<1>7. /\ server' \in [phase : Phase, todo : SUBSET Screen, gen : Nat]
      /\ \/ server'.phase = "probe" /\ server'.todo = server.todo \ {s}
         \/ /\ server.todo = {s} /\ server'.phase = "init"
            /\ server'.todo = Screen
            /\ \A t \in Screen : scr'[t].life # "failed"
         \/ /\ server.todo = {s} /\ server'.phase = "delete"
            /\ server'.todo = {t \in Screen : scr'[t].life = "failed"}
  <2> DEFINE failed == {t \in Screen : scr'[t].life = "failed"}
             p == IF failed # {} THEN "delete" ELSE "init"
             T == IF failed # {} THEN failed ELSE Screen
  <2>1. Called(s, p, T) /\ p \in Phase /\ T \in SUBSET Screen
    BY DEF PreInit, Phase
  <2>2. TypeOK
    BY DEF IInv
  <2>3. failed = {} => \A t \in Screen : scr'[t].life # "failed"
    OBVIOUS
  <2>4. /\ server' \in [phase : Phase, todo : SUBSET Screen, gen : Nat]
        /\ \/ server.todo = {s} /\ server'.phase = p /\ server'.todo = T
           \/ /\ server'.phase = server.phase
              /\ server'.todo = server.todo \ {s}
    <3> HIDE DEF p, T
    <3> QED BY <2>1, <2>2, CalledFields
  <2> QED BY <1>1, <2>3, <2>4
<1>8. TypeOK'
  BY <1>3, <1>4, <1>7 DEF TypeOK, Sound, Base
<1>9. ASSUME NEW t \in Screen PROVE ScreenShape(t)'
  <2>1. ScreenShape(t)
    BY DEF IInv
  <2>2. t = s \/ scr'[t] = scr[t]
    BY <1>3
  <2>3. scr[t].life \in {"new", "live", "failed"}
    BY <1>1, <2>1 DEF ScreenShape, ScreenRec
  <2>4. CASE t # s
    BY <1>1, <1>4, <1>7, <2>1, <2>2, <2>3, <2>4 DEF ScreenShape, Stage
  <2>5. CASE t = s
    BY <1>1, <1>3, <1>4, <1>5, <1>7, <2>1, <2>5 DEF ScreenShape, Stage
  <2> QED BY <2>4, <2>5
<1>10. Counts'
  BY <1>4, <1>6, <1>7, CoversHeld DEF Counts, CountCoversHolders, Held, Fds,
     Scanouts, Entered
<1> QED BY <1>8, <1>9, <1>10 DEF IInv

\* CountCoversHolders after a step.
LEMMA CoversNext ==
  ASSUME conn'.master_count >= Held'
  PROVE  CountCoversHolders'
BY DEF CountCoversHolders, Held, Fds, Scanouts, Entered

\* FreeScreen frees screens that failed, and they hold nothing.
LEMMA FreeScreenInv ==
  ASSUME IInv, NEW s \in Screen, FreeScreen(s)
  PROVE  IInv'
<1>1. /\ server.phase = "delete" /\ s \in server.todo /\ conn' = conn
      /\ scr \in [Screen -> ScreenRec]
  BY DEF FreeScreen, IsNext, IInv, TypeOK
<1> DEFINE n == [scr[s] EXCEPT !.life = "freed", !.drmFD = FALSE]
<1>2. /\ scr' \in [Screen -> ScreenRec]
      /\ \A t \in Screen \ {s} : scr'[t] = scr[t]
      /\ scr'[s].life = "freed" /\ ~scr'[s].drmFD
      /\ scr'[s].scanout = scr[s].scanout
      /\ scr'[s].entered = scr[s].entered
      /\ scr'[s].vtSema = scr[s].vtSema
  <2>1. scr[s] \in ScreenRec
    BY <1>1
  <2>2. scr' = [scr EXCEPT ![s] = n]
    BY <1>1, <2>1 DEF FreeScreen, ScreenRec
  <2>3. /\ n \in ScreenRec
        /\ n.life = "freed" /\ ~n.drmFD
        /\ n.scanout = scr[s].scanout /\ n.entered = scr[s].entered
        /\ n.vtSema = scr[s].vtSema
    BY <2>1 DEF ScreenRec
  <2> HIDE DEF n
  <2> QED BY <1>1, <2>2, <2>3
<1> HIDE DEF n
<1>3. /\ server' \in [phase : Phase, todo : SUBSET Screen, gen : Nat]
      /\ \/ server'.phase = "delete" /\ server'.todo = server.todo \ {s}
         \/ /\ server.todo = {s} /\ server'.phase \in {"dead", "init"}
            /\ server'.todo = Live
  <2> DEFINE p == IF Live = {} THEN "dead" ELSE "init"
  <2>1. /\ Called(s, p, Live) /\ p \in Phase /\ Live \in SUBSET Screen
        /\ p \in {"dead", "init"}
    BY DEF FreeScreen, Phase, Live
  <2> HIDE DEF p
  <2>2. /\ server' \in [phase : Phase, todo : SUBSET Screen, gen : Nat]
        /\ \/ server.todo = {s} /\ server'.phase = p /\ server'.todo = Live
           \/ /\ server'.phase = server.phase
              /\ server'.todo = server.todo \ {s}
    BY <2>1, CalledFields DEF IInv
  <2> QED BY <1>1, <2>1, <2>2
<1>4. scr[s].life = "failed"
  BY <1>1 DEF IInv, ScreenShape
<1>5. /\ Sound(conn) /\ (conn.fd => conn.master_count > 0)
      /\ conn.master_count \in Nat /\ conn.master_count >= Held
  BY <1>1, CoversHeld DEF IInv, Counts, TypeOK, Connection
<1>6. conn'.master_count >= Held'
  <2>1. Held' = Held + HeldBy(scr'[s]) - HeldBy(scr[s])
    BY <1>1, <1>2, HeldStep
  <2>2. HeldBy(scr'[s]) <= HeldBy(scr[s])
    BY <1>2 DEF HeldBy, Bit
  <2>3. HeldBy(scr'[s]) \in Int /\ HeldBy(scr[s]) \in Int
    BY DEF HeldBy, Bit
  <2> QED BY <1>1, <1>5, <2>1, <2>2, <2>3, HeldType
<1>7. TypeOK'
  BY <1>1, <1>2, <1>3 DEF TypeOK, IInv
<1>8. ASSUME NEW t \in Screen PROVE ScreenShape(t)'
  <2>1. ScreenShape(t) /\ (t \in Live <=> scr[t].life = "live")
    BY DEF IInv, Live
  <2>2. CASE t # s
    <3>1. scr'[t] = scr[t]
      BY <1>2, <2>2
    <3> QED BY <1>1, <1>3, <2>1, <2>2, <3>1 DEF ScreenShape, Stage
  <2>3. CASE t = s
    BY <1>1, <1>2, <1>3, <1>4, <2>1, <2>3 DEF ScreenShape, Stage
  <2> QED BY <2>2, <2>3
<1>9. Counts'
  BY <1>1, <1>3, <1>5, <1>6, CoversNext DEF Counts, Sound
<1> QED BY <1>7, <1>8, <1>9 DEF IInv

\* LeaveVT gives back the count that EnterVT took.
LEMMA VTLeaveInv ==
  ASSUME IInv, NEW s \in Screen, VTLeave(s)
  PROVE  IInv'
<1>1. /\ server.phase = "leaving" /\ s \in server.todo
      /\ conn' = DropDRMMaster(conn) /\ scr \in [Screen -> ScreenRec]
  BY DEF VTLeave, LeaveVT, IsNext, IInv, TypeOK
<1> DEFINE n == [scr[s] EXCEPT !.entered = FALSE]
<1>2. /\ scr' \in [Screen -> ScreenRec]
      /\ \A t \in Screen \ {s} : scr'[t] = scr[t]
      /\ scr'[s].life = scr[s].life /\ scr'[s].drmFD = scr[s].drmFD
      /\ scr'[s].scanout = scr[s].scanout /\ ~scr'[s].entered
      /\ scr'[s].vtSema = scr[s].vtSema
  <2>1. scr[s] \in ScreenRec /\ scr' = [scr EXCEPT ![s] = n]
    BY <1>1 DEF VTLeave
  <2>2. /\ n \in ScreenRec
        /\ n.life = scr[s].life /\ n.drmFD = scr[s].drmFD
        /\ n.scanout = scr[s].scanout /\ ~n.entered
        /\ n.vtSema = scr[s].vtSema
    BY <2>1 DEF ScreenRec
  <2> HIDE DEF n
  <2> QED BY <1>1, <2>1, <2>2
<1> HIDE DEF n
<1>3. /\ server' \in [phase : Phase, todo : SUBSET Screen, gen : Nat]
      /\ \/ server'.phase = "leaving" /\ server'.todo = server.todo \ {s}
         \/ /\ server.todo = {s} /\ server'.phase = "away"
            /\ server'.todo = {}
  <2>1. Called(s, "away", {}) /\ "away" \in Phase /\ {} \in SUBSET Screen
    BY DEF VTLeave, Phase
  <2> QED BY <1>1, <2>1, CalledFields DEF IInv
<1>4. /\ scr[s].life = "live" /\ scr[s].drmFD /\ scr[s].scanout
      /\ scr[s].entered /\ conn.fd
  BY <1>1 DEF IInv, ScreenShape, Stage
<1>5. /\ Sound(conn) /\ conn.master_count > 0
      /\ conn.master_count \in Nat /\ conn.master_count >= Held
  BY <1>1, <1>4, CoversHeld DEF IInv, Counts, TypeOK, Connection
<1>6. /\ Sound(conn') /\ conn'.fd
      /\ conn'.master_count = conn.master_count - 1
  BY <1>1, <1>4, <1>5, DropCounts DEF Sound
<1>7. conn'.master_count >= Held' /\ conn'.master_count > 0
  <2>1. /\ Held' = Held + HeldBy(scr'[s]) - HeldBy(scr[s])
        /\ Held' >= HeldBy(scr'[s])
    BY <1>1, <1>2, HeldStep
  <2>2. HeldBy(scr'[s]) = 2 /\ HeldBy(scr[s]) = 3
    BY <1>2, <1>4 DEF HeldBy, Bit
  <2> QED BY <1>5, <1>6, <2>1, <2>2, HeldType
<1>8. TypeOK'
  BY <1>2, <1>3, <1>6 DEF TypeOK, Sound, Base
<1>9. ASSUME NEW t \in Screen PROVE ScreenShape(t)'
  <2>1. ScreenShape(t)
    BY DEF IInv
  <2>2. CASE t # s
    <3>1. scr'[t] = scr[t]
      BY <1>2, <2>2
    <3> QED BY <1>1, <1>3, <1>6, <2>1, <2>2, <3>1 DEF ScreenShape, Stage
  <2>3. CASE t = s
    BY <1>1, <1>2, <1>3, <1>4, <1>6, <2>1, <2>3 DEF ScreenShape, Stage
  <2> QED BY <2>2, <2>3
<1>10. Counts'
  BY <1>3, <1>6, <1>7, CoversNext DEF Counts
<1> QED BY <1>8, <1>9, <1>10 DEF IInv

\* The screens that keep the connection open are at least the live ones.
LEMMA LiveHeld ==
  ASSUME IInv
  PROVE  Cardinality(Live) <= Held /\ Cardinality(Live) \in Nat
<1>1. Live \in SUBSET Fds /\ Fds \in SUBSET Screen /\ Live \in SUBSET Screen
  BY DEF Live, Fds, IInv, ScreenShape
<1>2. Cardinality(Live) <= Cardinality(Fds)
  BY <1>1, Fewer
<1>3. /\ Cardinality(Live) \in Nat /\ Cardinality(Fds) \in Nat
      /\ Cardinality(Scanouts) \in Nat /\ Cardinality(Entered) \in Nat
  BY <1>1, Sizes DEF Scanouts, Entered
<1> QED BY <1>2, <1>3 DEF Held

\* After a fatal error the screens that own their VT leave it, and there are
\* counts enough for all of them.
LEMMA FatalCounts ==
  ASSUME IInv, NEW S, Fatal(S), Base(conn'),
         conn'.master_count >= Cardinality(Live)
  PROVE  /\ server' \in [phase : Phase, todo : SUBSET Screen, gen : Nat]
         /\ server'.phase \in {"abort", "dead"} /\ server'.todo \subseteq Live
         /\ Counts'
<1> DEFINE own == {t \in Live : S[t].vtSema}
           p == IF own = {} THEN "dead" ELSE "abort"
<1>1. /\ Goto(p, own) /\ p \in Phase /\ own \in SUBSET Screen
      /\ own \in SUBSET Live /\ Live \in SUBSET Screen
      /\ p \in {"abort", "dead"}
  BY DEF Fatal, Phase, Live
<1> HIDE DEF own, p
<1>2. /\ server' \in [phase : Phase, todo : SUBSET Screen, gen : Nat]
      /\ server'.phase = p /\ server'.todo = own
  BY <1>1, GotoFields DEF IInv
<1>3. Cardinality(own) <= Cardinality(Live)
  BY <1>1, Fewer
<1>4. /\ Cardinality(own) \in Nat /\ Cardinality(Live) \in Nat
      /\ conn'.master_count \in Nat
  BY <1>1, Sizes DEF Base, Connection
<1>5. conn'.master_count >= Cardinality(server'.todo)
  BY <1>2, <1>3, <1>4
<1> QED BY <1>1, <1>2, <1>5 DEF Counts

\* EnterVT finds the process still master, and only the modes can fail.
LEMMA VTEnterInv ==
  ASSUME IInv, NEW s \in Screen, NEW granted \in BOOLEAN, NEW modes \in BOOLEAN,
         VTEnter(s, granted, modes)
  PROVE  IInv'
<1>1. /\ server.phase = "entering" /\ s \in server.todo
      /\ conn' = EnterVT(conn, granted) /\ scr \in [Screen -> ScreenRec]
  BY DEF VTEnter, IsNext, IInv, TypeOK
<1>2. /\ scr[s].life = "live" /\ scr[s].drmFD /\ scr[s].scanout
      /\ ~scr[s].entered /\ conn.fd
  BY <1>1 DEF IInv, ScreenShape, Stage
<1>3. /\ Sound(conn) /\ conn.master_count > 0
      /\ conn.master_count \in Nat /\ conn.master_count >= Held
  BY <1>1, <1>2, CoversHeld DEF IInv, Counts, TypeOK, Connection
<1>4. /\ Sound(conn') /\ conn'.fd
      /\ conn'.master_count = conn.master_count + 1
      /\ ~MasterRefused(conn, granted)
  BY <1>1, <1>2, <1>3, EnterCounts
<1> DEFINE n == [scr[s] EXCEPT !.entered = TRUE]
<1>5. /\ scr' \in [Screen -> ScreenRec]
      /\ \A t \in Screen \ {s} : scr'[t] = scr[t]
      /\ scr'[s].life = scr[s].life /\ scr'[s].drmFD = scr[s].drmFD
      /\ scr'[s].scanout = scr[s].scanout /\ scr'[s].entered
      /\ scr'[s].vtSema = scr[s].vtSema
  <2>1. scr[s] \in ScreenRec /\ scr' = [scr EXCEPT ![s] = n]
    BY <1>1, <1>4 DEF VTEnter
  <2>2. /\ n \in ScreenRec
        /\ n.life = scr[s].life /\ n.drmFD = scr[s].drmFD
        /\ n.scanout = scr[s].scanout /\ n.entered
        /\ n.vtSema = scr[s].vtSema
    BY <2>1 DEF ScreenRec
  <2> HIDE DEF n
  <2> QED BY <1>1, <2>1, <2>2
<1> HIDE DEF n
<1>6. conn'.master_count >= Held' /\ conn'.master_count > 0
  <2>1. Held' = Held + HeldBy(scr'[s]) - HeldBy(scr[s])
    BY <1>1, <1>5, HeldStep
  <2>2. HeldBy(scr'[s]) = 3 /\ HeldBy(scr[s]) = 2
    BY <1>2, <1>5 DEF HeldBy, Bit
  <2> QED BY <1>3, <1>4, <2>1, <2>2, HeldType
<1>7. CASE modes
  <2>1. /\ server' \in [phase : Phase, todo : SUBSET Screen, gen : Nat]
        /\ \/ server'.phase = "entering" /\ server'.todo = server.todo \ {s}
           \/ /\ server.todo = {s} /\ server'.phase = "run"
              /\ server'.todo = {}
    <3>1. Called(s, "run", {}) /\ "run" \in Phase /\ {} \in SUBSET Screen
      BY <1>4, <1>7 DEF VTEnter, Phase
    <3> QED BY <1>1, <3>1, CalledFields DEF IInv
  <2>2. TypeOK'
    BY <1>4, <1>5, <2>1 DEF TypeOK, Sound, Base
  <2>3. ASSUME NEW t \in Screen PROVE ScreenShape(t)'
    <3>1. ScreenShape(t)
      BY DEF IInv
    <3>2. CASE t # s
      <4>1. scr'[t] = scr[t]
        BY <1>5, <3>2
      <4> QED BY <1>1, <1>4, <2>1, <3>1, <3>2, <4>1 DEF ScreenShape, Stage
    <3>3. CASE t = s
      BY <1>1, <1>2, <1>4, <1>5, <2>1, <3>1, <3>3 DEF ScreenShape, Stage
    <3> QED BY <3>2, <3>3
  <2>4. Counts'
    BY <1>4, <1>6, <2>1, CoversNext DEF Counts
  <2> QED BY <2>2, <2>3, <2>4 DEF IInv
<1>8. CASE ~modes
  <2>1. Fatal(scr) /\ Base(conn') /\ conn'.master_count >= Cardinality(Live)
    BY <1>3, <1>4, <1>8, LiveHeld, HeldType DEF VTEnter, Sound
  <2>2. /\ server' \in [phase : Phase, todo : SUBSET Screen, gen : Nat]
        /\ server'.phase \in {"abort", "dead"} /\ server'.todo \subseteq Live
        /\ Counts'
    BY <2>1, FatalCounts
  <2>3. TypeOK'
    BY <1>4, <1>5, <2>2 DEF TypeOK, Sound, Base
  <2>4. ASSUME NEW t \in Screen PROVE ScreenShape(t)'
    <3>1. ScreenShape(t) /\ (t \in Live <=> scr[t].life = "live")
      BY DEF IInv, Live
    <3>2. CASE t # s
      <4>1. scr'[t] = scr[t]
        BY <1>5, <3>2
      <4> QED BY <1>1, <1>4, <2>2, <3>1, <4>1 DEF ScreenShape, Stage
    <3>3. CASE t = s
      BY <1>1, <1>2, <1>4, <1>5, <2>2, <3>1, <3>3 DEF ScreenShape, Stage
    <3> QED BY <3>2, <3>3
  <2> QED BY <2>2, <2>3, <2>4 DEF IInv
<1> QED BY <1>7, <1>8

\* How far ScreenInit gets with the connection before it enters the VT.
LEMMA InitMaster ==
  ASSUME IInv, NEW s \in Screen, NEW granted \in BOOLEAN,
         server.phase = "init", s \in server.todo
  PROVE  LET m == SetDRMMaster(conn, granted)
             b == Kms(Assert(m, ~scr[s].scanout))
             e == EnterVT(b, granted)
         IN  /\ scr[s].life = "live" /\ scr[s].drmFD /\ ~scr[s].scanout
             /\ ~scr[s].entered /\ ~MasterRefused(conn, granted)
             /\ conn.master_count \in Nat /\ conn.master_count > 0
             /\ conn.master_count >= Held
             /\ Sound(b) /\ b.fd /\ b.master_count = conn.master_count + 1
             /\ b.open_count = conn.open_count
             /\ Sound(e) /\ e.fd /\ e.master_count = conn.master_count + 2
             /\ e.open_count = conn.open_count
<1> DEFINE m == SetDRMMaster(conn, granted)
           a == Assert(m, ~scr[s].scanout)
           b == Kms(a)
           e == EnterVT(b, granted)
<1>1. /\ scr[s].life = "live" /\ scr[s].drmFD /\ ~scr[s].scanout
      /\ ~scr[s].entered /\ conn.fd
  BY DEF IInv, ScreenShape, Stage
<1>2. /\ Sound(conn) /\ conn.master_count > 0
      /\ conn.master_count \in Nat /\ conn.master_count >= Held
  BY <1>1, CoversHeld DEF IInv, Counts, TypeOK, Connection
<1>3. /\ ~MasterRefused(conn, granted)
      /\ Sound(m) /\ m.fd /\ m.master_count = conn.master_count + 1
      /\ m.open_count = conn.open_count
  BY <1>1, <1>2, SetCounts
<1> HIDE DEF m
<1>4. /\ Sound(a) /\ a.fd /\ a.master_count = conn.master_count + 1
      /\ a.open_count = conn.open_count
  BY <1>1, <1>3, AssertTrue
<1> HIDE DEF a
<1>5. /\ Sound(b) /\ b.fd /\ b.master_count = conn.master_count + 1
      /\ b.open_count = conn.open_count
  BY <1>2, <1>4, KmsGranted
<1> HIDE DEF b
<1>6. /\ Sound(e) /\ e.fd /\ e.master_count = conn.master_count + 2
      /\ e.open_count = conn.open_count
  BY <1>2, <1>5, EnterCounts
<1> HIDE DEF e
<1> QED
  BY <1>1, <1>2, <1>3, <1>5, <1>6 DEF m, a, b, e

\* A screen that is set up has counted its scanout and its VT.
LEMMA ScreenInitSucceedsInv ==
  ASSUME IInv, NEW s \in Screen, NEW granted \in BOOLEAN, NEW works \in BOOLEAN,
         server.phase = "init", s \in server.todo,
         ScreenInitSucceeds(s, granted, works)
  PROVE  IInv'
<1>1. scr \in [Screen -> ScreenRec]
  BY DEF IInv, TypeOK
<1>2. /\ scr[s].life = "live" /\ scr[s].drmFD /\ ~scr[s].scanout
      /\ ~scr[s].entered
      /\ conn.master_count \in Nat /\ conn.master_count > 0
      /\ conn.master_count >= Held
      /\ Sound(conn') /\ conn'.fd
      /\ conn'.master_count = conn.master_count + 2
  BY InitMaster DEF ScreenInitSucceeds
<1> DEFINE v == UeventInit(scr[s].monitor, works)
           n == [scr[s] EXCEPT !.scanout = TRUE, !.vtSema = TRUE,
                               !.entered = TRUE, !.monitor = v]
<1>3. /\ scr' \in [Screen -> ScreenRec]
      /\ \A t \in Screen \ {s} : scr'[t] = scr[t]
      /\ scr'[s].life = scr[s].life /\ scr'[s].drmFD = scr[s].drmFD
      /\ scr'[s].scanout /\ scr'[s].entered /\ scr'[s].vtSema
  <2>1. scr[s] \in ScreenRec
    BY <1>1
  <2>2. scr' = [scr EXCEPT ![s] = n]
    BY <1>1, <2>1 DEF ScreenInitSucceeds, ScreenRec
  <2>3. v \in {"none", "live", "dangling", "reused"}
    BY <2>1 DEF UeventInit, ScreenRec
  <2> HIDE DEF v
  <2>4. /\ n \in ScreenRec
        /\ n.life = scr[s].life /\ n.drmFD = scr[s].drmFD
        /\ n.scanout /\ n.entered /\ n.vtSema
    BY <2>1, <2>3 DEF ScreenRec
  <2> HIDE DEF n
  <2> QED BY <1>1, <2>2, <2>4
<1> HIDE DEF n
<1>4. conn'.master_count >= Held' /\ conn'.master_count > 0
  <2>1. Held' = Held + HeldBy(scr'[s]) - HeldBy(scr[s])
    BY <1>1, <1>3, HeldStep
  <2>2. HeldBy(scr'[s]) = 3 /\ HeldBy(scr[s]) = 1
    BY <1>2, <1>3 DEF HeldBy, Bit
  <2> QED BY <1>2, <2>1, <2>2, HeldType
<1>5. /\ server' \in [phase : Phase, todo : SUBSET Screen, gen : Nat]
      /\ \/ server'.phase = "init" /\ server'.todo = server.todo \ {s}
         \/ /\ server.todo = {s} /\ server'.phase = "run"
            /\ server'.todo = {}
  <2>1. Called(s, "run", {}) /\ "run" \in Phase /\ {} \in SUBSET Screen
    BY DEF ScreenInitSucceeds, Phase
  <2> QED BY <2>1, CalledFields DEF IInv
<1>6. TypeOK'
  BY <1>2, <1>3, <1>5 DEF TypeOK, Sound, Base
<1>7. ASSUME NEW t \in Screen PROVE ScreenShape(t)'
  <2>1. ScreenShape(t)
    BY DEF IInv
  <2>2. CASE t # s
    <3>1. scr'[t] = scr[t]
      BY <1>3, <2>2
    <3> QED BY <1>2, <1>5, <2>1, <2>2, <3>1 DEF ScreenShape, Stage
  <2>3. CASE t = s
    BY <1>2, <1>3, <1>5, <2>1, <2>3 DEF ScreenShape, Stage
  <2> QED BY <2>2, <2>3
<1>8. Counts'
  BY <1>2, <1>4, <1>5, CoversNext DEF Counts
<1> QED BY <1>6, <1>7, <1>8 DEF IInv

\* A ScreenInit that fails is fatal, and leaves counts enough for the
\* screens that will leave their VT.
LEMMA ScreenInitFailsInv ==
  ASSUME IInv, NEW s \in Screen, NEW how \in InitEnd \ {"ok"},
         NEW granted \in BOOLEAN,
         server.phase = "init", s \in server.todo,
         ScreenInitFails(s, how, granted)
  PROVE  IInv'
<1> DEFINE b == Kms(Assert(SetDRMMaster(conn, granted), ~scr[s].scanout))
           e == EnterVT(b, granted)
<1>1. scr \in [Screen -> ScreenRec] /\ how \in {"fail1", "fail6", "fail7"}
  BY DEF IInv, TypeOK, InitEnd
<1>2. /\ scr[s].life = "live" /\ scr[s].drmFD /\ ~scr[s].scanout
      /\ ~scr[s].entered /\ ~MasterRefused(conn, granted)
      /\ conn.master_count \in Nat /\ conn.master_count > 0
      /\ conn.master_count >= Held
      /\ Sound(b) /\ b.fd /\ b.master_count = conn.master_count + 1
      /\ Sound(e) /\ e.fd /\ e.master_count = conn.master_count + 2
  BY InitMaster
<1>3. /\ how = "fail1" => conn' = Fail1(b)
      /\ how = "fail6" => conn' = Fail1(e)
      /\ how = "fail7" => conn' = Fail1(DropDRMMaster(e))
  BY <1>1, <1>2 DEF ScreenInitFails, LeaveVT
<1> HIDE DEF b, e
<1>4. /\ Base(conn') /\ conn'.fd
      /\ conn'.master_count >= conn.master_count
  <2>1. CASE how = "fail1"
    BY <1>2, <1>3, <2>1, Fail1Counts DEF Sound
  <2>2. CASE how = "fail6"
    BY <1>2, <1>3, <2>2, Fail1Counts DEF Sound
  <2>3. CASE how = "fail7"
    <3>1. /\ Base(DropDRMMaster(e)) /\ DropDRMMaster(e).fd
          /\ DropDRMMaster(e).master_count = conn.master_count + 1
      BY <1>2, DropCounts DEF Sound
    <3> QED BY <1>2, <1>3, <2>3, <3>1, Fail1Counts
  <2> QED BY <1>1, <2>1, <2>2, <2>3
<1> DEFINE enters == how = "fail6"
           n == [scr[s] EXCEPT !.vtSema = enters, !.entered = enters]
<1>5. /\ scr' \in [Screen -> ScreenRec]
      /\ \A t \in Screen \ {s} : scr'[t] = scr[t]
      /\ scr'[s].life = scr[s].life /\ scr'[s].drmFD = scr[s].drmFD
  <2>1. scr[s] \in ScreenRec /\ enters \in BOOLEAN
    BY <1>1
  <2>2. scr' = [scr EXCEPT ![s] = n]
    BY <1>1, <1>2, <2>1 DEF ScreenInitFails, ScreenRec
  <2> HIDE DEF enters
  <2>3. /\ n \in ScreenRec
        /\ n.life = scr[s].life /\ n.drmFD = scr[s].drmFD
    BY <2>1 DEF ScreenRec
  <2> HIDE DEF n
  <2> QED BY <1>1, <2>2, <2>3
<1> HIDE DEF n
<1>6. Fatal(scr') /\ conn'.master_count >= Cardinality(Live)
  <2>1. conn'.master_count \in Nat
    BY <1>4 DEF Base, Connection
  <2>2. Fatal(scr')
    BY DEF ScreenInitFails
  <2> QED BY <1>2, <1>4, <2>1, <2>2, LiveHeld, HeldType
<1>7. /\ server' \in [phase : Phase, todo : SUBSET Screen, gen : Nat]
      /\ server'.phase \in {"abort", "dead"} /\ server'.todo \subseteq Live
      /\ Counts'
  BY <1>4, <1>6, FatalCounts
<1>8. TypeOK'
  BY <1>4, <1>5, <1>7 DEF TypeOK, Base
<1>9. ASSUME NEW t \in Screen PROVE ScreenShape(t)'
  <2>1. ScreenShape(t) /\ (t \in Live <=> scr[t].life = "live")
    BY DEF IInv, Live
  <2>2. CASE t # s
    <3>1. scr'[t] = scr[t]
      BY <1>5, <2>2
    <3> QED BY <1>4, <1>7, <2>1, <3>1 DEF ScreenShape, Stage
  <2>3. CASE t = s
    BY <1>2, <1>4, <1>5, <1>7, <2>1, <2>3 DEF ScreenShape, Stage
  <2> QED BY <2>2, <2>3
<1> QED BY <1>7, <1>8, <1>9 DEF IInv

\* CloseScreen leaves the VT also when it was left before: the count it then
\* gives back is the one ScreenInit took for the scanout that goes.
LEMMA CloseScreenInv ==
  ASSUME IInv, NEW s \in Screen, CloseScreen(s)
  PROVE  IInv'
<1>1. /\ server.phase = "closing" /\ s \in server.todo
      /\ scr \in [Screen -> ScreenRec]
  BY DEF CloseScreen, IsNext, IInv, TypeOK
<1>2. /\ scr[s].life = "live" /\ scr[s].drmFD /\ scr[s].scanout
      /\ scr[s].vtSema /\ conn.fd
  BY <1>1 DEF IInv, ScreenShape, Stage
<1>3. /\ Sound(conn) /\ conn.master_count > 0
      /\ conn.master_count \in Nat /\ conn.master_count >= Held
  BY <1>1, <1>2, CoversHeld DEF IInv, Counts, TypeOK, Connection
<1>4. /\ Sound(conn') /\ conn'.fd
      /\ conn'.master_count = conn.master_count - 1
  <2> DEFINE a == Assert(conn, scr[s].scanout)
  <2>1. conn' = DropDRMMaster(a)
    BY <1>2 DEF CloseScreen, LeaveVT
  <2>2. Sound(a) /\ a.fd /\ a.master_count = conn.master_count
    BY <1>2, <1>3, AssertTrue
  <2> HIDE DEF a
  <2> QED BY <1>3, <2>1, <2>2, DropCounts DEF Sound
<1> DEFINE v == UeventFini(scr[s].monitor)
           n == [scr[s] EXCEPT !.scanout = FALSE, !.vtSema = FALSE,
                               !.entered = FALSE, !.monitor = v]
<1>5. /\ scr' \in [Screen -> ScreenRec]
      /\ \A t \in Screen \ {s} : scr'[t] = scr[t]
      /\ scr'[s].life = scr[s].life /\ scr'[s].drmFD = scr[s].drmFD
      /\ ~scr'[s].scanout /\ ~scr'[s].entered /\ ~scr'[s].vtSema
  <2>1. scr[s] \in ScreenRec
    BY <1>1
  <2>2. scr' = [scr EXCEPT ![s] = n]
    BY <1>1, <2>1 DEF CloseScreen, ScreenRec
  <2>3. v \in {"none", "live", "dangling", "reused"}
    BY <2>1 DEF UeventFini, ScreenRec
  <2> HIDE DEF v
  <2>4. /\ n \in ScreenRec
        /\ n.life = scr[s].life /\ n.drmFD = scr[s].drmFD
        /\ ~n.scanout /\ ~n.entered /\ ~n.vtSema
    BY <2>1, <2>3 DEF ScreenRec
  <2> HIDE DEF n
  <2> QED BY <1>1, <2>2, <2>4
<1> HIDE DEF n
<1>6. conn'.master_count >= Held' /\ conn'.master_count > 0
  <2>1. /\ Held' = Held + HeldBy(scr'[s]) - HeldBy(scr[s])
        /\ Held' >= HeldBy(scr'[s])
    BY <1>1, <1>5, HeldStep
  <2>2. HeldBy(scr'[s]) = 1 /\ HeldBy(scr[s]) \in {2, 3}
    BY <1>2, <1>5 DEF HeldBy, Bit
  <2> QED BY <1>3, <1>4, <2>1, <2>2, HeldType
<1>7. /\ server' \in [phase : Phase, todo : SUBSET Screen, gen : Nat]
      /\ \/ server'.phase = "closing" /\ server'.todo = server.todo \ {s}
         \/ /\ server.todo = {s} /\ server'.phase \in {"init", "dead"}
            /\ server'.phase = "init" => server'.todo = Live
  <2>1. CASE server.todo = {s} /\ server.gen < MaxGen
    <3>1. server' = [phase |-> "init", todo |-> Live, gen |-> server.gen + 1]
      BY <2>1 DEF CloseScreen
    <3>2. server.gen + 1 \in Nat /\ "init" \in Phase /\ Live \in SUBSET Screen
      BY DEF IInv, TypeOK, Phase, Live
    <3> QED BY <2>1, <3>1, <3>2
  <2>2. CASE ~(server.todo = {s} /\ server.gen < MaxGen)
    <3>1. Called(s, "dead", {}) /\ "dead" \in Phase /\ {} \in SUBSET Screen
      BY <2>2 DEF CloseScreen, Phase
    <3> QED BY <1>1, <3>1, CalledFields DEF IInv
  <2> QED BY <2>1, <2>2
<1>8. TypeOK'
  BY <1>4, <1>5, <1>7 DEF TypeOK, Sound, Base
<1>9. ASSUME NEW t \in Screen PROVE ScreenShape(t)'
  <2>1. ScreenShape(t) /\ (t \in Live <=> scr[t].life = "live")
    BY DEF IInv, Live
  <2>2. CASE t # s
    <3>1. scr'[t] = scr[t]
      BY <1>5, <2>2
    <3> QED BY <1>1, <1>4, <1>7, <2>1, <2>2, <3>1 DEF ScreenShape, Stage
  <2>3. CASE t = s
    BY <1>1, <1>2, <1>4, <1>5, <1>7, <2>1, <2>3 DEF ScreenShape, Stage
  <2> QED BY <2>2, <2>3
<1>10. Counts'
  BY <1>4, <1>6, <1>7, CoversNext DEF Counts, Sound
<1> QED BY <1>8, <1>9, <1>10 DEF IInv

\* Each screen that leaves its VT after a fatal error has a count to give.
LEMMA AbortLeaveInv ==
  ASSUME IInv, NEW s \in Screen, AbortLeave(s)
  PROVE  IInv'
<1>1. /\ server.phase = "abort" /\ s \in server.todo
      /\ server.todo \in SUBSET Screen
      /\ conn' = DropDRMMaster(conn) /\ scr \in [Screen -> ScreenRec]
  BY DEF AbortLeave, LeaveVT, IsNext, IInv, TypeOK
<1>2. /\ scr[s].life = "live" /\ conn.fd
  BY <1>1 DEF IInv, ScreenShape
<1>3. /\ Base(conn) /\ conn.master_count \in Nat
      /\ conn.master_count >= Cardinality(server.todo)
  BY <1>1 DEF IInv, Counts, TypeOK, Connection
<1>4. /\ Cardinality(server.todo) \in Nat
      /\ Cardinality(server.todo \ {s}) \in Nat
      /\ Cardinality(server.todo \ {s}) = Cardinality(server.todo) - 1
  BY <1>1, Sizes, Removed
<1>5. /\ Base(conn') /\ conn'.fd
      /\ conn'.master_count >= conn.master_count - 1
  BY <1>2, <1>3, <1>4, <1>1, DropCounts
<1> DEFINE n == [scr[s] EXCEPT !.entered = FALSE]
<1>6. /\ scr' \in [Screen -> ScreenRec]
      /\ \A t \in Screen \ {s} : scr'[t] = scr[t]
      /\ scr'[s].life = scr[s].life /\ scr'[s].drmFD = scr[s].drmFD
  <2>1. scr[s] \in ScreenRec /\ scr' = [scr EXCEPT ![s] = n]
    BY <1>1 DEF AbortLeave
  <2>2. n \in ScreenRec /\ n.life = scr[s].life /\ n.drmFD = scr[s].drmFD
    BY <2>1 DEF ScreenRec
  <2> HIDE DEF n
  <2> QED BY <1>1, <2>1, <2>2
<1> HIDE DEF n
<1>7. /\ server' \in [phase : Phase, todo : SUBSET Screen, gen : Nat]
      /\ \/ server'.phase = "abort" /\ server'.todo = server.todo \ {s}
         \/ server'.phase = "dead" /\ server'.todo = {}
  <2>1. Called(s, "dead", {}) /\ "dead" \in Phase /\ {} \in SUBSET Screen
    BY DEF AbortLeave, Phase
  <2> QED BY <1>1, <2>1, CalledFields DEF IInv
<1>8. TypeOK'
  BY <1>5, <1>6, <1>7 DEF TypeOK, Base
<1>9. ASSUME NEW t \in Screen PROVE ScreenShape(t)'
  <2>1. ScreenShape(t)
    BY DEF IInv
  <2>2. CASE t # s
    <3>1. scr'[t] = scr[t]
      BY <1>6, <2>2
    <3> QED BY <1>1, <1>5, <1>7, <2>1, <3>1 DEF ScreenShape, Stage
  <2>3. CASE t = s
    BY <1>1, <1>2, <1>5, <1>6, <1>7, <2>1, <2>3 DEF ScreenShape, Stage
  <2> QED BY <2>2, <2>3
<1>10. Counts'
  BY <1>3, <1>4, <1>5, <1>7 DEF Counts, Base, Connection
<1> QED BY <1>8, <1>9, <1>10 DEF IInv

\* The server starts on a phase with all the live screens to be called.
LEMMA SwitchInv ==
  ASSUME IInv, SwitchAway \/ SwitchBack \/ EndGeneration
  PROVE  IInv'
<1>1. conn' = conn /\ scr' = scr
  BY DEF SwitchAway, SwitchBack, EndGeneration
<1>2. PICK p \in {"leaving", "entering", "closing"} :
        /\ Goto(p, Live)
        /\ p = "leaving" => server.phase = "run"
        /\ p = "entering" => server.phase = "away"
        /\ p = "closing" => server.phase \in {"run", "away"}
  BY DEF SwitchAway, SwitchBack, EndGeneration
<1>3. /\ server' \in [phase : Phase, todo : SUBSET Screen, gen : Nat]
      /\ server'.phase = p /\ server'.todo = Live
  <2>1. p \in Phase /\ Live \in SUBSET Screen
    BY DEF Phase, Live
  <2> QED BY <1>2, <2>1, GotoFields DEF IInv
<1>4. TypeOK'
  BY <1>1, <1>3 DEF IInv, TypeOK
<1>5. ASSUME NEW t \in Screen PROVE ScreenShape(t)'
  <2>1. ScreenShape(t) /\ (t \in Live <=> scr[t].life = "live")
    BY DEF IInv, Live
  <2> QED BY <1>1, <1>2, <1>3, <2>1 DEF ScreenShape, Stage
<1>6. /\ Sound(conn) /\ (conn.fd => conn.master_count > 0)
      /\ CountCoversHolders
  BY <1>2 DEF IInv, Counts
<1>7. Counts'
  BY <1>1, <1>2, <1>3, <1>6 DEF Counts, CountCoversHolders
<1> QED BY <1>4, <1>5, <1>7 DEF IInv

LEMMA StutterInv ==
  ASSUME IInv, UNCHANGED vars
  PROVE  IInv'
BY DEF vars, IInv, TypeOK, ScreenShape, Stage, Counts, CountCoversHolders

LEMMA StepInv == IInv /\ [Next]_vars => IInv'
<1> SUFFICES ASSUME IInv, [Next]_vars PROVE IInv'
  OBVIOUS
<1>1. ASSUME NEW s \in Screen, NEW how \in PreInitEnd(s), PreInit(s, how)
      PROVE  IInv'
  BY <1>1, PreInitInv
<1>2. ASSUME NEW s \in Screen, FreeScreen(s) PROVE IInv'
  BY <1>2, FreeScreenInv
<1>3. ASSUME NEW s \in Screen, NEW how \in InitEnd,
             NEW granted \in BOOLEAN, NEW works \in BOOLEAN,
             ScreenInit(s, how, granted, works)
      PROVE  IInv'
  <2>1. server.phase = "init" /\ s \in server.todo
    BY <1>3 DEF ScreenInit, IsNext
  <2>2. CASE how = "ok"
    BY <1>3, <2>1, <2>2, ScreenInitSucceedsInv DEF ScreenInit
  <2>3. CASE how # "ok"
    BY <1>3, <2>1, <2>3, ScreenInitFailsInv DEF ScreenInit
  <2> QED BY <2>2, <2>3
<1>4. ASSUME NEW s \in Screen, VTLeave(s) PROVE IInv'
  BY <1>4, VTLeaveInv
<1>5. ASSUME NEW s \in Screen, NEW granted \in BOOLEAN, NEW modes \in BOOLEAN,
             VTEnter(s, granted, modes)
      PROVE  IInv'
  BY <1>5, VTEnterInv
<1>6. ASSUME NEW s \in Screen, CloseScreen(s) PROVE IInv'
  BY <1>6, CloseScreenInv
<1>7. ASSUME NEW s \in Screen, AbortLeave(s) PROVE IInv'
  BY <1>7, AbortLeaveInv
<1>8. CASE SwitchAway \/ SwitchBack \/ EndGeneration
  BY <1>8, SwitchInv
<1>9. CASE Dead \/ UNCHANGED vars
  BY <1>9, StutterInv DEF Dead
<1> QED
  BY <1>1, <1>2, <1>3, <1>4, <1>5, <1>6, <1>7, <1>8, <1>9 DEF Next

-----------------------------------------------------------------------------
(* The theorems                                                            *)

\* The counts, the master and the stages of the screens are as IInv says,
\* whatever the screens and their options and however PreInit, ScreenInit,
\* VT switches and CloseScreen succeed or fail.
THEOREM Invariance == Spec => []IInv
<1>1. Init => IInv
  BY InitInv
<1>2. IInv /\ [Next]_vars => IInv'
  BY StepInv
<1> QED BY <1>1, <1>2, PTL DEF Spec

LEMMA InvBase == IInv => Base(conn)
BY DEF IInv, Counts, Sound

\* The connection, the screens and the server keep their types: in
\* particular no count ever drops below zero.
THEOREM TypeCorrect == Spec => []TypeOK
<1>1. IInv => TypeOK
  BY DEF IInv
<1> QED BY <1>1, Invariance, PTL

\* No assert() of SetDRMMaster, DropDRMMaster, OpenDRM, CloseDRM, ScreenInit
\* and CloseScreen fails.
THEOREM AssertsCorrect == Spec => []AssertsHold
<1>1. IInv => AssertsHold
  BY InvBase DEF Base, AssertsHold
<1> QED BY <1>1, Invariance, PTL

\* ScreenInit and EnterVT set modes and allocate scanouts only as DRM master.
THEOREM KmsCorrect == Spec => []KmsHasMaster
<1>1. IInv => KmsHasMaster
  BY InvBase DEF Base, KmsHasMaster
<1> QED BY <1>1, Invariance, PTL

\* master_count covers the screens that opened the connection, have a scanout
\* or have entered their VT.
THEOREM CoversCorrect == Spec => []CountCoversHolders
<1>1. IInv => CountCoversHolders
  BY DEF IInv, Counts, CountCoversHolders
<1> QED BY <1>1, Invariance, PTL

\* SetDRMMaster may skip the kernel when the count is positive.
THEOREM MasterCorrect == Spec => []CountMeansMaster
<1>1. IInv => CountMeansMaster
  BY DEF IInv, Counts, Sound, CountMeansMaster
<1> QED BY <1>1, Invariance, PTL

-----------------------------------------------------------------------------
(* open_count, if every PreInit that opened the connection and fails closes *)
(* it again: the one that does not is that of a screen with too few buffers *)

OpensInv ==
  /\ conn.open_count = Cardinality(Fds)
  /\ \A s \in Screen : scr[s].life = "failed" => ~scr[s].drmFD

\* A step that changes neither who has the connection open nor its count.
LEMMA SameOpens ==
  ASSUME OpensInv, conn'.open_count = conn.open_count,
         \A t \in Screen : scr'[t].drmFD = scr[t].drmFD
                           /\ scr'[t].life = scr[t].life
  PROVE  OpensInv'
<1>1. Fds' = Fds
  BY DEF Fds
<1> QED BY <1>1 DEF OpensInv

LEMMA OpensStep ==
  ASSUME BadBufs = {}, IInv, OpensInv, [Next]_vars
  PROVE  OpensInv'
<1>1. scr \in [Screen -> ScreenRec] /\ conn \in Connection
  BY DEF IInv, TypeOK
<1>2. ASSUME NEW s \in Screen, NEW how \in PreInitEnd(s), PreInit(s, how)
      PROVE  OpensInv'
  <2> DEFINE holds == how \in {"bufs", "ok"}
  <2>1. /\ ~scr[s].drmFD /\ scr' \in [Screen -> ScreenRec]
        /\ \A t \in Screen \ {s} : scr'[t] = scr[t]
        /\ scr'[s].life = IF how = "ok" THEN "live" ELSE "failed"
        /\ scr'[s].drmFD <=> holds
        /\ conn'.open_count = conn.open_count + Bit(holds)
    BY <1>2, PreInitChanges
  <2>2. how # "bufs"
    BY <1>2 DEF PreInitEnd
  <2>3. Cardinality(Fds') = Cardinality(Fds) + Bit(s \in Fds') - Bit(s \in Fds)
    <3>1. /\ Fds \in SUBSET Screen /\ Fds' \in SUBSET Screen
          /\ \A t \in Screen \ {s} : t \in Fds' <=> t \in Fds
      BY <2>1 DEF Fds
    <3> QED BY <3>1, OneBit
  <2>4. s \notin Fds /\ (s \in Fds' <=> holds) /\ Cardinality(Fds) \in Nat
    BY <2>1, Sizes DEF Fds
  <2>5. conn'.open_count = Cardinality(Fds')
    BY <2>1, <2>3, <2>4 DEF OpensInv, Bit
  <2>6. ASSUME NEW t \in Screen, scr'[t].life = "failed"
        PROVE  ~scr'[t].drmFD
    BY <2>1, <2>2, <2>6 DEF OpensInv
  <2> QED BY <2>5, <2>6 DEF OpensInv
<1>3. ASSUME NEW s \in Screen, FreeScreen(s) PROVE OpensInv'
  <2>1. conn' = conn /\ s \in server.todo /\ server.phase = "delete"
    BY <1>3 DEF FreeScreen, IsNext
  <2>2. scr[s].life = "failed"
    BY <2>1 DEF IInv, ScreenShape
  <2>3. ~scr[s].drmFD
    BY <2>2 DEF OpensInv
  <2>4. /\ \A t \in Screen \ {s} : scr'[t] = scr[t]
        /\ scr'[s].life = "freed" /\ ~scr'[s].drmFD
    BY <1>1, <1>3 DEF FreeScreen, ScreenRec
  <2>5. Fds' = Fds
    BY <2>3, <2>4 DEF Fds
  <2> QED BY <2>1, <2>4, <2>5 DEF OpensInv
<1>4. ASSUME NEW s \in Screen, NEW how \in InitEnd,
             NEW granted \in BOOLEAN, NEW works \in BOOLEAN,
             ScreenInit(s, how, granted, works)
      PROVE  OpensInv'
  <2> DEFINE b == Kms(Assert(SetDRMMaster(conn, granted), ~scr[s].scanout))
             e == EnterVT(b, granted)
  <2>1. server.phase = "init" /\ s \in server.todo
    BY <1>4 DEF ScreenInit, IsNext
  <2>2. /\ ~MasterRefused(conn, granted)
        /\ conn.master_count \in Nat
        /\ Sound(b) /\ b.fd /\ b.open_count = conn.open_count
        /\ Sound(e) /\ e.fd /\ e.open_count = conn.open_count
        /\ e.master_count = conn.master_count + 2
    BY <2>1, InitMaster
  <2>3. \A t \in Screen : scr'[t].drmFD = scr[t].drmFD
                          /\ scr'[t].life = scr[t].life
    BY <1>1, <1>4 DEF ScreenInit, ScreenInitSucceeds, ScreenInitFails,
       ScreenRec
  <2>4. CASE how = "ok"
    <3>1. conn' = e
      BY <1>4, <2>4 DEF ScreenInit, ScreenInitSucceeds
    <3> HIDE DEF e
    <3> QED BY <2>2, <2>3, <3>1, SameOpens
  <2>5. CASE how # "ok"
    <3>1. \/ conn' = Fail1(b) \/ conn' = Fail1(e)
          \/ conn' = Fail1(DropDRMMaster(e))
      BY <1>4, <2>2, <2>5 DEF ScreenInit, ScreenInitFails, InitEnd, LeaveVT
    <3> HIDE DEF b, e
    <3>2. Base(DropDRMMaster(e))
          /\ DropDRMMaster(e).open_count = conn.open_count
      BY <2>2, DropCounts DEF Sound
    <3>3. conn'.open_count = conn.open_count
      BY <2>2, <3>1, <3>2, Fail1Counts DEF Sound
    <3> QED BY <2>3, <3>3, SameOpens
  <2> QED BY <2>4, <2>5
<1>5. ASSUME NEW s \in Screen, VTLeave(s) \/ AbortLeave(s) PROVE OpensInv'
  <2>1. /\ conn' = DropDRMMaster(conn) /\ s \in server.todo
        /\ server.phase \in {"leaving", "abort"}
        /\ scr' = [scr EXCEPT ![s].entered = FALSE]
    BY <1>5 DEF VTLeave, AbortLeave, LeaveVT, IsNext
  <2>2. Base(conn) /\ conn.fd /\ conn.master_count > 0
    <3>1. scr[s].life = "live" /\ conn.fd
      BY <2>1 DEF IInv, ScreenShape
    <3>2. CASE server.phase = "leaving"
      BY <3>1, <3>2 DEF IInv, Counts, Sound
    <3>3. CASE server.phase = "abort"
      <4>1. Base(conn) /\ conn.master_count >= Cardinality(server.todo)
        BY <3>3 DEF IInv, Counts
      <4>2. Cardinality(server.todo) \in Nat /\ Cardinality(server.todo) # 0
        <5>1. server.todo \in SUBSET Screen
          BY DEF IInv, TypeOK
        <5> QED BY <2>1, <5>1, Sizes, FS_EmptySet
      <4> QED BY <1>1, <3>1, <4>1, <4>2 DEF Connection
    <3> QED BY <2>1, <3>2, <3>3
  <2>3. \A t \in Screen : scr'[t].drmFD = scr[t].drmFD
                          /\ scr'[t].life = scr[t].life
    BY <1>1, <2>1 DEF ScreenRec
  <2> QED BY <2>1, <2>2, <2>3, DropCounts, SameOpens
<1>6. ASSUME NEW s \in Screen, NEW granted \in BOOLEAN, NEW modes \in BOOLEAN,
             VTEnter(s, granted, modes)
      PROVE  OpensInv'
  <2>1. /\ conn' = EnterVT(conn, granted) /\ s \in server.todo
        /\ server.phase = "entering"
    BY <1>6 DEF VTEnter, IsNext
  <2>2. Sound(conn) /\ conn.fd /\ conn.master_count > 0
    BY <2>1 DEF IInv, Counts, ScreenShape
  <2>3. \A t \in Screen : scr'[t].drmFD = scr[t].drmFD
                          /\ scr'[t].life = scr[t].life
    BY <1>1, <1>6 DEF VTEnter, ScreenRec
  <2> QED BY <2>1, <2>2, <2>3, EnterCounts, SameOpens
<1>7. ASSUME NEW s \in Screen, CloseScreen(s) PROVE OpensInv'
  <2>1. server.phase = "closing" /\ s \in server.todo
    BY <1>7 DEF CloseScreen, IsNext
  <2>2. /\ Sound(conn) /\ conn.fd /\ conn.master_count > 0
        /\ scr[s].scanout /\ scr[s].vtSema
    BY <2>1 DEF IInv, Counts, ScreenShape, Stage
  <2> DEFINE a == Assert(conn, scr[s].scanout)
  <2>3. /\ Sound(a) /\ a.fd /\ a.master_count > 0
        /\ a.open_count = conn.open_count
    BY <2>2, AssertTrue
  <2>4. conn' = DropDRMMaster(a)
    BY <1>7, <2>2 DEF CloseScreen, LeaveVT
  <2>5. \A t \in Screen : scr'[t].drmFD = scr[t].drmFD
                          /\ scr'[t].life = scr[t].life
    BY <1>1, <1>7 DEF CloseScreen, ScreenRec
  <2> HIDE DEF a
  <2> QED BY <2>3, <2>4, <2>5, DropCounts, SameOpens DEF Sound
<1>8. CASE SwitchAway \/ SwitchBack \/ EndGeneration \/ Dead \/ UNCHANGED vars
  BY <1>8, SameOpens DEF SwitchAway, SwitchBack, EndGeneration, Dead, vars
<1> QED
  BY <1>2, <1>3, <1>4, <1>5, <1>6, <1>7, <1>8 DEF Next

\* If no screen fails for its number of buffers, the connection is open while
\* a screen has it open, and counts each of them.
THEOREM OpensCorrect ==
  ASSUME BadBufs = {}
  PROVE  Spec => []OpensMatchScreens
<1>1. Init => OpensInv
  <2> SUFFICES ASSUME Init PROVE OpensInv
    OBVIOUS
  <2>1. Fds = {}
    BY DEF Init, Fds
  <2> QED BY <2>1, FS_EmptySet DEF Init, OpensInv
<1>2. IInv /\ OpensInv /\ [Next]_vars => OpensInv'
  BY OpensStep
<1>3. IInv /\ OpensInv => OpensMatchScreens
  BY InvBase DEF Base, OpensInv, OpensMatchScreens, Fds
<1> QED BY <1>1, <1>2, <1>3, Invariance, PTL DEF Spec

=============================================================================
