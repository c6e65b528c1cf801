------------------------- MODULE PresentQueueProofs -------------------------
(***************************************************************************)
(* Theorems about PresentQueue, for every number of requests, addresses    *)
(* and CRTCs and every width of the counters. The inductive invariant says *)
(* which entries and events belong together; what needs that no address is *)
(* used again while the kernel has it is kept apart, in Fresh.             *)
(***************************************************************************)
EXTENDS PresentQueue, SequenceTheorems, TLAPS

\* What the elements of a sequence are when one is added or taken.
LEMMA ElemsAppend ==
  ASSUME NEW S, NEW s \in Seq(S), NEW e \in S
  PROVE  SeqElems(Append(s, e)) = SeqElems(s) \cup {e}
<1>1. /\ Len(s) \in Nat /\ DOMAIN s = 1..Len(s)
      /\ DOMAIN Append(s, e) = 1..Len(s) + 1
  BY LenProperties, AppendProperties
<1>2. /\ \A i \in 1..Len(s) : Append(s, e)[i] = s[i]
      /\ Append(s, e)[Len(s) + 1] = e
  BY AppendProperties
<1>3. 1..Len(s) + 1 = 1..Len(s) \cup {Len(s) + 1}
  BY <1>1
<1> QED BY <1>1, <1>2, <1>3, Zenon DEF SeqElems

LEMMA ElemsTail ==
  ASSUME NEW S, NEW s \in Seq(S), s # <<>>
  PROVE  /\ Head(s) \in SeqElems(s)
         /\ SeqElems(s) = SeqElems(Tail(s)) \cup {Head(s)}
<1>1. /\ Len(s) \in Nat \ {0} /\ DOMAIN s = 1..Len(s)
      /\ DOMAIN Tail(s) = 1..Len(s) - 1
  BY EmptySeq, LenProperties, HeadTailProperties
<1>2. /\ Head(s) = s[1]
      /\ \A i \in 1..Len(s) - 1 : Tail(s)[i] = s[i + 1]
  BY HeadTailProperties
<1>3. ASSUME NEW i \in DOMAIN s
      PROVE  s[i] = Head(s) \/ s[i] \in SeqElems(Tail(s))
  <2>1. i = 1 \/ (i - 1 \in DOMAIN Tail(s) /\ Tail(s)[i - 1] = s[i])
    BY <1>1, <1>2
  <2> QED BY <2>1, <1>2 DEF SeqElems
<1>4. ASSUME NEW i \in DOMAIN Tail(s)
      PROVE  Tail(s)[i] \in SeqElems(s)
  <2>1. i + 1 \in DOMAIN s /\ Tail(s)[i] = s[i + 1]
    BY <1>1, <1>2
  <2> QED BY <2>1 DEF SeqElems
<1>5. Head(s) \in SeqElems(s)
  BY <1>1, <1>2 DEF SeqElems
<1> QED BY <1>3, <1>4, <1>5 DEF SeqElems

LEMMA ElemsEmpty == SeqElems(<<>>) = {}
BY DEF SeqElems

LEMMA ElemsIn ==
  ASSUME NEW S, NEW s \in Seq(S)
  PROVE  SeqElems(s) \subseteq S
BY DEF SeqElems

-----------------------------------------------------------------------------
(* Types                                                                   *)

LEMMA ClockTypes ==
  ASSUME NEW k \in ClockRec, NEW s \in Int, NEW e \in Int
  PROVE  /\ See(k, s) \in ClockRec
         /\ Smack(k, e) \in ClockRec
         /\ KernelSeq(k, e) \in 0..Wrap - 1
         /\ Msc(k) \in Nat
<1> USE PresentAssumption
<1>1. \A x \in Int : x % Wrap \in 0..Wrap - 1
  OBVIOUS
<1>2. \A x \in Int : Signed(x) \in Int
  BY <1>1 DEF Signed
<1>3. k.offset \in Int /\ k.prev \in 0..Wrap - 1 /\ k.high \in Nat
  BY DEF ClockRec
<1>4. See(k, s) \in ClockRec
  <2> DEFINE t == (s + k.offset) % Wrap
  <2>1. t \in 0..Wrap - 1
    BY <1>1, <1>3
  <2>2. k.high + Wrap \in Nat
    BY <1>3
  <2> QED BY <2>1, <2>2, <1>3 DEF See, ClockRec
<1>5. Msc(k) \in Nat
  BY <1>3 DEF Msc
<1>6. Smack(k, e) \in ClockRec
  BY <1>2, <1>3, <1>5 DEF Smack, ClockRec
<1>7. KernelSeq(k, e) \in 0..Wrap - 1
  BY <1>1, <1>3 DEF KernelSeq
<1> QED BY <1>4, <1>5, <1>6, <1>7

\* The clock of a CRTC once it was asked for its MSC.
LEMMA AskTypes ==
  ASSUME NEW k \in ClockRec
  PROVE  GetUstMsc(k) \in ClockRec
BY ClockTypes, 0 \in Int DEF GetUstMsc, KernelMsc

\* Fields of the records, used to type the updates.
LEMMA RequestFields ==
  ASSUME NEW q \in RequestRec
  PROVE  /\ q.outcome \in Outcome
         /\ q.crtc \in Crtc \cup {NoCrtc}
         /\ q.addr \in Addr \cup {NoAddr}
         /\ q.target \in Nat
         /\ q.seq \in 0..Wrap - 1
         /\ q.frame \in Int
         /\ q.msc \in Int
         /\ \A o \in Outcome : [q EXCEPT !.outcome = o] \in RequestRec
BY DEF RequestRec

-----------------------------------------------------------------------------
(* The inductive invariant                                                 *)

\* Requests not made yet are in nobody's hands; CRTC and address of a request
\* are set when the kernel gets its event; an event is armed or sent, and has a
\* frame when it was sent; while the call loops its request is not with the
\* kernel.
Places ==
  /\ \A r \in Request : req[r].outcome = "none" => r \notin Owed
  /\ \A r \in Owed : req[r].crtc \in Crtc /\ req[r].addr \in Addr
  /\ \A r \in queue : req[r].crtc \in Crtc
  /\ \A r \in SeqElems(readable) \cup SeqElems(reading) : req[r].frame # -1
  /\ call # 0 => /\ call \notin Owed /\ req[call].outcome # "none"
                 /\ req[call].crtc \in Crtc /\ req[call].addr \in Addr

Down == ~up => queue = {} /\ call = 0 /\ reading = <<>>

IInv ==
  /\ TypeOK
  /\ Places
  /\ Down
  /\ QueueIsPending
  /\ EntriesOwnEvents
  /\ PendingAreOwed

\* The entry that has an id in its event is that of the request, if it has one.
LEMMA EntriesAre ==
  ASSUME IInv, NEW id \in Request
  PROVE  Entries(id) = queue \cap {id}
BY DEF IInv, EntriesOwnEvents, Entries

\* Two entries never point to one event.
LEMMA MatchIsEntry ==
  ASSUME IInv, NEW e \in Request, NEW r \in Matches(e)
  PROVE  /\ r \in queue /\ req[r].addr = req[e].addr
         /\ req[e].addr \in Addr /\ heap[req[e].addr] = r
         /\ \A s \in queue : req[s].addr = req[e].addr => s = r
BY DEF IInv, EntriesOwnEvents, Matches

LEMMA InitInv == Init => IInv
<1> SUFFICES ASSUME Init PROVE IInv
  OBVIOUS
<1>1. SeqElems(readable) = {} /\ SeqElems(reading) = {} /\ Owed = {}
  BY ElemsEmpty DEF Init, Owed
<1>2. TypeOK
  <2>1. NewRequest \in RequestRec
    BY PresentAssumption DEF NewRequest, RequestRec, Outcome
  <2>2. [offset |-> 0, prev |-> 0, high |-> 0] \in ClockRec
    BY PresentAssumption DEF ClockRec
  <2>3. /\ req \in [Request -> RequestRec] /\ clock \in [Crtc -> ClockRec]
        /\ heap \in [Addr -> Request \cup {0}] /\ now \in [Crtc -> Nat]
    BY <2>1, <2>2 DEF Init
  <2>4. <<>> \in Seq(Request)
    OBVIOUS
  <2> QED BY <2>3, <2>4 DEF Init, TypeOK
<1>3. \A r \in Request : req[r].outcome = "none"
  BY DEF Init, NewRequest
<1> QED BY <1>1, <1>2, <1>3
      DEF Init, IInv, Places, Down, QueueIsPending, EntriesOwnEvents, PendingAreOwed

-----------------------------------------------------------------------------
(* One lemma per action                                                    *)

\* A step that leaves the requests, the queue and the events alone.
LEMMA QuietStep ==
  ASSUME IInv, TypeOK', Down',
         UNCHANGED <<req, queue, heap, armed, readable, reading, call>>
  PROVE  IInv'
<1>1. Owed' = Owed /\ (SeqElems(readable) \cup SeqElems(reading))'
                      = SeqElems(readable) \cup SeqElems(reading)
  BY DEF Owed, SeqElems
<1>2. Places' /\ QueueIsPending' /\ EntriesOwnEvents' /\ PendingAreOwed'
  BY <1>1 DEF IInv, Places, QueueIsPending, EntriesOwnEvents, PendingAreOwed
<1> QED BY <1>2 DEF IInv

LEMMA QueueVblankInv ==
  ASSUME IInv, NEW r \in Request, NEW c \in Crtc, NEW d \in Ahead, QueueVblank(r, c, d)
  PROVE  IInv'
<1> DEFINE seen == GetUstMsc(clock[c])
           expect == Msc(seen) + d
           moved == Smack(GetUstMsc(seen), expect)
<1>1. seen \in ClockRec /\ expect \in Nat /\ moved \in ClockRec
      /\ KernelSeq(moved, expect) \in 0..Wrap - 1
  <2>1. seen \in ClockRec /\ GetUstMsc(seen) \in ClockRec
    BY AskTypes DEF IInv, TypeOK
  <2>2. Msc(seen) \in Nat
    BY <2>1, ClockTypes, 0 \in Int
  <2>3. expect \in Nat /\ expect \in Int
    BY <2>2, PresentAssumption
  <2>4. moved \in ClockRec
    BY <2>1, <2>3, ClockTypes, 0 \in Int
  <2> QED BY <2>1, <2>3, <2>4, ClockTypes, 0 \in Int
<1>2. PICK a \in FreeAddr :
        /\ heap' = [heap EXCEPT ![a] = r]
        /\ req' = [req EXCEPT ![r] =
             [@ EXCEPT !.outcome = "pending", !.crtc = c, !.addr = a,
                       !.target = expect, !.seq = KernelSeq(moved, expect)]]
  BY DEF QueueVblank
<1>3. /\ queue' = queue \cup {r} /\ call' = r /\ call = 0 /\ up
      /\ reading = <<>> /\ req[r].outcome = "none"
      /\ clock' = [clock EXCEPT ![c] = moved]
      /\ UNCHANGED <<armed, readable, reading, now, up>>
  BY DEF QueueVblank, QueueAlloc, Idle, IsNext
<1> HIDE DEF seen, expect, moved
<1>4. /\ a \in Addr /\ heap[a] = 0
      /\ req \in [Request -> RequestRec] /\ heap \in [Addr -> Request \cup {0}]
      /\ 0 \notin Request
  BY DEF FreeAddr, IInv, TypeOK, Request
<1>5. /\ req'[r].outcome = "pending" /\ req'[r].crtc = c /\ req'[r].addr = a
      /\ req'[r] \in RequestRec /\ req' \in [Request -> RequestRec]
      /\ \A s \in Request \ {r} : req'[s] = req[s]
  <2> DEFINE p == [req[r] EXCEPT !.outcome = "pending", !.crtc = c, !.addr = a,
                       !.target = expect, !.seq = KernelSeq(moved, expect)]
  <2>1. req[r] \in RequestRec
    BY <1>4
  <2>2. p \in RequestRec /\ p.outcome = "pending" /\ p.crtc = c /\ p.addr = a
    BY <2>1, <1>1, <1>4 DEF RequestRec, Outcome
  <2>3. req' = [req EXCEPT ![r] = p]
    BY <1>2
  <2> HIDE DEF p
  <2> QED BY <2>2, <2>3, <1>4
<1>6. /\ heap' \in [Addr -> Request \cup {0}] /\ heap'[a] = r
      /\ \A b \in Addr \ {a} : heap'[b] = heap[b]
  BY <1>2, <1>4
<1>7. TypeOK'
  BY <1>1, <1>3, <1>5, <1>6 DEF IInv, TypeOK
<1>8. r \notin queue /\ r \notin Owed /\ Owed' = Owed
  BY <1>3 DEF IInv, QueueIsPending, Places, Owed
<1>9. SeqElems(readable) \cup SeqElems(reading) \subseteq Request /\ Owed \subseteq Request
      /\ SeqElems(readable) \cup SeqElems(reading) \subseteq Owed
  BY ElemsIn DEF IInv, TypeOK, Owed
<1>10. QueueIsPending'
  BY <1>3, <1>5 DEF IInv, QueueIsPending
<1>11. EntriesOwnEvents'
  <2>1. \A s \in queue : req[s].addr # a /\ s \in Request
    BY <1>4 DEF IInv, EntriesOwnEvents, TypeOK
  <2>2. ASSUME NEW s \in queue'
        PROVE  req'[s].addr \in Addr /\ heap'[req'[s].addr] = s
    <3>1. CASE s = r
      BY <3>1, <1>4, <1>5, <1>6
    <3>2. CASE s # r
      BY <3>2, <2>1, <1>3, <1>5, <1>6 DEF IInv, EntriesOwnEvents
    <3> QED BY <3>1, <3>2
  <2>3. ASSUME NEW b \in Addr, heap'[b] # 0
        PROVE  heap'[b] \in queue' /\ req'[heap'[b]].addr = b
    <3>1. CASE b = a
      BY <3>1, <1>3, <1>5, <1>6
    <3>2. CASE b # a
      <4>1. heap'[b] = heap[b] /\ heap[b] \in queue /\ req[heap[b]].addr = b
        BY <3>2, <2>3, <1>6 DEF IInv, EntriesOwnEvents
      <4> QED BY <4>1, <2>1, <1>3, <1>5, <1>8
    <3> QED BY <3>1, <3>2
  <2> QED BY <2>2, <2>3 DEF EntriesOwnEvents
<1>12. PendingAreOwed'
  BY <1>3, <1>4, <1>8 DEF IInv, PendingAreOwed, TypeOK
<1>13. Places'
  <2>1. \A s \in queue' : req'[s].crtc \in Crtc
    BY <1>3, <1>5, <1>8 DEF IInv, Places, TypeOK
  <2> QED BY <2>1, <1>3, <1>4, <1>5, <1>8, <1>9 DEF IInv, Places
<1>14. Down'
  BY <1>3 DEF Down
<1> QED BY <1>7, <1>10, <1>11, <1>12, <1>13, <1>14 DEF IInv

LEMMA QueueVblankFailsInv ==
  ASSUME IInv, NEW r \in Request, NEW c \in Crtc, QueueVblankFails(r, c)
  PROVE  IInv'
<1>1. /\ req[r].outcome = "none" /\ req' = [req EXCEPT ![r].outcome = "refused"]
      /\ clock' = [clock EXCEPT ![c] = GetUstMsc(@)]
      /\ UNCHANGED <<queue, heap, armed, readable, reading, call, now, up>>
  BY DEF QueueVblankFails, IsNext, End
<1>2. /\ req \in [Request -> RequestRec] /\ clock \in [Crtc -> ClockRec]
      /\ queue \subseteq Request /\ call \in Request \cup {0}
  BY DEF IInv, TypeOK
<1>3. /\ req' \in [Request -> RequestRec]
      /\ req'[r].outcome = "refused"
      /\ \A s \in Request : /\ req'[s].crtc = req[s].crtc /\ req'[s].addr = req[s].addr
                            /\ req'[s].frame = req[s].frame
                            /\ s # r => req'[s] = req[s]
  BY <1>1, <1>2 DEF RequestRec, Outcome
<1>4. clock' \in [Crtc -> ClockRec]
  BY <1>1, <1>2, AskTypes
<1>5. TypeOK'
  BY <1>1, <1>3, <1>4 DEF IInv, TypeOK
<1>6. Owed' = Owed /\ Owed \subseteq Request /\ r \notin queue
      /\ (SeqElems(readable) \cup SeqElems(reading))' = SeqElems(readable) \cup SeqElems(reading)
  BY <1>1, ElemsIn DEF IInv, TypeOK, Owed, QueueIsPending, SeqElems
<1>7. SeqElems(readable) \cup SeqElems(reading) \subseteq Owed
  BY DEF Owed
<1>8. Places'
  BY <1>1, <1>2, <1>3, <1>6, <1>7 DEF IInv, Places
<1>9. QueueIsPending' /\ PendingAreOwed' /\ Down'
  BY <1>1, <1>2, <1>3, <1>6 DEF IInv, QueueIsPending, PendingAreOwed, Down
<1>10. EntriesOwnEvents'
  BY <1>1, <1>2, <1>3 DEF IInv, EntriesOwnEvents, TypeOK
<1> QED BY <1>5, <1>8, <1>9, <1>10 DEF IInv

LEMMA WaitVblankInv ==
  ASSUME IInv, WaitVblank
  PROVE  IInv'
<1>1. /\ call # 0 /\ reading = <<>> /\ armed' = armed \cup {call} /\ call' = 0
      /\ UNCHANGED <<req, queue, heap, readable, reading, clock, now, up>>
  BY DEF WaitVblank
<1>2. TypeOK'
  BY <1>1 DEF IInv, TypeOK
<1>3. Owed' = Owed \cup {call}
      /\ (SeqElems(readable) \cup SeqElems(reading))' = SeqElems(readable) \cup SeqElems(reading)
  BY <1>1 DEF Owed, SeqElems
<1>4. req[call].crtc \in Crtc /\ req[call].addr \in Addr /\ req[call].outcome # "none"
  BY <1>1 DEF IInv, Places
<1>5. Places'
  BY <1>1, <1>3, <1>4 DEF IInv, Places
<1>6. QueueIsPending' /\ PendingAreOwed' /\ Down' /\ EntriesOwnEvents'
  BY <1>1, <1>3 DEF IInv, QueueIsPending, PendingAreOwed, Down, EntriesOwnEvents
<1> QED BY <1>2, <1>5, <1>6 DEF IInv

\* FlushEvents and ReadEvents: events move to the buffer of drmHandleEvent.
LEMMA ReadInv ==
  ASSUME IInv, up, reading = <<>>, reading' = readable, readable' = <<>>,
         UNCHANGED <<req, queue, heap, armed, call, clock, now, up>>
  PROVE  IInv'
<1>1. <<>> \in Seq(Request)
  OBVIOUS
<1>2. TypeOK'
  BY <1>1 DEF IInv, TypeOK
<1>3. SeqElems(readable') = {} /\ SeqElems(reading) = {}
      /\ SeqElems(reading') = SeqElems(readable) /\ Owed' = armed' \cup SeqElems(readable') \cup SeqElems(reading')
  BY ElemsEmpty DEF Owed, SeqElems
<1>4. Owed' = Owed
      /\ (SeqElems(readable) \cup SeqElems(reading))' = SeqElems(readable) \cup SeqElems(reading)
  BY <1>3 DEF Owed, SeqElems
<1>5. Places' /\ QueueIsPending' /\ EntriesOwnEvents' /\ PendingAreOwed' /\ Down'
  BY <1>4 DEF IInv, Places, QueueIsPending, EntriesOwnEvents, PendingAreOwed, Down
<1> QED BY <1>2, <1>5 DEF IInv

\* An entry goes with its event, and its request gets another outcome.
LEMMA AbortInv ==
  ASSUME IInv, NEW r \in Request, NEW o \in {"refused", "aborted"},
         req[r].outcome # "none", up, reading = <<>>,
         AbortEvent(r), End(r, o), call \in {0, r}, call' = 0,
         UNCHANGED <<armed, readable, reading, clock, now, up>>
  PROVE  IInv'
<1>1. /\ queue' = queue \ {r}
      /\ req' = [req EXCEPT ![r].outcome = o]
      /\ heap' = [a \in Addr |-> IF r \in queue /\ req[r].addr = a THEN 0 ELSE heap[a]]
  <2>1. Entries(r) = queue \cap {r}
    BY EntriesAre
  <2> QED BY <2>1 DEF AbortEvent, End
<1>2. /\ req \in [Request -> RequestRec] /\ queue \subseteq Request
      /\ heap \in [Addr -> Request \cup {0}] /\ 0 \notin Request
  BY DEF IInv, TypeOK, Request
<1>3. /\ req' \in [Request -> RequestRec] /\ req'[r].outcome = o
      /\ \A s \in Request : /\ req'[s].crtc = req[s].crtc /\ req'[s].addr = req[s].addr
                            /\ req'[s].frame = req[s].frame
                            /\ s # r => req'[s] = req[s]
  <2> DEFINE p == [req[r] EXCEPT !.outcome = o]
  <2>1. req[r] \in RequestRec /\ o \in Outcome
    BY <1>2 DEF Outcome
  <2>2. p \in RequestRec /\ p.outcome = o /\ p.crtc = req[r].crtc
        /\ p.addr = req[r].addr /\ p.frame = req[r].frame
    BY <2>1 DEF RequestRec
  <2>3. req' = [req EXCEPT ![r] = p]
    BY <1>1
  <2> HIDE DEF p
  <2> QED BY <2>2, <2>3, <1>2
<1>4. heap' \in [Addr -> Request \cup {0}]
  BY <1>1, <1>2
<1>5. TypeOK'
  BY <1>1, <1>3, <1>4 DEF IInv, TypeOK
<1>6. Owed' = Owed /\ Owed \subseteq Request
      /\ SeqElems(readable) \cup SeqElems(reading) \subseteq Owed
      /\ (SeqElems(readable) \cup SeqElems(reading))' = SeqElems(readable) \cup SeqElems(reading)
  BY ElemsIn DEF IInv, TypeOK, Owed, SeqElems
<1>7. Places'
  BY <1>1, <1>2, <1>3, <1>6 DEF IInv, Places
<1>8. QueueIsPending' /\ PendingAreOwed' /\ Down'
  BY <1>1, <1>2, <1>3, <1>6 DEF IInv, QueueIsPending, PendingAreOwed, Down
<1>9. EntriesOwnEvents'
  <2>1. ASSUME NEW s \in queue'
        PROVE  req'[s].addr \in Addr /\ heap'[req'[s].addr] = s
    <3>1. s \in queue /\ s # r /\ req'[s].addr = req[s].addr
      BY <1>1, <1>2, <1>3
    <3>2. req[s].addr \in Addr /\ heap[req[s].addr] = s
          /\ (r \in queue => heap[req[r].addr] = r)
      BY <3>1 DEF IInv, EntriesOwnEvents
    <3> QED BY <3>1, <3>2, <1>1
  <2>2. ASSUME NEW a \in Addr, heap'[a] # 0
        PROVE  heap'[a] \in queue' /\ req'[heap'[a]].addr = a
    <3>1. heap'[a] = heap[a] /\ ~(r \in queue /\ req[r].addr = a)
      BY <2>2, <1>1
    <3>2. heap[a] \in queue /\ req[heap[a]].addr = a
      BY <3>1, <2>2 DEF IInv, EntriesOwnEvents
    <3> QED BY <3>1, <3>2, <1>1, <1>2, <1>3
  <2> QED BY <2>1, <2>2 DEF EntriesOwnEvents
<1> QED BY <1>5, <1>7, <1>8, <1>9 DEF IInv

LEMMA SendEventInv ==
  ASSUME IInv, NEW r \in Request, SendEvent(r)
  PROVE  IInv'
<1>1. /\ r \in armed /\ armed' = armed \ {r} /\ readable' = Append(readable, r)
      /\ req' = [req EXCEPT ![r].frame = now[req[r].crtc]]
      /\ UNCHANGED <<queue, heap, reading, call, clock, now, up>>
  BY DEF SendEvent
<1>2. /\ req \in [Request -> RequestRec] /\ queue \subseteq Request /\ armed \subseteq Request
      /\ readable \in Seq(Request) /\ reading \in Seq(Request) /\ call \in Request \cup {0}
  BY DEF IInv, TypeOK
<1>3. now[req[r].crtc] \in Nat
  BY <1>1 DEF IInv, TypeOK, Places, Owed
<1>4. /\ req' \in [Request -> RequestRec] /\ req'[r].frame # -1
      /\ \A s \in Request : /\ req'[s].crtc = req[s].crtc /\ req'[s].addr = req[s].addr
                            /\ req'[s].outcome = req[s].outcome
                            /\ s # r => req'[s] = req[s]
  <2> DEFINE p == [req[r] EXCEPT !.frame = now[req[r].crtc]]
  <2>1. req[r] \in RequestRec
    BY <1>2
  <2>2. p \in RequestRec /\ p.frame # -1 /\ p.crtc = req[r].crtc
        /\ p.addr = req[r].addr /\ p.outcome = req[r].outcome
    BY <2>1, <1>3 DEF RequestRec
  <2>3. req' = [req EXCEPT ![r] = p]
    BY <1>1
  <2> HIDE DEF p
  <2> QED BY <2>2, <2>3, <1>2
<1>5. readable' \in Seq(Request) /\ SeqElems(readable') = SeqElems(readable) \cup {r}
  BY <1>1, <1>2, ElemsAppend, AppendProperties
<1>6. TypeOK'
  BY <1>1, <1>4, <1>5 DEF IInv, TypeOK
<1>7. Owed' = Owed /\ Owed \subseteq Request
      /\ SeqElems(readable) \cup SeqElems(reading) \subseteq Request
      /\ (SeqElems(readable) \cup SeqElems(reading))'
           = SeqElems(readable) \cup SeqElems(reading) \cup {r}
  <2>1. SeqElems(readable) \subseteq Request /\ SeqElems(reading) \subseteq Request
    BY <1>2, ElemsIn
  <2>2. Owed' = armed' \cup SeqElems(readable') \cup SeqElems(reading')
        /\ SeqElems(reading') = SeqElems(reading)
    BY <1>1 DEF Owed
  <2>3. (SeqElems(readable) \cup SeqElems(reading))'
          = SeqElems(readable') \cup SeqElems(reading')
    BY DEF SeqElems
  <2> QED BY <2>1, <2>2, <2>3, <1>1, <1>2, <1>5 DEF Owed
<1>8. Places'
  BY <1>1, <1>2, <1>4, <1>7 DEF IInv, Places
<1>9. QueueIsPending' /\ PendingAreOwed' /\ Down'
  BY <1>1, <1>2, <1>4, <1>7 DEF IInv, QueueIsPending, PendingAreOwed, Down
<1>10. EntriesOwnEvents'
  BY <1>1, <1>2, <1>4 DEF IInv, EntriesOwnEvents, TypeOK
<1> QED BY <1>6, <1>8, <1>9, <1>10 DEF IInv

\* One event is taken from the buffer of drmHandleEvent.
LEMMA TakenFromReading ==
  ASSUME IInv, reading # <<>>, reading' = Tail(reading), UNCHANGED <<armed, readable>>
  PROVE  /\ Head(reading) \in Request /\ Head(reading) \in Owed
         /\ reading' \in Seq(Request)
         /\ Owed = Owed' \cup {Head(reading)} /\ Owed \subseteq Request
         /\ (SeqElems(readable) \cup SeqElems(reading))'
              \subseteq SeqElems(readable) \cup SeqElems(reading)
         /\ SeqElems(readable) \cup SeqElems(reading) \subseteq Owed
<1>1. reading \in Seq(Request) /\ readable \in Seq(Request) /\ armed \subseteq Request
  BY DEF IInv, TypeOK
<1>2. /\ Head(reading) \in SeqElems(reading)
      /\ SeqElems(reading) = SeqElems(Tail(reading)) \cup {Head(reading)}
  BY <1>1, ElemsTail
<1>3. Tail(reading) \in Seq(Request)
  BY <1>1, HeadTailProperties, EmptySeq
<1>4. SeqElems(readable) \subseteq Request /\ SeqElems(reading) \subseteq Request
  BY <1>1, ElemsIn
<1>5. Owed' = armed \cup SeqElems(readable) \cup SeqElems(Tail(reading))
      /\ (SeqElems(readable) \cup SeqElems(reading))'
           = SeqElems(readable) \cup SeqElems(Tail(reading))
  BY DEF Owed, SeqElems
<1> QED BY <1>1, <1>2, <1>3, <1>4, <1>5 DEF Owed

\* What Handle does when an entry matches, once it is known which.
LEMMA HandleStep ==
  ASSUME IInv, Handle, NEW e \in Request, e = Head(reading), Matches(e) # {}
  PROVE  \E r \in queue :
           /\ r \in Matches(e) /\ req[r].outcome = "pending"
           /\ queue' = queue \ {r}
           /\ heap' = [heap EXCEPT ![req[e].addr] = 0]
           /\ clock' = [clock EXCEPT ![req[r].crtc] = See(clock[req[r].crtc], req[e].frame)]
           /\ req' = [req EXCEPT ![r] = [@ EXCEPT !.outcome = "answered",
                        !.msc = Msc(See(clock[req[r].crtc], req[e].frame))]]
<1>1. PICK r \in Matches(e) :
        LET id == heap[req[e].addr]
            seen == See(clock[req[r].crtc], req[e].frame)
        IN  /\ clock' = [clock EXCEPT ![req[r].crtc] = seen]
            /\ queue' = queue \ {r}
            /\ req' = [req EXCEPT ![id] =
                 IF @.outcome = "pending"
                 THEN [@ EXCEPT !.outcome = "answered", !.msc = Msc(seen)]
                 ELSE @]
            /\ heap' = [heap EXCEPT ![req[e].addr] = 0]
  BY DEF Handle
<1>2. r \in queue /\ heap[req[e].addr] = r /\ r \in Request
  BY MatchIsEntry DEF IInv, TypeOK
<1>3. req[r].outcome = "pending"
  BY <1>2 DEF IInv, QueueIsPending
<1> DEFINE seen == See(clock[req[r].crtc], req[e].frame)
           p == [req[r] EXCEPT !.outcome = "answered", !.msc = Msc(seen)]
<1>4. req' = [req EXCEPT ![r] = p]
  <2>1. req' = [req EXCEPT ![r] = IF @.outcome = "pending"
                 THEN [@ EXCEPT !.outcome = "answered", !.msc = Msc(seen)] ELSE @]
    BY <1>1, <1>2
  <2> QED BY <2>1, <1>2, <1>3
<1> QED BY <1>1, <1>2, <1>3, <1>4

LEMMA HandleInv ==
  ASSUME IInv, Handle
  PROVE  IInv'
<1> DEFINE e == Head(reading)
<1>1. /\ reading # <<>> /\ reading' = Tail(reading)
      /\ UNCHANGED <<armed, readable, call, now, up>>
  BY DEF Handle
<1>2. /\ e \in Request /\ e \in Owed /\ reading' \in Seq(Request)
      /\ Owed = Owed' \cup {e} /\ Owed \subseteq Request
      /\ (SeqElems(readable) \cup SeqElems(reading))'
           \subseteq SeqElems(readable) \cup SeqElems(reading)
      /\ SeqElems(readable) \cup SeqElems(reading) \subseteq Owed
  BY <1>1, TakenFromReading
<1>3. req[e].addr \in Addr
  BY <1>2 DEF IInv, Places
<1>4. up
  BY <1>1 DEF IInv, Down
<1>5. CASE Matches(e) = {}
  <2>1. UNCHANGED <<req, queue, heap, clock>>
    BY <1>5 DEF Handle
  <2>2. TypeOK'
    BY <2>1, <1>1, <1>2 DEF IInv, TypeOK
  <2>3. e \notin queue
    BY <1>5 DEF Matches
  <2>4. Places'
    BY <2>1, <1>1, <1>2 DEF IInv, Places
  <2>5. PendingAreOwed'
    BY <2>1, <2>3, <1>1, <1>2 DEF IInv, PendingAreOwed
  <2>6. QueueIsPending' /\ EntriesOwnEvents' /\ Down'
    BY <2>1, <1>1, <1>4 DEF IInv, QueueIsPending, EntriesOwnEvents, Down
  <2> QED BY <2>2, <2>4, <2>5, <2>6 DEF IInv
<1>6. CASE Matches(e) # {}
  <2>1. PICK r \in queue :
           /\ r \in Matches(e) /\ req[r].outcome = "pending"
           /\ queue' = queue \ {r}
           /\ heap' = [heap EXCEPT ![req[e].addr] = 0]
           /\ clock' = [clock EXCEPT ![req[r].crtc] = See(clock[req[r].crtc], req[e].frame)]
           /\ req' = [req EXCEPT ![r] = [@ EXCEPT !.outcome = "answered",
                        !.msc = Msc(See(clock[req[r].crtc], req[e].frame))]]
    BY <1>2, <1>6, HandleStep
  <2>2. /\ req \in [Request -> RequestRec] /\ queue \subseteq Request
        /\ heap \in [Addr -> Request \cup {0}] /\ clock \in [Crtc -> ClockRec]
        /\ 0 \notin Request /\ r \in Request
    BY <2>1 DEF IInv, TypeOK, Request
  <2>3. /\ req[r].addr = req[e].addr /\ heap[req[e].addr] = r
        /\ \A s \in queue : req[s].addr = req[e].addr => s = r
    BY <1>2, <2>1, MatchIsEntry
  <2>4. req[r].crtc \in Crtc
    BY <2>1 DEF IInv, Places
  <2>5. See(clock[req[r].crtc], req[e].frame) \in ClockRec
    <3>1. clock[req[r].crtc] \in ClockRec /\ req[e].frame \in Int
      BY <1>2, <2>2, <2>4, RequestFields
    <3> QED BY <3>1, ClockTypes
  <2>6. Msc(See(clock[req[r].crtc], req[e].frame)) \in Int
    <3>1. Msc(See(clock[req[r].crtc], req[e].frame)) \in Nat
      BY <2>5, 0 \in Int, ClockTypes
    <3> QED BY <3>1
  <2>7. /\ req' \in [Request -> RequestRec] /\ req'[r].outcome = "answered"
        /\ \A s \in Request : /\ req'[s].crtc = req[s].crtc /\ req'[s].addr = req[s].addr
                              /\ req'[s].frame = req[s].frame
                              /\ s # r => req'[s] = req[s]
    <3> DEFINE p == [req[r] EXCEPT !.outcome = "answered",
                       !.msc = Msc(See(clock[req[r].crtc], req[e].frame))]
    <3>1. req[r] \in RequestRec
      BY <2>2
    <3>2. p \in RequestRec /\ p.outcome = "answered" /\ p.crtc = req[r].crtc
          /\ p.addr = req[r].addr /\ p.frame = req[r].frame
      BY <3>1, <2>6 DEF RequestRec, Outcome
    <3>3. req' = [req EXCEPT ![r] = p]
      BY <2>1
    <3> HIDE DEF p
    <3> QED BY <3>2, <3>3, <2>2
  <2>8. clock' \in [Crtc -> ClockRec] /\ heap' \in [Addr -> Request \cup {0}]
    BY <2>1, <2>2, <2>4, <2>5
  <2>9. TypeOK'
    BY <2>1, <2>7, <2>8, <1>1, <1>2 DEF IInv, TypeOK
  <2>10. Places'
    BY <2>1, <2>2, <2>7, <1>1, <1>2 DEF IInv, Places
  <2>11. QueueIsPending' /\ Down'
    BY <2>1, <2>2, <2>7, <1>1, <1>4 DEF IInv, QueueIsPending, Down
  <2>12. PendingAreOwed'
    <3>1. \A s \in queue : s = e => s = r
      BY <2>3
    <3> QED BY <3>1, <2>1, <1>1, <1>2 DEF IInv, PendingAreOwed
  <2>13. EntriesOwnEvents'
    <3>1. ASSUME NEW s \in queue'
          PROVE  req'[s].addr \in Addr /\ heap'[req'[s].addr] = s
      <4>1. s \in queue /\ s # r /\ req'[s].addr = req[s].addr
        BY <2>1, <2>2, <2>7
      <4>2. req[s].addr \in Addr /\ heap[req[s].addr] = s /\ req[s].addr # req[e].addr
        BY <4>1, <2>3 DEF IInv, EntriesOwnEvents
      <4> QED BY <4>1, <4>2, <2>1, <2>2
    <3>2. ASSUME NEW a \in Addr, heap'[a] # 0
          PROVE  heap'[a] \in queue' /\ req'[heap'[a]].addr = a
      <4>1. heap'[a] = heap[a] /\ a # req[e].addr
        BY <3>2, <2>1, <2>2
      <4>2. heap[a] \in queue /\ req[heap[a]].addr = a
        BY <4>1, <3>2 DEF IInv, EntriesOwnEvents
      <4> QED BY <4>1, <4>2, <2>1, <2>2, <2>3, <2>7
    <3> QED BY <3>1, <3>2 DEF EntriesOwnEvents
  <2> QED BY <2>9, <2>10, <2>11, <2>12, <2>13 DEF IInv
<1> QED BY <1>5, <1>6

-----------------------------------------------------------------------------
(* The theorems                                                            *)

LEMMA NextInv ==
  ASSUME IInv, [Next]_vars
  PROVE  IInv'
<1>1. call # 0 \/ reading # <<>> => up
  BY DEF IInv, Down
<1>2. CASE ScreenInit
  <2>1. queue' = queue /\ up' /\ UNCHANGED <<req, heap, armed, readable, reading, call, clock, now>>
    BY <1>2 DEF ScreenInit, IInv, Down
  <2>2. TypeOK' /\ Down'
    BY <2>1 DEF IInv, TypeOK, Down
  <2> QED BY <2>1, <2>2, QuietStep
<1>3. CASE CloseScreen
  <2>1. /\ up' = FALSE /\ call = 0 /\ reading = <<>>
        /\ UNCHANGED <<req, queue, heap, armed, readable, reading, call, clock, now>>
    BY <1>3 DEF CloseScreen, Idle
  <2>2. queue = {}
    BY <1>3 DEF CloseScreen, IInv, QueueIsPending
  <2>3. TypeOK' /\ Down'
    BY <2>1, <2>2 DEF IInv, TypeOK, Down
  <2> QED BY <2>1, <2>3, QuietStep
<1>4. ASSUME NEW r \in Request, NEW c \in Crtc, QueueVblankFails(r, c)
      PROVE  IInv'
  BY <1>4, QueueVblankFailsInv
<1>5. ASSUME NEW r \in Request, NEW c \in Crtc, NEW d \in Ahead, QueueVblank(r, c, d)
      PROVE  IInv'
  BY <1>5, QueueVblankInv
<1>6. ASSUME NEW r \in Request, AbortVblank(r)
      PROVE  IInv'
  BY <1>6, AbortInv DEF AbortVblank, Idle
<1>7. ASSUME NEW r \in Request, SendEvent(r)
      PROVE  IInv'
  BY <1>7, SendEventInv
<1>8. CASE WaitVblank
  BY <1>8, WaitVblankInv
<1>9. CASE FlushEvents
  BY <1>1, <1>9, ReadInv DEF FlushEvents
<1>10. CASE WaitVblankFails
  <2>1. call \in Request /\ req[call].outcome # "none" /\ up
    BY <1>1, <1>10 DEF WaitVblankFails, IInv, TypeOK, Places
  <2> QED BY <2>1, <1>10, AbortInv DEF WaitVblankFails
<1>11. ASSUME NEW c \in Crtc, Tick(c)
       PROVE  IInv'
  <2>1. UNCHANGED <<req, queue, heap, armed, readable, reading, call, clock, up>>
        /\ now' = [now EXCEPT ![c] = @ + 1]
    BY <1>11 DEF Tick
  <2>2. TypeOK' /\ Down'
    BY <2>1 DEF IInv, TypeOK, Down
  <2> QED BY <2>1, <2>2, QuietStep
<1>12. CASE ReadEvents
  BY <1>12, ReadInv DEF ReadEvents, Idle
<1>13. CASE Handle
  BY <1>13, HandleInv
<1>14. CASE UNCHANGED vars
  <2>1. TypeOK' /\ Down'
    BY <1>14 DEF vars, IInv, TypeOK, Down
  <2> QED BY <1>14, <2>1, QuietStep DEF vars
<1> QED
  BY <1>2, <1>3, <1>4, <1>5, <1>6, <1>7, <1>8, <1>9, <1>10, <1>11, <1>12, <1>13, <1>14
  DEF Next

\* The inductive invariant holds in every behaviour, whatever fails and
\* whatever address malloc gives a new event.
THEOREM Invariance == Spec => []IInv
BY InitInv, NextInv, PTL DEF Spec

\* Every variable keeps its type; the 32 bit counters stay in their width.
THEOREM TypeCorrect == Spec => []TypeOK
<1>1. IInv => TypeOK
  BY DEF IInv
<1> QED BY <1>1, Invariance, PTL

\* armsoc_drm_queue always holds the requests the core still waits for, so
\* that making it anew at the next generation forgets none.
THEOREM QueueCorrect == Spec => []QueueIsPending
<1>1. IInv => QueueIsPending
  BY DEF IInv
<1> QED BY <1>1, Invariance, PTL

\* No entry is left with a freed event and no event without an entry, through
\* every failure of queue_vblank, abort and answer.
THEOREM EventsOwned == Spec => []EntriesOwnEvents
<1>1. IInv => EntriesOwnEvents
  BY DEF IInv
<1> QED BY <1>1, Invariance, PTL

\* No request waits for an event that the kernel was never asked for, or that
\* was already handled.
THEOREM OwedCorrect == Spec => []PendingAreOwed
<1>1. IInv => PendingAreOwed
  BY DEF IInv
<1> QED BY <1>1, Invariance, PTL

-----------------------------------------------------------------------------
(* The promise to the core, when no address is used again while the kernel *)
(* has it. All that can fail may still fail.                               *)

NoReuse == "reuse" \notin Env

\* The address in a kernel event is that of its own entry or of none; the
\* request that queue_vblank loops for keeps its entry through the flush.
Fresh ==
  /\ \A r \in queue, e \in Owed : req[r].addr = req[e].addr => r = e
  /\ call # 0 => call \in queue

\* A request that ends keeps its address and its frame.
LEMMA SameAddr ==
  ASSUME IInv, NEW r \in Request, NEW o \in Outcome, End(r, o)
  PROVE  /\ \A s \in Request : req'[s].addr = req[s].addr /\ req'[s].frame = req[s].frame
         /\ [s \in Request |-> req'[s].outcome]
              = [[s \in Request |-> req[s].outcome] EXCEPT ![r] = o]
<1>1. req \in [Request -> RequestRec]
  BY DEF IInv, TypeOK
<1>2. \A s \in Request : /\ req'[s].addr = req[s].addr /\ req'[s].frame = req[s].frame
                         /\ req'[s].outcome = IF s = r THEN o ELSE req[s].outcome
  BY <1>1 DEF End, RequestRec
<1> QED BY <1>2

LEMMA FreshNext ==
  ASSUME IInv, Fresh, NoReuse, [Next]_vars
  PROVE  Fresh'
<1>1. /\ queue \subseteq Request /\ Owed \subseteq Request
      /\ req \in [Request -> RequestRec]
  BY ElemsIn DEF IInv, TypeOK, Owed
<1>2. ASSUME NEW r \in Request, NEW c \in Crtc, QueueVblankFails(r, c)
      PROVE  Fresh'
  <2>1. End(r, "refused") /\ UNCHANGED <<queue, armed, readable, reading, call>>
    BY <1>2 DEF QueueVblankFails
  <2>2. Owed' = Owed
    BY <2>1 DEF Owed, SeqElems
  <2>3. \A s \in Request : req'[s].addr = req[s].addr
    BY <2>1, SameAddr DEF Outcome
  <2> QED BY <1>1, <2>1, <2>2, <2>3 DEF Fresh
<1>3. ASSUME NEW r \in Request, NEW c \in Crtc, NEW d \in Ahead, QueueVblank(r, c, d)
      PROVE  Fresh'
  <2>1. PICK a \in FreeAddr :
          req' = [req EXCEPT ![r] =
             [@ EXCEPT !.outcome = "pending", !.crtc = c, !.addr = a,
                       !.target = Msc(GetUstMsc(clock[c])) + d,
                       !.seq = KernelSeq(Smack(GetUstMsc(GetUstMsc(clock[c])),
                                               Msc(GetUstMsc(clock[c])) + d),
                                         Msc(GetUstMsc(clock[c])) + d)]]
    BY <1>3 DEF QueueVblank
  <2>2. /\ queue' = queue \cup {r} /\ call' = r /\ req[r].outcome = "none"
        /\ UNCHANGED <<armed, readable, reading>>
    BY <1>3 DEF QueueVblank, QueueAlloc, IsNext
  <2>3. Owed' = Owed /\ r \notin Owed
    BY <2>2 DEF Owed, SeqElems, IInv, Places
  <2>4. req'[r].addr = a /\ \A s \in Request \ {r} : req'[s].addr = req[s].addr
    BY <2>1, <1>1 DEF RequestRec
  <2>5. \A e \in Owed : req[e].addr # a
    BY <2>1 DEF NoReuse, FreeAddr
  <2> QED BY <1>1, <2>2, <2>3, <2>4, <2>5 DEF Fresh
<1>4. ASSUME NEW r \in Request, AbortVblank(r)
      PROVE  Fresh'
  <2>1. /\ End(r, "aborted") /\ queue' \subseteq queue /\ call' = 0
        /\ UNCHANGED <<armed, readable, reading>>
    BY <1>4 DEF AbortVblank, AbortEvent, Idle
  <2>2. Owed' = Owed
    BY <2>1 DEF Owed, SeqElems
  <2>3. \A s \in Request : req'[s].addr = req[s].addr
    BY <2>1, SameAddr DEF Outcome
  <2> QED BY <1>1, <2>1, <2>2, <2>3 DEF Fresh
<1>5. ASSUME NEW r \in Request, SendEvent(r)
      PROVE  Fresh'
  <2>1. /\ r \in armed /\ armed' = armed \ {r} /\ readable' = Append(readable, r)
        /\ req' = [req EXCEPT ![r].frame = now[req[r].crtc]]
        /\ UNCHANGED <<queue, reading, call>> /\ readable \in Seq(Request)
    BY <1>5 DEF SendEvent, IInv, TypeOK
  <2>2. Owed' = armed' \cup SeqElems(readable') \cup SeqElems(reading')
    BY DEF Owed, SeqElems
  <2>3. SeqElems(readable') = SeqElems(readable) \cup {r}
    BY <2>1, ElemsAppend
  <2>4. Owed' = Owed
    BY <2>1, <2>2, <2>3 DEF Owed
  <2>5. \A s \in Request : req'[s].addr = req[s].addr
    BY <2>1, <1>1 DEF RequestRec
  <2> QED BY <1>1, <2>1, <2>4, <2>5 DEF Fresh
<1>6. CASE WaitVblank
  <2>1. call \in queue /\ call' = 0 /\ armed' = armed \cup {call}
        /\ UNCHANGED <<req, queue, readable, reading>>
    BY <1>6 DEF WaitVblank, Fresh
  <2>2. Owed' = Owed \cup {call}
    BY <2>1 DEF Owed, SeqElems
  <2>3. \A r \in queue : req[r].addr = req[call].addr => r = call
    BY <2>1 DEF IInv, EntriesOwnEvents
  <2> QED BY <1>1, <2>1, <2>2, <2>3 DEF Fresh
<1>7. CASE FlushEvents \/ ReadEvents
  <2>1. /\ reading = <<>> /\ reading' = readable /\ readable' = <<>>
        /\ UNCHANGED <<req, queue, armed, call>>
    BY <1>7 DEF FlushEvents, ReadEvents, Idle
  <2>2. Owed' = armed' \cup SeqElems(readable') \cup SeqElems(reading')
    BY DEF Owed, SeqElems
  <2>3. Owed' = Owed
    BY <2>1, <2>2, ElemsEmpty DEF Owed
  <2> QED BY <1>1, <2>1, <2>3 DEF Fresh
<1>8. CASE WaitVblankFails
  <2>1. /\ call \in Request /\ End(call, "refused") /\ queue' \subseteq queue /\ call' = 0
        /\ UNCHANGED <<armed, readable, reading>>
    BY <1>8 DEF WaitVblankFails, AbortEvent, IInv, TypeOK
  <2>2. Owed' = Owed
    BY <2>1 DEF Owed, SeqElems
  <2>3. \A s \in Request : req'[s].addr = req[s].addr
    BY <2>1, SameAddr DEF Outcome
  <2> QED BY <1>1, <2>1, <2>2, <2>3 DEF Fresh
<1>9. CASE Handle
  <2> DEFINE e == Head(reading)
  <2>1. /\ e \in Request /\ e \in Owed /\ Owed' \subseteq Owed /\ call' = call
    BY <1>9, TakenFromReading DEF Handle
  <2>2. CASE Matches(e) = {}
    <3>1. UNCHANGED <<req, queue>>
      BY <1>9, <2>2 DEF Handle
    <3> QED BY <1>1, <2>1, <3>1 DEF Fresh
  <2>3. CASE Matches(e) # {}
    <3>1. PICK r \in queue :
             /\ r \in Matches(e) /\ queue' = queue \ {r}
             /\ req' = [req EXCEPT ![r] = [@ EXCEPT !.outcome = "answered",
                          !.msc = Msc(See(clock[req[r].crtc], req[e].frame))]]
      BY <1>9, <2>1, <2>3, HandleStep
    <3>2. r = e /\ (call # 0 => call \notin Owed)
      BY <2>1, <3>1 DEF Matches, Fresh, IInv, Places
    <3>3. \A s \in Request : req'[s].addr = req[s].addr
      BY <3>1, <1>1 DEF RequestRec
    <3> QED BY <1>1, <2>1, <3>1, <3>2, <3>3 DEF Fresh
  <2> QED BY <2>2, <2>3
<1>10. CASE (\E c \in Crtc : Tick(c)) \/ ScreenInit \/ CloseScreen \/ UNCHANGED vars
  <2>1. queue' \subseteq queue /\ UNCHANGED <<req, armed, readable, reading, call>>
    BY <1>10 DEF Tick, ScreenInit, CloseScreen, vars
  <2>2. Owed' = Owed
    BY <2>1 DEF Owed, SeqElems
  <2>3. call # 0 => call \in queue'
    BY <1>10 DEF Tick, ScreenInit, CloseScreen, vars, Fresh, IInv, Down
  <2> QED BY <2>1, <2>2, <2>3 DEF Fresh
<1> QED BY <1>2, <1>3, <1>4, <1>5, <1>6, <1>7, <1>8, <1>9, <1>10 DEF Next

\* What the core sees of a step that ends a request.
LEMMA EndMoves ==
  ASSUME IInv, NEW r \in Request, NEW o \in Outcome, End(r, o)
  PROVE  Promise!Move(r, req[r].outcome, o)
<1>1. /\ \A s \in Request : req'[s].addr = req[s].addr /\ req'[s].frame = req[s].frame
      /\ [s \in Request |-> req'[s].outcome]
           = [[s \in Request |-> req[s].outcome] EXCEPT ![r] = o]
  BY SameAddr
<1>2. {s \in Request : req'[s].frame # -1} = {s \in Request : req[s].frame # -1}
  BY <1>1
<1> QED BY <1>1, <1>2 DEF Promise!Move

\* Every step of the queue is one the promise allows, or changes nothing of it.
LEMMA StepKept ==
  ASSUME IInv, Fresh, [Next]_vars
  PROVE  [Promise!Next]_(Promise!vars)
<1> DEFINE Kept == Promise!Next \/ UNCHANGED Promise!vars
<1>1. /\ req \in [Request -> RequestRec] /\ now \in [Crtc -> Nat] /\ queue \subseteq Request
      /\ \A s \in queue : req[s].outcome = "pending"
  BY DEF IInv, TypeOK, QueueIsPending
<1>2. ASSUME NEW r \in Request, NEW c \in Crtc, QueueVblankFails(r, c)
      PROVE  Kept
  <2>1. req[r].outcome = "none" /\ End(r, "refused")
    BY <1>2 DEF QueueVblankFails, IsNext
  <2>2. Promise!Move(r, "none", "refused")
    <3>1. Promise!Move(r, req[r].outcome, "refused")
      BY <2>1, EndMoves DEF Outcome
    <3> QED BY <2>1, <3>1
  <2> QED BY <2>2 DEF Promise!Next, Promise!Ask
<1>3. ASSUME NEW r \in Request, NEW c \in Crtc, NEW d \in Ahead, QueueVblank(r, c, d)
      PROVE  Kept
  <2>1. req[r].outcome = "none" /\
        \E a \in FreeAddr :
          req' = [req EXCEPT ![r] =
             [@ EXCEPT !.outcome = "pending", !.crtc = c, !.addr = a,
                       !.target = Msc(GetUstMsc(clock[c])) + d,
                       !.seq = KernelSeq(Smack(GetUstMsc(GetUstMsc(clock[c])),
                                               Msc(GetUstMsc(clock[c])) + d),
                                         Msc(GetUstMsc(clock[c])) + d)]]
    BY <1>3 DEF QueueVblank, IsNext
  <2>2. \A s \in Request :
          /\ req'[s].frame = req[s].frame
          /\ req'[s].outcome = IF s = r THEN "pending" ELSE req[s].outcome
    BY <1>1, <2>1 DEF RequestRec
  <2>3. {s \in Request : req'[s].frame # -1} = {s \in Request : req[s].frame # -1}
    BY <2>2
  <2>4. Promise!Move(r, "none", "pending")
    BY <2>1, <2>2, <2>3 DEF Promise!Move
  <2> QED BY <2>4 DEF Promise!Next, Promise!Ask
<1>4. ASSUME NEW r \in Request, AbortVblank(r)
      PROVE  Kept
  <2>1. req[r].outcome = "pending" /\ End(r, "aborted")
    BY <1>4 DEF AbortVblank
  <2>2. Promise!Move(r, "pending", "aborted")
    <3>1. Promise!Move(r, req[r].outcome, "aborted")
      BY <2>1, EndMoves DEF Outcome
    <3> QED BY <2>1, <3>1
  <2> QED BY <2>2 DEF Promise!Next, Promise!GiveUp
<1>5. ASSUME NEW r \in Request, SendEvent(r)
      PROVE  Kept
  <2>1. /\ r \in armed /\ req' = [req EXCEPT ![r].frame = now[req[r].crtc]]
        /\ now[req[r].crtc] \in Nat /\ req[r].outcome # "none"
    BY <1>1, <1>5 DEF SendEvent, IInv, Places, Owed
  <2>2. \A s \in Request :
          /\ req'[s].outcome = req[s].outcome
          /\ req'[s].frame = IF s = r THEN now[req[r].crtc] ELSE req[s].frame
    BY <1>1, <2>1 DEF RequestRec
  <2>3. {s \in Request : req'[s].frame # -1} = {s \in Request : req[s].frame # -1} \cup {r}
    <3>1. now[req[r].crtc] # -1
      BY <2>1
    <3> QED BY <2>2, <3>1
  <2>4. Promise!Pass(r)
    BY <2>1, <2>2, <2>3 DEF Promise!Pass
  <2> QED BY <2>4 DEF Promise!Next
<1>6. CASE WaitVblankFails
  <2>1. call \in Request /\ req[call].outcome = "pending" /\ End(call, "refused")
    BY <1>1, <1>6 DEF WaitVblankFails, Fresh
  <2>2. Promise!Move(call, "pending", "refused")
    <3>1. Promise!Move(call, req[call].outcome, "refused")
      BY <2>1, EndMoves DEF Outcome
    <3> QED BY <2>1, <3>1
  <2> QED BY <2>1, <2>2 DEF Promise!Next, Promise!GiveUp
<1>7. CASE Handle
  <2> DEFINE e == Head(reading)
  <2>1. e \in Request /\ e \in Owed /\ e \in SeqElems(reading)
    BY <1>7, TakenFromReading, ElemsTail DEF Handle, IInv, TypeOK
  <2>2. CASE Matches(e) = {}
    <3>1. UNCHANGED req
      BY <1>7, <2>2 DEF Handle
    <3> QED BY <3>1 DEF Promise!vars
  <2>3. CASE Matches(e) # {}
    <3>1. PICK r \in queue :
             /\ r \in Matches(e)
             /\ req' = [req EXCEPT ![r] = [@ EXCEPT !.outcome = "answered",
                          !.msc = Msc(See(clock[req[r].crtc], req[e].frame))]]
      BY <1>7, <2>1, <2>3, HandleStep
    <3>2. r = e /\ req[r].frame # -1 /\ r \in Request /\ req[r].outcome = "pending"
      BY <1>1, <2>1, <3>1 DEF Matches, Fresh, IInv, Places
    <3>3. \A s \in Request :
            /\ req'[s].frame = req[s].frame
            /\ req'[s].outcome = IF s = r THEN "answered" ELSE req[s].outcome
      BY <1>1, <3>1, <3>2 DEF RequestRec
    <3>4. {s \in Request : req'[s].frame # -1} = {s \in Request : req[s].frame # -1}
      BY <3>3
    <3>5. Promise!Move(r, "pending", "answered")
      BY <3>2, <3>3, <3>4 DEF Promise!Move
    <3> QED BY <3>2, <3>5 DEF Promise!Next, Promise!Answer
  <2> QED BY <2>2, <2>3
<1>8. CASE WaitVblank \/ FlushEvents \/ ReadEvents \/ ScreenInit \/ CloseScreen
           \/ UNCHANGED vars
  <2>1. UNCHANGED req
    BY <1>8 DEF WaitVblank, FlushEvents, ReadEvents, ScreenInit, CloseScreen, vars
  <2> QED BY <2>1 DEF Promise!vars
<1>9. ASSUME NEW c \in Crtc, Tick(c)
      PROVE  Kept
  BY <1>9 DEF Tick, Promise!vars
<1> QED BY <1>2, <1>3, <1>4, <1>5, <1>6, <1>7, <1>8, <1>9 DEF Next

\* As long as malloc gives no event an address that a kernel event still
\* carries, the core is told once how each request ended and is answered only
\* after the vblank of that request, whatever else fails. The run checks the
\* same, and that every pending request ends, of Promise!Spec.
THEOREM PromiseSafe == NoReuse => (Spec => Promise!Safe)
<1> SUFFICES ASSUME NoReuse
             PROVE  Spec => Promise!Safe
  OBVIOUS
<1>1. Init => Fresh
  BY DEF Init, Fresh
<1>2. Init => Promise!Init
  <2> SUFFICES ASSUME Init PROVE Promise!Init
    OBVIOUS
  <2>1. \A r \in Request : req[r].outcome = "none" /\ req[r].frame = -1
    BY DEF Init, NewRequest
  <2> QED BY <2>1 DEF Promise!Init
<1>3. IInv /\ Fresh /\ [Next]_vars => Fresh'
  BY FreshNext
<1>4. IInv /\ Fresh /\ [Next]_vars => [Promise!Next]_(Promise!vars)
  BY StepKept
<1> QED BY <1>1, <1>2, <1>3, <1>4, Invariance, PTL DEF Spec, Promise!Safe

-----------------------------------------------------------------------------
(* The MSC that is told, as long as the counters do not go round. TLC's run *)
(* satisfies Modest(2).                                                     *)

\* No MSC is asked for that is half of Wrap ahead. One that is further ahead
\* than MAX_VBLANK_OFFSET moves the offset of the clock: it is at most F ahead,
\* and all such requests and the frames shown together stay below Wrap.
Modest(F) ==
  /\ \A d \in Ahead : 2 * d < Wrap /\ (d <= MaxOffset \/ d <= F)
  /\ MaxFrame + MaxRequest * F < Wrap
  /\ MaxRequest * F + MaxOffset <= Wrap

\* What the kernel's sequence is moved by.
Turn(k) == k.offset % Wrap

\* The requests are asked in order.
InOrder ==
  \A s, t \in Request : s < t /\ req[s].outcome = "none" => req[t].outcome = "none"

\* The clock has been moved by F at most once for each request asked.
ClockInv(F) ==
  \A c \in Crtc :
    /\ clock[c].high % Wrap = 0
    /\ \A n \in 0..MaxRequest :
         (\A s \in Request : s > n => req[s].outcome = "none")
           => Turn(clock[c]) <= n * F

\* The frame a request is answered for is not before the one it waits for, and
\* the clock makes of that one at least the MSC asked for.
ReqInv ==
  \A r \in Request :
    /\ 2 * req[r].seq < Wrap
    /\ req[r].frame # -1 => req[r].frame \in req[r].seq..MaxFrame
    /\ req[r].outcome = "none" => req[r].frame = -1
    /\ req[r].outcome = "pending" =>
         LET k == clock[req[r].crtc]
         IN  req[r].target <= k.high + Turn(k) + req[r].seq

FramesInv == \A c \in Crtc : now[c] <= MaxFrame

MscInv(F) == InOrder /\ ClockInv(F) /\ ReqInv /\ FramesInv /\ AnswersNotEarly

LEMMA ModOf ==
  ASSUME NEW a \in Int
  PROVE  a % Wrap \in 0..Wrap - 1 /\ \E q \in Int : a = q * Wrap + (a % Wrap)
<1>1. a % Wrap \in 0..Wrap - 1
  BY PresentAssumption
<1>2. a \div Wrap \in Int
  BY PresentAssumption
<1>3. a = (a \div Wrap) * Wrap + (a % Wrap)
  BY PresentAssumption
<1> QED BY <1>1, <1>2, <1>3

\* Quotient and remainder are unique.
LEMMA OneRemainder ==
  ASSUME NEW q \in Int, NEW p \in Int, NEW x \in 0..Wrap - 1, NEW y \in 0..Wrap - 1,
         q * Wrap + x = p * Wrap + y
  PROVE  x = y
<1>1. CASE q = p
  BY <1>1, PresentAssumption
<1>2. CASE q > p
  <2>1. (q - p) * Wrap >= Wrap
    BY <1>2, PresentAssumption
  <2>2. (q - p) * Wrap = q * Wrap - p * Wrap
    BY PresentAssumption
  <2> QED BY <2>1, <2>2, PresentAssumption
<1>3. CASE q < p
  <2>1. (p - q) * Wrap >= Wrap
    BY <1>3, PresentAssumption
  <2>2. (p - q) * Wrap = p * Wrap - q * Wrap
    BY PresentAssumption
  <2> QED BY <2>1, <2>2, PresentAssumption
<1> QED BY <1>1, <1>2, <1>3

LEMMA ModIs ==
  ASSUME NEW q \in Int, NEW x \in 0..Wrap - 1
  PROVE  (q * Wrap + x) % Wrap = x
<1> DEFINE a == q * Wrap + x
<1>1. a \in Int
  BY PresentAssumption
<1>2. a % Wrap \in 0..Wrap - 1 /\ \E p \in Int : a = p * Wrap + (a % Wrap)
  BY <1>1, ModOf
<1>3. PICK p \in Int : a = p * Wrap + (a % Wrap)
  BY <1>2
<1> QED BY <1>2, <1>3, OneRemainder

\* Multiples of Wrap do not matter to a remainder.
LEMMA ModPlus ==
  ASSUME NEW a \in Int, NEW x \in Int, (a % Wrap) + x \in 0..Wrap - 1
  PROVE  (a + x) % Wrap = (a % Wrap) + x
<1>1. a % Wrap \in Int
  BY ModOf
<1>2. PICK q \in Int : a = q * Wrap + (a % Wrap)
  BY ModOf
<1> DEFINE y == (a % Wrap) + x
<1>3. a + x = q * Wrap + y
  BY <1>1, <1>2, PresentAssumption
<1> HIDE DEF y
<1>4. y \in 0..Wrap - 1
  BY DEF y
<1> QED BY <1>3, <1>4, ModIs DEF y

\* A frame that the clock sees, when the sum does not go round.
LEMMA SeeForm ==
  ASSUME NEW k \in ClockRec, NEW f \in Nat, f + Turn(k) < Wrap, k.high % Wrap = 0
  PROVE  /\ See(k, f) \in ClockRec
         /\ See(k, f).offset = k.offset
         /\ See(k, f).prev = f + Turn(k)
         /\ See(k, f).high >= k.high
         /\ See(k, f).high % Wrap = 0
         /\ k.prev = f + Turn(k) => See(k, f).high = k.high
<1>1. k.offset \in Int /\ k.prev \in 0..Wrap - 1 /\ k.high \in Nat /\ Wrap \in Nat
  BY PresentAssumption DEF ClockRec
<1>2. Turn(k) \in 0..Wrap - 1
  BY <1>1, ModOf DEF Turn
<1> DEFINE s == (f + k.offset) % Wrap
<1>3. s = f + Turn(k)
  <2>1. (k.offset % Wrap) + f \in 0..Wrap - 1
    BY <1>1, <1>2 DEF Turn
  <2>2. (k.offset + f) % Wrap = (k.offset % Wrap) + f
    BY <1>1, <2>1, ModPlus
  <2>3. k.offset + f = f + k.offset
    BY <1>1
  <2> QED BY <1>1, <1>2, <2>2, <2>3 DEF Turn
<1>4. See(k, f) = [k EXCEPT !.prev = s,
                   !.high = IF 4 * Signed(s - k.prev) < -Wrap THEN @ + Wrap ELSE @]
  BY DEF See
<1> HIDE DEF s
<1>5. See(k, f).offset = k.offset /\ See(k, f).prev = s
      /\ See(k, f).high = IF 4 * Signed(s - k.prev) < -Wrap THEN k.high + Wrap ELSE k.high
  BY <1>4 DEF ClockRec
<1>6. See(k, f) \in ClockRec
  BY ClockTypes, f \in Int, 0 \in Int
<1>7. k.prev = s => Signed(s - k.prev) = 0
  <2>1. s - s = 0
    BY <1>1, <1>2, <1>3
  <2>2. 0 % Wrap = 0
    <3>1. 0 * Wrap + 0 = 0 /\ 0 \in 0..Wrap - 1
      BY PresentAssumption
    <3> QED BY <3>1, ModIs
  <2>3. Signed(0) = 0
    BY <2>2, PresentAssumption DEF Signed
  <2> QED BY <2>1, <2>3
<1>8. (k.high + Wrap) % Wrap = 0
  <2> DEFINE h == k.high
  <2>1. PICK q \in Int : h = q * Wrap + (h % Wrap)
    <3>1. h \in Int
      BY <1>1
    <3> HIDE DEF h
    <3> QED BY <3>1, ModOf
  <2>2. k.high + Wrap = (q + 1) * Wrap + 0
    BY <1>1, <2>1
  <2>3. 0 \in 0..Wrap - 1 /\ q + 1 \in Int
    BY PresentAssumption
  <2> QED BY <2>2, <2>3, ModIs
<1>9. See(k, f).high >= k.high /\ See(k, f).high % Wrap = 0
  BY <1>1, <1>5, <1>8
<1>10. k.prev = f + Turn(k) => See(k, f).high = k.high
  BY <1>1, <1>3, <1>5, <1>7
<1> QED BY <1>3, <1>5, <1>6, <1>9, <1>10

\* The sequence that the kernel is asked for, whatever multiple of Wrap the
\* offset and the high part of the clock are off by.
LEMMA KeptSeq ==
  ASSUME NEW k \in ClockRec, k.high % Wrap = 0, NEW x \in 0..Wrap - 1,
         NEW e \in Int, e = k.high + Turn(k) + x
  PROVE  KernelSeq(k, e) = x
<1>1. k.offset \in Int /\ k.high \in Int /\ Turn(k) \in Int /\ Wrap \in Nat
  BY PresentAssumption, ModOf DEF ClockRec, Turn
<1>2. PICK q \in Int : k.offset = q * Wrap + Turn(k)
  BY <1>1, ModOf DEF Turn
<1>3. PICK p \in Int : k.high = p * Wrap + 0
  BY <1>1, ModOf
<1>4. e - k.offset = (p - q) * Wrap + x
  BY <1>1, <1>2, <1>3
<1>5. p - q \in Int
  OBVIOUS
<1> QED BY <1>4, <1>5, ModIs DEF KernelSeq

\* The clock when the core asks for an MSC that is d ahead: it keeps its turn,
\* or is moved by d; either way the MSC is the sequence the kernel is asked for
\* in the clock that is left behind.
LEMMA AskForm ==
  ASSUME NEW k \in ClockRec, k.high % Wrap = 0, NEW d \in Nat \ {0},
         2 * d < Wrap, Turn(k) + d < Wrap,
         d <= MaxOffset \/ Turn(k) + d + MaxOffset <= Wrap,
         NEW seen, seen = GetUstMsc(k),
         NEW expect, expect = Msc(seen) + d,
         NEW moved, moved = Smack(GetUstMsc(seen), expect)
  PROVE  /\ seen.high >= k.high /\ seen.high % Wrap = 0 /\ Turn(seen) = Turn(k)
         /\ moved.high >= k.high /\ moved.high % Wrap = 0
         /\ Turn(moved) = Turn(k) \/ (MaxOffset < d /\ Turn(moved) = Turn(k) + d)
         /\ expect = moved.high + Turn(moved) + KernelSeq(moved, expect)
         /\ 2 * KernelSeq(moved, expect) < Wrap
<1>1. /\ k.offset \in Int /\ k.high \in Nat /\ Wrap \in Nat /\ MaxOffset \in Nat
      /\ Turn(k) \in 0..Wrap - 1 /\ 0 \in Nat /\ 0 + Turn(k) < Wrap
      /\ Wrap >= 4
  <2>1. k.offset \in Int /\ k.high \in Nat
    BY DEF ClockRec
  <2>2. Turn(k) \in 0..Wrap - 1
    BY <2>1, ModOf DEF Turn
  <2> QED BY <2>1, <2>2, PresentAssumption
<1>2. /\ seen \in ClockRec /\ seen.offset = k.offset /\ seen.prev = 0 + Turn(k)
      /\ seen.high >= k.high /\ seen.high % Wrap = 0 /\ Turn(seen) = Turn(k)
  BY <1>1, SeeForm DEF GetUstMsc, KernelMsc, Turn
<1> DEFINE again == GetUstMsc(seen)
<1>3. /\ again \in ClockRec /\ again.offset = k.offset /\ again.prev = 0 + Turn(k)
      /\ again.high = seen.high
  <2>1. seen.prev = 0 + Turn(seen) /\ 0 + Turn(seen) < Wrap
    BY <1>1, <1>2
  <2>2. again = See(seen, 0)
    BY DEF GetUstMsc, KernelMsc
  <2> QED BY <1>1, <1>2, <2>1, <2>2, SeeForm
<1>4. moved = Smack(again, expect)
  OBVIOUS
<1> HIDE DEF again
<1>5. seen.high \in Nat
  BY <1>2 DEF ClockRec
<1>6. expect = seen.high + Turn(k) + d /\ Msc(again) = seen.high + Turn(k)
  BY <1>1, <1>2, <1>3, <1>5 DEF Msc
<1>7. expect - Msc(again) = d /\ expect \in Int
  BY <1>1, <1>5, <1>6
<1> DEFINE off == Signed(k.offset + d)
<1>8. (k.offset + d) % Wrap = Turn(k) + d
  <2>1. (k.offset % Wrap) + d \in 0..Wrap - 1
    BY <1>1 DEF Turn
  <2> QED BY <1>1, <2>1, ModPlus DEF Turn
<1>9. off \in {Turn(k) + d, Turn(k) + d - Wrap}
  BY <1>1, <1>8 DEF Signed
<1>10. off % Wrap = Turn(k) + d
  <2>1. off = 0 * Wrap + (Turn(k) + d) \/ off = (-1) * Wrap + (Turn(k) + d)
    BY <1>1, <1>9
  <2>2. Turn(k) + d \in 0..Wrap - 1
    BY <1>1
  <2> HIDE DEF off
  <2> QED BY <2>1, <2>2, ModIs
<1>11. moved = IF -MaxOffset <= d /\ d <= MaxOffset THEN again
               ELSE [again EXCEPT !.offset = IF -MaxOffset < off /\ off < MaxOffset
                                             THEN 0 ELSE off]
  BY <1>3, <1>4, <1>7 DEF Smack
<1> HIDE DEF off
<1>12. CASE d <= MaxOffset
  <2>1. moved = again
    BY <1>1, <1>11, <1>12
  <2>2. moved.high = seen.high /\ Turn(moved) = Turn(k) /\ moved.offset = k.offset
    BY <1>3, <2>1 DEF Turn
  <2>3. moved \in ClockRec /\ moved.high % Wrap = 0 /\ d \in 0..Wrap - 1
        /\ expect = moved.high + Turn(moved) + d /\ expect \in Int
    BY <1>1, <1>2, <1>3, <1>6, <1>7, <2>1, <2>2
  <2>4. KernelSeq(moved, expect) = d
    BY ONLY <2>3, KeptSeq, Zenon
  <2> QED BY <1>1, <1>2, <1>5, <2>2, <2>3, <2>4
<1>13. CASE d > MaxOffset
  <2>1. ~(-MaxOffset < off /\ off < MaxOffset)
    BY <1>1, <1>9, <1>13
  <2>2. moved = [again EXCEPT !.offset = off]
    BY <1>1, <1>11, <1>13, <2>1
  <2>3. moved.high = seen.high /\ moved.offset = off
    BY <1>3, <2>2 DEF ClockRec
  <2>4. Turn(moved) = Turn(k) + d
    BY <1>10, <2>3 DEF Turn
  <2>5. moved \in ClockRec /\ moved.high % Wrap = 0 /\ 0 \in 0..Wrap - 1
        /\ expect = moved.high + Turn(moved) + 0 /\ expect \in Int
    <3>1. off \in Int
      BY <1>1, <1>9
    <3>2. moved \in ClockRec
      BY <1>3, <2>2, <3>1 DEF ClockRec
    <3> QED BY <1>1, <1>2, <1>5, <1>6, <1>7, <2>3, <2>4, <3>2
  <2>6. KernelSeq(moved, expect) = 0
    BY ONLY <2>5, KeptSeq, Zenon
  <2> QED BY <1>1, <1>2, <1>5, <1>13, <2>3, <2>4, <2>5, <2>6
<1> QED BY <1>1, <1>12, <1>13

\* The frame that the kernel sends an event for is not before its sequence.
LEMMA PastIsAfter ==
  ASSUME NEW seq \in Nat, 2 * seq < Wrap, NEW f \in Nat, f < Wrap, IsPast(seq, f)
  PROVE  seq <= f
<1> SUFFICES ASSUME f < seq PROVE FALSE
  OBVIOUS
<1>1. f - seq = (-1) * Wrap + (f - seq + Wrap) /\ f - seq + Wrap \in 0..Wrap - 1
  BY PresentAssumption
<1>2. (f - seq) % Wrap = f - seq + Wrap
  <2> DEFINE x == f - seq + Wrap
  <2>1. x \in 0..Wrap - 1 /\ f - seq = (-1) * Wrap + x
    BY <1>1
  <2> HIDE DEF x
  <2>2. ((-1) * Wrap + x) % Wrap = x
    BY <2>1, ModIs
  <2> QED BY <2>1, <2>2 DEF x
<1> QED BY <1>2, PresentAssumption DEF IsPast

\* How a clock may change: high goes up by whole turns of the counter.
GrownClock(k, l) == l.high >= k.high /\ l.high % Wrap = 0 /\ Turn(l) = Turn(k)

\* A step that asks for no MSC: it may see a frame, send an event, end a request.
LEMMA StillTold ==
  ASSUME NEW F \in Nat, IInv, TypeOK', ClockInv(F), ReqInv, AnswersNotEarly,
         \A c \in Crtc : GrownClock(clock[c], clock'[c]),
         \A s \in Request :
           /\ req'[s].seq = req[s].seq /\ req'[s].target = req[s].target
           /\ req'[s].crtc = req[s].crtc
           /\ \/ req'[s].frame = req[s].frame
              \/ req[s].outcome # "none" /\ req'[s].frame \in req[s].seq..MaxFrame
           /\ req'[s].outcome = "none" => req[s].outcome = "none"
           /\ req'[s].outcome = "pending" => req[s].outcome = "pending"
           /\ req'[s].outcome = "answered" =>
                \/ req[s].outcome = "answered" /\ req'[s].msc = req[s].msc
                \/ req'[s].msc >= req[s].target
  PROVE  ClockInv(F)' /\ ReqInv' /\ AnswersNotEarly'
<1>1. ClockInv(F)'
  BY DEF ClockInv, GrownClock
<1>2. AnswersNotEarly'
  BY DEF AnswersNotEarly
<1>3. ReqInv'
  <2> SUFFICES ASSUME NEW r \in Request
               PROVE  /\ 2 * req'[r].seq < Wrap
                      /\ req'[r].frame # -1 => req'[r].frame \in req'[r].seq..MaxFrame
                      /\ req'[r].outcome = "none" => req'[r].frame = -1
                      /\ req'[r].outcome = "pending" =>
                           req'[r].target <= clock'[req'[r].crtc].high
                                             + Turn(clock'[req'[r].crtc]) + req'[r].seq
    BY DEF ReqInv
  <2>1. /\ 2 * req'[r].seq < Wrap
        /\ req'[r].frame # -1 => req'[r].frame \in req'[r].seq..MaxFrame
        /\ req'[r].outcome = "none" => req'[r].frame = -1
    BY DEF ReqInv
  <2>2. ASSUME req'[r].outcome = "pending"
        PROVE  req'[r].target <= clock'[req'[r].crtc].high
                                 + Turn(clock'[req'[r].crtc]) + req'[r].seq
    <3> DEFINE c == req[r].crtc
    <3>1. req[r].outcome = "pending" /\ req'[r].crtc = c
      BY <2>2
    <3>2. c \in Crtc
      BY <3>1 DEF IInv, QueueIsPending, Places
    <3>3. req[r].target <= clock[c].high + Turn(clock[c]) + req[r].seq
      BY <3>1 DEF ReqInv
    <3>4. clock'[c].high >= clock[c].high /\ Turn(clock'[c]) = Turn(clock[c])
      BY <3>2 DEF GrownClock
    <3>5. /\ clock[c] \in ClockRec /\ clock'[c] \in ClockRec /\ req[r] \in RequestRec
      BY <3>2 DEF IInv, TypeOK
    <3>6. /\ clock[c].high \in Nat /\ clock'[c].high \in Nat /\ clock[c].offset \in Int
          /\ req[r].target \in Nat /\ req[r].seq \in Int
      BY <3>5, RequestFields DEF ClockRec
    <3>7. Turn(clock[c]) \in Int
      BY <3>6, ModOf DEF Turn
    <3> HIDE DEF c
    <3>8. req[r].target <= clock'[c].high + Turn(clock'[c]) + req[r].seq
      BY <3>3, <3>4, <3>6, <3>7
    <3>9. req'[r].target = req[r].target /\ req'[r].seq = req[r].seq
      OBVIOUS
    <3> QED BY <3>1, <3>8, <3>9
  <2> QED BY <2>1, <2>2
<1> QED BY <1>1, <1>2, <1>3

\* How far a clock is moved at most, and what that leaves.
LEMMA TurnIsSmall ==
  ASSUME NEW F \in Nat, Modest(F), IInv, ClockInv(F), NEW c \in Crtc,
         NEW n \in 0..MaxRequest, \A s \in Request : s > n => req[s].outcome = "none"
  PROVE  Turn(clock[c]) \in 0..n * F /\ n * F <= MaxRequest * F
<1>1. n * F <= MaxRequest * F
  <2>1. MaxRequest \in Nat /\ n \in Nat /\ n <= MaxRequest
    BY PresentAssumption
  <2>2. (MaxRequest - n) * F \in Nat
    BY <2>1
  <2>3. (MaxRequest - n) * F = MaxRequest * F - n * F
    BY <2>1
  <2> QED BY <2>1, <2>2, <2>3
<1>2. clock[c].offset \in Int
  BY DEF IInv, TypeOK, ClockRec
<1>3. Turn(clock[c]) \in 0..Wrap - 1
  BY <1>2, ModOf DEF Turn
<1>4. Turn(clock[c]) <= n * F
  BY DEF ClockInv
<1>5. n * F \in Nat
  BY PresentAssumption
<1> QED BY <1>1, <1>3, <1>4, <1>5, PresentAssumption

\* A clock that is asked for its MSC, or sees a frame that was shown, grows.
LEMMA SeenGrows ==
  ASSUME NEW F \in Nat, Modest(F), IInv, ClockInv(F), NEW c \in Crtc,
         NEW f \in Nat, f <= MaxFrame
  PROVE  /\ GrownClock(clock[c], See(clock[c], f))
         /\ Msc(See(clock[c], f)) >= clock[c].high + Turn(clock[c]) + f
<1> DEFINE k == clock[c]
<1>1. k \in ClockRec /\ k.high % Wrap = 0
  BY DEF IInv, TypeOK, ClockInv
<1>2. Turn(k) \in 0..MaxRequest * F
  <2>1. MaxRequest \in 0..MaxRequest /\ \A s \in Request : ~(s > MaxRequest)
    BY PresentAssumption DEF Request
  <2> QED BY <2>1, TurnIsSmall
<1>3. f + Turn(k) < Wrap
  <2>1. MaxRequest * F \in Nat /\ MaxFrame \in Nat /\ MaxFrame + MaxRequest * F < Wrap
    BY PresentAssumption DEF Modest
  <2> HIDE DEF k
  <2> QED BY <1>2, <2>1, PresentAssumption
<1> HIDE DEF k
<1>4. /\ See(k, f).offset = k.offset /\ See(k, f).prev = f + Turn(k)
      /\ See(k, f).high >= k.high /\ See(k, f).high % Wrap = 0 /\ See(k, f) \in ClockRec
  BY <1>1, <1>3, SeeForm
<1>5. Turn(See(k, f)) = Turn(k)
  BY <1>4 DEF Turn
<1>6. GrownClock(k, See(k, f))
  BY <1>4, <1>5 DEF GrownClock
<1>7. Msc(See(k, f)) >= k.high + Turn(k) + f
  <2>1. Turn(k) \in Nat /\ k.high \in Nat /\ See(k, f).high \in Nat
    BY <1>1, <1>2, <1>4, PresentAssumption DEF ClockRec
  <2> QED BY <1>4, <2>1 DEF Msc
<1> QED BY <1>6, <1>7 DEF k

LEMMA SameClocks ==
  ASSUME NEW F \in Nat, ClockInv(F), IInv
  PROVE  \A c \in Crtc : GrownClock(clock[c], clock[c])
BY DEF ClockInv, GrownClock, IInv, TypeOK, ClockRec

LEMMA InitTold ==
  ASSUME NEW F \in Nat, Modest(F), Init
  PROVE  MscInv(F)
<1>1. \A r \in Request : req[r] = NewRequest
  BY DEF Init
<1>2. \A r \in Request : req[r].outcome = "none" /\ req[r].frame = -1 /\ req[r].seq = 0
  BY <1>1 DEF NewRequest
<1>3. 0 % Wrap = 0 /\ 2 * 0 < Wrap
  <2>1. 0 * Wrap + 0 = 0 /\ 0 \in 0..Wrap - 1
    BY PresentAssumption
  <2>2. 0 % Wrap = 0
    BY <2>1, ModIs
  <2> QED BY <2>2, PresentAssumption
<1>4. \A c \in Crtc : clock[c].high % Wrap = 0 /\ Turn(clock[c]) = 0 /\ now[c] = 0
  BY <1>3 DEF Init, Turn
<1>5. \A n \in 0..MaxRequest : 0 <= n * F
  BY PresentAssumption
<1>6. ClockInv(F)
  BY <1>4, <1>5 DEF ClockInv
<1> QED BY <1>2, <1>3, <1>4, <1>6, PresentAssumption
      DEF MscInv, InOrder, ReqInv, FramesInv, AnswersNotEarly

\* A request with an MSC to wait for: its clock is moved by at most F more.
LEMMA QueueVblankTold ==
  ASSUME NEW F \in Nat, Modest(F), IInv, IInv', MscInv(F),
         NEW r \in Request, NEW c \in Crtc, NEW d \in Ahead, QueueVblank(r, c, d)
  PROVE  MscInv(F)'
<1> DEFINE k == clock[c]
           seen == GetUstMsc(k)
           expect == Msc(seen) + d
           moved == Smack(GetUstMsc(seen), expect)
<1>1. PICK a \in FreeAddr :
        req' = [req EXCEPT ![r] =
             [@ EXCEPT !.outcome = "pending", !.crtc = c, !.addr = a,
                       !.target = expect, !.seq = KernelSeq(moved, expect)]]
  BY DEF QueueVblank
<1>2. /\ req[r].outcome = "none" /\ \A s \in 1..r - 1 : req[s].outcome # "none"
      /\ clock' = [clock EXCEPT ![c] = moved] /\ UNCHANGED now
  BY DEF QueueVblank, IsNext
<1>3. /\ req \in [Request -> RequestRec] /\ clock \in [Crtc -> ClockRec]
      /\ k \in ClockRec /\ k.high % Wrap = 0 /\ r \in 1..MaxRequest
  BY DEF IInv, TypeOK, MscInv, ClockInv, Request
<1>4. \A s \in Request : s >= r => req[s].outcome = "none"
  BY <1>2, <1>3 DEF MscInv, InOrder, Request
<1>5. Turn(k) \in 0..(r - 1) * F /\ r * F <= MaxRequest * F /\ (r - 1) * F + F = r * F
      /\ (r - 1) * F \in Nat
  <2>1. r - 1 \in 0..MaxRequest /\ MaxRequest \in Nat
    BY <1>3, PresentAssumption
  <2>2. \A s \in Request : s > r - 1 => req[s].outcome = "none"
    BY <1>4 DEF Request
  <2>3. Turn(k) \in 0..(r - 1) * F
    BY <2>1, <2>2, TurnIsSmall DEF MscInv
  <2>4. (MaxRequest - r) * F \in Nat
    BY <1>3, <2>1
  <2>5. (MaxRequest - r) * F = MaxRequest * F - r * F
    BY <1>3, <2>1
  <2>6. r * F <= MaxRequest * F
    BY <1>3, <2>1, <2>4, <2>5
  <2>7. (r - 1) * F + F = r * F /\ (r - 1) * F \in Nat
    BY <1>3
  <2> QED BY <2>3, <2>6, <2>7
<1>6. /\ d \in Nat \ {0} /\ 2 * d < Wrap /\ (d <= MaxOffset \/ d <= F)
      /\ MaxRequest * F < Wrap /\ MaxRequest * F + MaxOffset <= Wrap
      /\ MaxRequest * F \in Nat
  BY PresentAssumption DEF Modest
<1> HIDE DEF k
<1>7. /\ Turn(k) + d < Wrap
      /\ d <= MaxOffset \/ Turn(k) + d + MaxOffset <= Wrap
  BY <1>3, <1>5, <1>6, PresentAssumption
<1>8. /\ moved.high >= k.high /\ moved.high % Wrap = 0
      /\ Turn(moved) = Turn(k) \/ (MaxOffset < d /\ Turn(moved) = Turn(k) + d)
      /\ expect = moved.high + Turn(moved) + KernelSeq(moved, expect)
      /\ 2 * KernelSeq(moved, expect) < Wrap
  <2>1. seen = GetUstMsc(k) /\ expect = Msc(seen) + d
        /\ moved = Smack(GetUstMsc(seen), expect)
    OBVIOUS
  <2> HIDE DEF seen, expect, moved
  <2>2. k \in ClockRec /\ k.high % Wrap = 0 /\ d \in Nat \ {0} /\ 2 * d < Wrap
    BY <1>3, <1>6
  <2> QED BY ONLY <1>7, <2>1, <2>2, AskForm, SMT
<1> HIDE DEF seen, expect, moved
<1>9. InOrder'
  <2>1. \A s \in Request : req'[s].outcome = IF s = r THEN "pending" ELSE req[s].outcome
    BY <1>1, <1>3 DEF RequestRec
  <2> QED BY <1>2, <1>4, <2>1 DEF InOrder, Request
<1>10. clock'[c] = moved /\ \A b \in Crtc \ {c} : clock'[b] = clock[b]
  BY <1>2, <1>3
<1>11. /\ req'[r].outcome = "pending" /\ req'[r].crtc = c /\ req'[r].target = expect
       /\ req'[r].seq = KernelSeq(moved, expect) /\ req'[r].frame = req[r].frame
       /\ \A s \in Request \ {r} : req'[s] = req[s]
  BY <1>1, <1>3 DEF RequestRec
<1>12. /\ moved \in ClockRec /\ moved.high \in Int /\ Turn(moved) \in Int
       /\ k.high \in Int /\ Turn(k) \in Int
       /\ Turn(k) <= Turn(moved) /\ Turn(moved) <= r * F
  <2>1. moved \in ClockRec
    BY <1>10 DEF IInv, TypeOK
  <2>2. moved.high \in Int /\ moved.offset \in Int /\ k.high \in Int /\ k.offset \in Int
    BY <1>3, <2>1 DEF ClockRec
  <2>3. Turn(moved) \in Int /\ Turn(k) \in Int
    BY <2>2, ModOf DEF Turn
  <2>4. r * F \in Int
    BY <1>3
  <2>5. Turn(k) <= Turn(moved) /\ Turn(moved) <= r * F
    <3> DEFINE before == (r - 1) * F
               after == r * F
    <3>1. before + F = after /\ Turn(k) <= before /\ before \in Nat /\ after \in Int
      BY <1>5, <2>4
    <3> HIDE DEF before, after
    <3>2. Turn(moved) <= after
      BY <1>6, <1>8, <2>3, <3>1, PresentAssumption
    <3>3. Turn(k) <= Turn(moved)
      BY <1>6, <1>8, <2>3
    <3> QED BY <3>2, <3>3 DEF after
  <2> QED BY <2>1, <2>2, <2>3, <2>5
<1>13. ClockInv(F)'
  <2>1. \A b \in Crtc : clock'[b].high % Wrap = 0
    BY <1>8, <1>10 DEF MscInv, ClockInv
  <2>2. ASSUME NEW b \in Crtc, NEW n \in 0..MaxRequest,
               \A s \in Request : s > n => req'[s].outcome = "none"
        PROVE  Turn(clock'[b]) <= n * F
    <3>1. n >= r
      BY <1>3, <1>11, <2>2
    <3>2. CASE b = c
      <4>1. (n - r) * F \in Nat /\ (n - r) * F = n * F - r * F /\ r * F \in Int /\ n * F \in Int
        BY <1>3, <3>1
      <4> QED BY <1>10, <1>12, <3>2, <4>1
    <3>3. CASE b # c
      <4>1. \A s \in Request : s > n => req[s].outcome = "none"
        BY <1>4, <1>3, <3>1 DEF Request
      <4> QED BY <1>10, <3>3, <4>1 DEF MscInv, ClockInv
    <3> QED BY <3>2, <3>3
  <2> QED BY <2>1, <2>2 DEF ClockInv
<1>14. ReqInv'
  <2>1. ASSUME NEW s \in Request
        PROVE  /\ 2 * req'[s].seq < Wrap
               /\ req'[s].frame # -1 => req'[s].frame \in req'[s].seq..MaxFrame
               /\ req'[s].outcome = "none" => req'[s].frame = -1
    <3>1. CASE s = r
      BY <1>2, <1>8, <1>11, <3>1 DEF MscInv, ReqInv
    <3>2. CASE s # r
      BY <1>11, <3>2 DEF MscInv, ReqInv
    <3> QED BY <3>1, <3>2
  <2>2. ASSUME NEW s \in Request, req'[s].outcome = "pending"
        PROVE  req'[s].target <= clock'[req'[s].crtc].high + Turn(clock'[req'[s].crtc])
                                 + req'[s].seq
    <3>1. CASE s = r
      <4>1. KernelSeq(moved, expect) \in Int
        BY <1>11, RequestFields DEF IInv, TypeOK
      <4> QED BY <1>8, <1>10, <1>11, <1>12, <3>1, <4>1
    <3>2. CASE s # r
      <4> DEFINE b == req[s].crtc
      <4>1. req[s].outcome = "pending" /\ req'[s] = req[s]
        BY <1>11, <2>2, <3>2
      <4>2. req[s].target <= clock[b].high + Turn(clock[b]) + req[s].seq
        BY <4>1 DEF MscInv, ReqInv
      <4>3. b \in Crtc
        BY <4>1 DEF IInv, QueueIsPending, Places
      <4>4. req[s].target \in Int /\ req[s].seq \in Int
        BY <1>3, RequestFields
      <4> HIDE DEF b
      <4>5. req[s].target <= clock'[b].high + Turn(clock'[b]) + req[s].seq
        <5>1. CASE b = c
          BY <1>8, <1>10, <1>12, <4>2, <4>4, <5>1 DEF k
        <5>2. CASE b # c
          BY <1>10, <4>2, <4>3, <5>2
        <5> QED BY <5>1, <5>2
      <4> QED BY <4>1, <4>5 DEF b
    <3> QED BY <3>1, <3>2
  <2> QED BY <2>1, <2>2 DEF ReqInv
<1>15. AnswersNotEarly'
  BY <1>11 DEF MscInv, AnswersNotEarly
<1>16. FramesInv'
  BY <1>2 DEF MscInv, FramesInv
<1> QED BY <1>9, <1>13, <1>14, <1>15, <1>16 DEF MscInv

\* A request ends without an MSC.
LEMMA EndTold ==
  ASSUME NEW F \in Nat, IInv, IInv', MscInv(F), NEW r \in Request,
         NEW o \in {"refused", "aborted"}, End(r, o),
         req[r].outcome # "none" \/ \A s \in 1..r - 1 : req[s].outcome # "none",
         \A c \in Crtc : GrownClock(clock[c], clock'[c]), UNCHANGED now
  PROVE  MscInv(F)'
<1>1. req \in [Request -> RequestRec] /\ r \in 1..MaxRequest
  BY DEF IInv, TypeOK, Request
<1>2. \A s \in Request :
        /\ req'[s].seq = req[s].seq /\ req'[s].target = req[s].target
        /\ req'[s].crtc = req[s].crtc /\ req'[s].frame = req[s].frame
        /\ req'[s].msc = req[s].msc
        /\ req'[s].outcome = IF s = r THEN o ELSE req[s].outcome
  BY <1>1 DEF End, RequestRec
<1>3. InOrder'
  BY <1>1, <1>2 DEF MscInv, InOrder, Request
<1>4. ClockInv(F)' /\ ReqInv' /\ AnswersNotEarly'
  <2>1. TypeOK' /\ ClockInv(F) /\ ReqInv /\ AnswersNotEarly
    BY DEF IInv, MscInv
  <2>2. \A s \in Request :
           /\ req'[s].outcome = "none" => req[s].outcome = "none"
           /\ req'[s].outcome = "pending" => req[s].outcome = "pending"
           /\ req'[s].outcome = "answered" =>
                req[s].outcome = "answered" /\ req'[s].msc = req[s].msc
    BY <1>2
  <2> QED BY <1>2, <2>1, <2>2, StillTold
<1>5. FramesInv'
  BY DEF MscInv, FramesInv
<1> QED BY <1>3, <1>4, <1>5 DEF MscInv

LEMMA SendEventTold ==
  ASSUME NEW F \in Nat, Modest(F), IInv, IInv', MscInv(F), NEW r \in Request, SendEvent(r)
  PROVE  MscInv(F)'
<1> DEFINE f == now[req[r].crtc]
<1>1. /\ r \in armed /\ IsPast(req[r].seq, f)
      /\ req' = [req EXCEPT ![r].frame = f] /\ UNCHANGED <<clock, now>>
  BY DEF SendEvent
<1>2. req \in [Request -> RequestRec] /\ req[r].outcome # "none" /\ req[r].crtc \in Crtc
  BY <1>1 DEF IInv, TypeOK, Places, Owed
<1>3. f \in Nat /\ f <= MaxFrame /\ f < Wrap
  <2>1. f \in Nat /\ f <= MaxFrame
    BY <1>2 DEF IInv, TypeOK, MscInv, FramesInv
  <2>2. MaxRequest * F \in Nat /\ MaxFrame + MaxRequest * F < Wrap
    BY PresentAssumption DEF Modest
  <2> QED BY <2>1, <2>2, PresentAssumption
<1>4. f \in req[r].seq..MaxFrame
  <2>1. req[r].seq \in Nat /\ 2 * req[r].seq < Wrap
    BY <1>2, PresentAssumption DEF RequestRec, MscInv, ReqInv
  <2> HIDE DEF f
  <2>2. req[r].seq <= f
    BY <1>1, <1>3, <2>1, PastIsAfter
  <2> QED BY <1>3, <2>1, <2>2, PresentAssumption
<1> HIDE DEF f
<1>5. \A s \in Request :
        /\ req'[s].seq = req[s].seq /\ req'[s].target = req[s].target
        /\ req'[s].crtc = req[s].crtc /\ req'[s].outcome = req[s].outcome
        /\ req'[s].msc = req[s].msc
        /\ req'[s].frame = IF s = r THEN f ELSE req[s].frame
  BY <1>1, <1>2 DEF RequestRec
<1>6. ClockInv(F)' /\ ReqInv' /\ AnswersNotEarly'
  <2>1. TypeOK' /\ ClockInv(F) /\ ReqInv /\ AnswersNotEarly
    BY DEF IInv, MscInv
  <2>2. \A c \in Crtc : GrownClock(clock[c], clock'[c])
    BY <1>1, <2>1, SameClocks
  <2>3. \A s \in Request :
           \/ req'[s].frame = req[s].frame
           \/ req[s].outcome # "none" /\ req'[s].frame \in req[s].seq..MaxFrame
    BY <1>2, <1>4, <1>5
  <2> QED BY <1>5, <2>1, <2>2, <2>3, StillTold
<1>7. InOrder'
  BY <1>5 DEF MscInv, InOrder
<1>8. FramesInv'
  BY <1>1 DEF MscInv, FramesInv
<1> QED BY <1>6, <1>7, <1>8 DEF MscInv

\* The MSC of the frame that an event carries is told, or nothing is.
LEMMA HandleTold ==
  ASSUME NEW F \in Nat, Modest(F), IInv, IInv', Fresh, MscInv(F), Handle
  PROVE  MscInv(F)'
<1> DEFINE e == Head(reading)
<1>1. /\ e \in Request /\ e \in Owed /\ e \in SeqElems(reading) /\ reading # <<>>
      /\ UNCHANGED now
  BY TakenFromReading, ElemsTail DEF Handle, IInv, TypeOK
<1>2. CASE Matches(e) = {}
  <2>1. UNCHANGED <<req, clock>>
    BY <1>2 DEF Handle
  <2> QED BY <1>1, <2>1 DEF MscInv, InOrder, ClockInv, ReqInv, FramesInv, AnswersNotEarly
<1>3. CASE Matches(e) # {}
  <2>1. PICK r \in queue :
           /\ r \in Matches(e)
           /\ req' = [req EXCEPT ![r] = [@ EXCEPT !.outcome = "answered",
                        !.msc = Msc(See(clock[req[r].crtc], req[e].frame))]]
           /\ clock' = [clock EXCEPT ![req[r].crtc] = See(clock[req[r].crtc], req[e].frame)]
    BY <1>1, <1>3, HandleStep
  <2>2. /\ r = e /\ req[r].frame # -1 /\ r \in Request /\ req[r].outcome = "pending"
        /\ req[r].crtc \in Crtc
    BY <1>1, <2>1 DEF Matches, Fresh, IInv, Places, QueueIsPending
  <2> HIDE DEF e
  <2> DEFINE c == req[r].crtc
             f == req[r].frame
  <2>3. /\ req \in [Request -> RequestRec] /\ clock \in [Crtc -> ClockRec]
        /\ req[r] \in RequestRec /\ clock[c] \in ClockRec
    BY <2>2 DEF IInv, TypeOK
  <2>4. /\ req[r].seq \in Nat /\ req[r].target \in Int
        /\ f \in Nat /\ f <= MaxFrame /\ req[r].seq <= f
        /\ req[r].target <= clock[c].high + Turn(clock[c]) + req[r].seq
    <3>1. f \in req[r].seq..MaxFrame
          /\ req[r].target <= clock[c].high + Turn(clock[c]) + req[r].seq
      BY <2>2 DEF MscInv, ReqInv
    <3>2. req[r].seq \in Nat /\ req[r].target \in Int
      BY <2>3, PresentAssumption DEF RequestRec
    <3> QED BY <3>1, <3>2, PresentAssumption
  <2>5. /\ GrownClock(clock[c], See(clock[c], f))
        /\ Msc(See(clock[c], f)) >= clock[c].high + Turn(clock[c]) + f
    BY <2>2, <2>4, SeenGrows DEF MscInv
  <2>6. \A b \in Crtc : GrownClock(clock[b], clock'[b])
    <3>1. \A b \in Crtc : GrownClock(clock[b], clock[b])
      BY SameClocks DEF MscInv
    <3>2. clock' = [clock EXCEPT ![c] = See(clock[c], f)]
      BY <2>1, <2>2
    <3> HIDE DEF c, f
    <3> QED BY <2>3, <2>5, <3>1, <3>2
  <2>7. Msc(See(clock[c], f)) >= req[r].target
    <3>1. /\ clock[c].high \in Int /\ Turn(clock[c]) \in Int
      <4>1. clock[c].high \in Int /\ clock[c].offset \in Int
        BY <2>3 DEF ClockRec
      <4> QED BY <4>1, ModOf DEF Turn
    <3>2. Msc(See(clock[c], f)) \in Int
      <4>1. See(clock[c], f) \in ClockRec
        <5>1. f \in Int
          BY <2>4
        <5> QED BY <2>3, <5>1, ClockTypes, 0 \in Int
      <4> QED BY <4>1, ClockTypes, 0 \in Int
    <3> HIDE DEF c, f
    <3> QED BY <2>4, <2>5, <3>1, <3>2
  <2>8. \A s \in Request :
          /\ req'[s].seq = req[s].seq /\ req'[s].target = req[s].target
          /\ req'[s].crtc = req[s].crtc /\ req'[s].frame = req[s].frame
          /\ req'[s].outcome = IF s = r THEN "answered" ELSE req[s].outcome
          /\ req'[s].msc = IF s = r THEN Msc(See(clock[c], f)) ELSE req[s].msc
    BY <2>1, <2>2, <2>3 DEF RequestRec
  <2> HIDE DEF c, f
  <2>9. ClockInv(F)' /\ ReqInv' /\ AnswersNotEarly'
    <3>1. TypeOK' /\ ClockInv(F) /\ ReqInv /\ AnswersNotEarly
      BY DEF IInv, MscInv
    <3>2. \A s \in Request :
             /\ req'[s].outcome = "none" => req[s].outcome = "none"
             /\ req'[s].outcome = "pending" => req[s].outcome = "pending"
             /\ req'[s].outcome = "answered" =>
                  \/ req[s].outcome = "answered" /\ req'[s].msc = req[s].msc
                  \/ req'[s].msc >= req[s].target
      BY <2>7, <2>8
    <3> QED BY <2>6, <2>8, <3>1, <3>2, StillTold
  <2>10. InOrder'
    BY <2>2, <2>8 DEF MscInv, InOrder
  <2>11. FramesInv'
    BY <1>1 DEF MscInv, FramesInv
  <2> QED BY <2>9, <2>10, <2>11 DEF MscInv
<1> QED BY <1>2, <1>3

LEMMA ToldNext ==
  ASSUME NEW F \in Nat, Modest(F), IInv, IInv', Fresh, MscInv(F), [Next]_vars
  PROVE  MscInv(F)'
<1>1. \A c \in Crtc : GrownClock(clock[c], clock[c])
  BY SameClocks DEF MscInv
<1>2. ASSUME NEW r \in Request, NEW c \in Crtc, QueueVblankFails(r, c)
      PROVE  MscInv(F)'
  <2>1. /\ \A s \in 1..r - 1 : req[s].outcome # "none"
        /\ End(r, "refused") /\ UNCHANGED now
        /\ clock' = [clock EXCEPT ![c] = See(clock[c], 0)]
    BY <1>2 DEF QueueVblankFails, IsNext, GetUstMsc, KernelMsc
  <2>2. GrownClock(clock[c], See(clock[c], 0))
    <3>1. 0 \in Nat /\ 0 <= MaxFrame
      BY PresentAssumption
    <3> QED BY <3>1, SeenGrows DEF MscInv
  <2>3. \A b \in Crtc : GrownClock(clock[b], clock'[b])
    BY <1>1, <2>1, <2>2 DEF IInv, TypeOK
  <2> QED BY <2>1, <2>3, EndTold
<1>3. ASSUME NEW r \in Request, NEW c \in Crtc, NEW d \in Ahead, QueueVblank(r, c, d)
      PROVE  MscInv(F)'
  BY <1>3, QueueVblankTold
<1>4. ASSUME NEW r \in Request, AbortVblank(r)
      PROVE  MscInv(F)'
  <2>1. End(r, "aborted") /\ req[r].outcome # "none" /\ UNCHANGED <<clock, now>>
    BY <1>4 DEF AbortVblank
  <2> QED BY <1>1, <2>1, EndTold
<1>5. ASSUME NEW r \in Request, SendEvent(r)
      PROVE  MscInv(F)'
  BY <1>5, SendEventTold
<1>6. CASE WaitVblankFails
  <2>1. /\ call \in Request /\ End(call, "refused") /\ req[call].outcome # "none"
        /\ UNCHANGED <<clock, now>>
    BY <1>6 DEF WaitVblankFails, IInv, TypeOK, Places
  <2> QED BY <1>1, <2>1, EndTold
<1>7. CASE Handle
  BY <1>7, HandleTold
<1>8. ASSUME NEW c \in Crtc, Tick(c)
      PROVE  MscInv(F)'
  <2>1. UNCHANGED <<req, clock>> /\ now[c] < MaxFrame /\ now' = [now EXCEPT ![c] = @ + 1]
    BY <1>8 DEF Tick
  <2>2. FramesInv'
    BY <2>1, PresentAssumption DEF IInv, TypeOK, MscInv, FramesInv
  <2> QED BY <2>1, <2>2 DEF MscInv, InOrder, ClockInv, ReqInv, AnswersNotEarly
<1>9. CASE WaitVblank \/ FlushEvents \/ ReadEvents \/ ScreenInit \/ CloseScreen
           \/ UNCHANGED vars
  <2>1. UNCHANGED <<req, clock, now>>
    BY <1>9 DEF WaitVblank, FlushEvents, ReadEvents, ScreenInit, CloseScreen, vars
  <2> QED BY <2>1 DEF MscInv, InOrder, ClockInv, ReqInv, FramesInv, AnswersNotEarly
<1> QED BY <1>2, <1>3, <1>4, <1>5, <1>6, <1>7, <1>8, <1>9 DEF Next

\* The MSC that the core is told is never before the one it asked for, though
\* requests that are far ahead move the offset of the clock while others are
\* waiting; as long as no counter goes round.
THEOREM AnswersCorrect ==
  ASSUME NoReuse, NEW F \in Nat, Modest(F)
  PROVE  Spec => []AnswersNotEarly
<1>1. Init => Fresh
  BY DEF Init, Fresh
<1>2. IInv /\ Fresh /\ [Next]_vars => Fresh'
  BY FreshNext
<1>3. Init => MscInv(F)
  BY InitTold
<1>4. IInv /\ IInv' /\ Fresh /\ MscInv(F) /\ [Next]_vars => MscInv(F)'
  BY ToldNext
<1>5. MscInv(F) => AnswersNotEarly
  BY DEF MscInv
<1> QED BY <1>1, <1>2, <1>3, <1>4, <1>5, Invariance, PTL DEF Spec
=============================================================================
