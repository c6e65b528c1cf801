---------------------------- MODULE ModesProofs ----------------------------
(***************************************************************************)
(* Theorems about Modes, for every number of CRTCs, every set of widths    *)
(* and everything that may fail. The invariant says what a job of the      *)
(* server has in hand between the calls it is made of.                     *)
(***************************************************************************)
EXTENDS Modes, WellFoundedInduction, TLAPS

\* The least of a set of CRTCs, which is called first.
LEMMA LeastExists ==
  ASSUME NEW S, S \subseteq Nat, S # {}
  PROVE  \E x \in S : \A y \in S : x <= y
<1> DEFINE R == {ss \in Nat \X Nat : ss[1] < ss[2]}
<1>1. IsWellFoundedOn(R, Nat)
  BY NatLessThanWellFounded DEF OpToRel
<1>2. PICK x \in S : \A y \in S : ~(<<y, x>> \in R)
  <2> HIDE DEF R
  <2> QED BY <1>1, WFMin
<1>3. ASSUME NEW y \in S
      PROVE  x <= y
  <2>1. x \in Nat /\ y \in Nat /\ ~(<<y, x>> \in R)
    BY <1>2
  <2> QED BY <2>1
<1> QED BY <1>3

-----------------------------------------------------------------------------
(* The inductive invariant                                                 *)

\* A CRTC in use has fields that the kernel took, but for the one that a set is
\* about.
FieldsOK ==
  \A c \in Crtc : crtc[c].enabled /\ ~(job.kind = "set" /\ job.of = c) =>
    crtc[c].cur \in Setting /\ crtc[c].cur = crtc[c].good

\* A set has what to put back, and has set what it was asked for if it says so;
\* other jobs call CRTCs in use.
JobOK ==
  /\ job.kind = "none" => job = NoJob
  /\ job.kind # "set" => \A c \in job.todo : crtc[c].enabled
  /\ job.kind = "set" =>
       /\ job.of \in Crtc /\ job.todo \subseteq {job.of}
       /\ job.want \in Setting /\ job.saved \in CrtcRec
       /\ job.saved.enabled =>
            job.saved.cur \in Setting /\ job.saved.cur = job.saved.good
       /\ job.todo = {} /\ job.ret =>
            /\ crtc[job.of].cur \in Setting
            /\ crtc[job.of].cur = crtc[job.of].good

IInv ==
  /\ TypeOK
  /\ ShownFits
  /\ FieldsOK
  /\ JobOK

LEMMA NoneIs == None \notin Setting
BY ModesAssumption DEF Setting

LEMMA NoJobIs ==
  /\ NoJob \in Job /\ NoJob.kind = "none" /\ NoJob.todo = {}
BY DEF NoJob, Job

LEMMA CrtcFields ==
  ASSUME NEW q \in CrtcRec
  PROVE  /\ q.enabled \in BOOLEAN /\ q.cur \in Setting \cup {None}
         /\ q.good \in Setting \cup {None} /\ q.dpms \in {"on", "off"}
BY DEF CrtcRec

LEMMA JobFields ==
  ASSUME TypeOK
  PROVE  /\ job.kind \in {"none", "set", "resize", "dpms", "pan"}
         /\ job.of \in Crtc \cup {0} /\ job.todo \subseteq Crtc
         /\ job.want \in Setting \cup {None} /\ job.saved \in CrtcRec \cup {None}
         /\ job.ret \in BOOLEAN
BY DEF TypeOK, Job

LEMMA MeetType ==
  ASSUME NEW S, hit \in {"none", "set", "more"}, Meet(S)
  PROVE  hit' \in {"none", "set", "more"}
<1>1. CASE S = {}
  BY <1>1 DEF Meet
<1>2. CASE S # {} /\ S = {"set"} /\ hit # "more"
  BY <1>2 DEF Meet
<1>3. CASE S # {} /\ ~(S = {"set"} /\ hit # "more")
  BY <1>3 DEF Meet
<1> QED BY <1>1, <1>2, <1>3

\* A resize that leaves the picture alone leaves the scanout as it was.
LEMMA ResizeTypes ==
  ASSUME NEW bo \in Bo, NEW size \in Size, NEW r \in ResizeScanoutBo(bo, size)
  PROVE  /\ r.ok \in BOOLEAN /\ r.bo \in Bo /\ r.dark \in BOOLEAN
         /\ ~r.dark => r.bo = bo
         /\ r.ok /\ bo.fb => r.bo.fb
<1>1. bo.size \in Size /\ bo.room \in Size /\ bo.fb \in BOOLEAN
  BY DEF Bo
<1>2. \/ r = Outcome(TRUE, bo, FALSE, {})
      \/ r = Outcome(TRUE, [size |-> size, room |-> size, fb |-> TRUE], TRUE, {})
      \/ r = Outcome(FALSE, bo, FALSE, {"nomem"})
      \/ r \in ResizeInPlace(bo, size)
  BY DEF ResizeScanoutBo
<1>3. ASSUME r \in ResizeInPlace(bo, size)
      PROVE  r.ok \in BOOLEAN /\ r.bo \in Bo /\ r.dark = TRUE /\ (r.ok => r.bo.fb)
  <2> DEFINE small == [bo EXCEPT !.size = size]
  <2>0. bo.fb
    BY <1>3 DEF ResizeInPlace
  <2>1. /\ small \in Bo /\ small.fb /\ [small EXCEPT !.fb = FALSE] \in Bo
        /\ \A fb \in BOOLEAN : [bo EXCEPT !.fb = fb] \in Bo
    BY <1>1, <2>0 DEF Bo
  <2>2. \/ r = Outcome(TRUE, small, TRUE, {"nomem"})
        \/ r = Outcome(FALSE, [small EXCEPT !.fb = FALSE], TRUE, {"nomem"})
        \/ \E fb \in BOOLEAN : r = Outcome(FALSE, [bo EXCEPT !.fb = fb], TRUE, {"nomem"})
    BY <1>3 DEF ResizeInPlace
  <2> HIDE DEF small
  <2>3. CASE r = Outcome(TRUE, small, TRUE, {"nomem"})
    BY <2>1, <2>3 DEF Outcome
  <2>4. CASE r = Outcome(FALSE, [small EXCEPT !.fb = FALSE], TRUE, {"nomem"})
    BY <2>1, <2>4 DEF Outcome
  <2>5. ASSUME NEW fb \in BOOLEAN,
               r = Outcome(FALSE, [bo EXCEPT !.fb = fb], TRUE, {"nomem"})
        PROVE  r.ok \in BOOLEAN /\ r.bo \in Bo /\ r.dark = TRUE /\ (r.ok => r.bo.fb)
    BY <2>1, <2>5 DEF Outcome
  <2> QED BY <2>2, <2>3, <2>4, <2>5
<1>4. [size |-> size, room |-> size, fb |-> TRUE] \in Bo
  BY DEF Bo
<1>5. CASE r = Outcome(TRUE, bo, FALSE, {})
  BY <1>5 DEF Outcome
<1>6. CASE r = Outcome(TRUE, [size |-> size, room |-> size, fb |-> TRUE], TRUE, {})
  BY <1>4, <1>6 DEF Outcome
<1>7. CASE r = Outcome(FALSE, bo, FALSE, {"nomem"})
  BY <1>7 DEF Outcome
<1> QED BY <1>2, <1>3, <1>5, <1>6, <1>7

LEMMA WithFbIs ==
  ASSUME TypeOK
  PROVE  WithFb \in Bo /\ WithFb.fb /\ WithFb.size = scanout.size
BY DEF TypeOK, Bo, WithFb

-----------------------------------------------------------------------------
(* drmmode_set_mode_major                                                  *)

LEMMA NextCrtcIs ==
  ASSUME IInv, job.todo # {}
  PROVE  /\ NextCrtc \in job.todo /\ NextCrtc \in Crtc
         /\ Want(NextCrtc) \in Setting
         /\ job.kind = "set" => NextCrtc = job.of
         /\ job.kind # "set" => /\ crtc[NextCrtc].enabled
                                /\ crtc[NextCrtc].cur \in Setting
                                /\ crtc[NextCrtc].cur = crtc[NextCrtc].good
<1>1. job.todo \subseteq Crtc
  BY JobFields DEF IInv
<1>2. job.todo \subseteq Nat
  BY <1>1, ModesAssumption DEF Crtc
<1>3. \E c \in job.todo : \A d \in job.todo : c <= d
  BY <1>2, LeastExists
<1>4. NextCrtc \in job.todo
  BY <1>3, Zenon DEF NextCrtc
<1> DEFINE c == NextCrtc
<1>5. c \in Crtc /\ c \in job.todo
  BY <1>1, <1>4
<1> HIDE DEF c
<1>6. job.kind # "set" => /\ crtc[c].enabled /\ crtc[c].cur \in Setting
                          /\ crtc[c].cur = crtc[c].good
  BY <1>5 DEF IInv, JobOK, FieldsOK
<1>7. job.kind = "set" => c = job.of /\ job.want \in Setting
  BY <1>5 DEF IInv, JobOK
<1>8. Want(c) \in Setting
  BY <1>6, <1>7, JobFields, NoneIs DEF Want, IInv
<1> QED BY <1>5, <1>6, <1>7, <1>8 DEF c

\* A call of set_mode_major for CRTC c that leaves q in its record.
LEMMA SetStep ==
  ASSUME IInv, job.todo # {}, NEW ret \in BOOLEAN, NEW q \in CrtcRec,
         Return(NextCrtc, ret),
         crtc' = [crtc EXCEPT ![NextCrtc] = q],
         q.enabled = crtc[NextCrtc].enabled,
         job.kind # "set" \/ ret => q.cur \in Setting /\ q.cur = q.good,
         kms' \in [Crtc -> Setting \cup {None}], out' \in [Crtc -> BOOLEAN],
         scanout' \in Bo, virtual' \in Size, hit' \in {"none", "set", "more"},
         \A c \in Crtc : kms'[c] # None => scanout'.fb /\ Fits(kms'[c], scanout'.size),
         UNCHANGED <<screen, monitors>>
  PROVE  IInv'
<1> DEFINE c == NextCrtc
<1>1. /\ c \in Crtc /\ c \in job.todo
      /\ job.kind = "set" => c = job.of
  BY NextCrtcIs
<1>2. /\ crtc' = [crtc EXCEPT ![c] = q] /\ Return(c, ret)
      /\ crtc \in [Crtc -> CrtcRec] /\ q.enabled = crtc[c].enabled
  BY DEF IInv, TypeOK
<1> HIDE DEF c
<1>3. /\ crtc' \in [Crtc -> CrtcRec] /\ crtc'[c] = q
      /\ \A d \in Crtc \ {c} : crtc'[d] = crtc[d]
  BY <1>1, <1>2
<1>4. /\ job.kind = "set" => job' = [job EXCEPT !.todo = {}, !.ret = ret]
      /\ job.kind # "set" /\ job.todo = {c} => job' = NoJob
      /\ job.kind # "set" /\ job.todo # {c} => job' = [job EXCEPT !.todo = @ \ {c}]
  BY <1>2 DEF Return
<1>5. job \in Job
  BY DEF IInv, TypeOK
<1>6. job' \in Job
  BY <1>4, <1>5, NoJobIs DEF Job
<1>7. TypeOK'
  BY <1>3, <1>6 DEF IInv, TypeOK, monitors
<1>8. ShownFits'
  BY DEF ShownFits
<1>9. CASE job.kind = "set"
  <2>1. /\ job'.kind = "set" /\ job'.of = c /\ job'.todo = {} /\ job'.ret = ret
        /\ job'.want = job.want /\ job'.saved = job.saved
    BY <1>1, <1>4, <1>5, <1>9 DEF Job
  <2>2. FieldsOK'
    BY <1>1, <1>3, <1>9, <2>1 DEF IInv, FieldsOK
  <2>3. JobOK'
    BY <1>1, <1>3, <1>9, <2>1 DEF IInv, JobOK
  <2> QED BY <1>7, <1>8, <2>2, <2>3 DEF IInv
<1>10. CASE job.kind # "set"
  <2>1. /\ job'.kind # "set" /\ job'.todo \subseteq job.todo
        /\ job'.kind = "none" => job' = NoJob
    BY <1>4, <1>5, <1>10, NoJobIs DEF Job, IInv, JobOK
  <2>2. q.cur \in Setting /\ q.cur = q.good
    BY <1>10
  <2>3. FieldsOK'
    <3>1. \A d \in Crtc \ {c} : crtc[d].enabled =>
            crtc[d].cur \in Setting /\ crtc[d].cur = crtc[d].good
      BY <1>10 DEF IInv, FieldsOK
    <3> QED BY <1>3, <2>2, <3>1 DEF FieldsOK
  <2>4. JobOK'
    <3>1. \A d \in job'.todo : d \in Crtc /\ crtc[d].enabled
      BY <2>1, <1>10, JobFields DEF IInv, JobOK
    <3>2. \A d \in job'.todo : crtc'[d].enabled
      BY <1>2, <1>3, <3>1
    <3> QED BY <2>1, <3>2 DEF JobOK
  <2> QED BY <1>7, <1>8, <2>3, <2>4 DEF IInv
<1> QED BY <1>9, <1>10

LEMMA OutputsOnType ==
  ASSUME TypeOK, NEW c \in Crtc
  PROVE  OutputsOn(c) \in [Crtc -> BOOLEAN]
<1>1. (out[c] \/ job.kind = "dpms") \in BOOLEAN
  BY DEF TypeOK
<1> QED BY <1>1 DEF OutputsOn, TypeOK

LEMMA DpmsType ==
  ASSUME TypeOK, NEW c \in Crtc
  PROVE  Dpms(c) \in {"on", "off"}
BY CrtcFields DEF Dpms, TypeOK

LEMMA NoFramebufferInv ==
  ASSUME IInv, job.todo # {}, NoFramebuffer(NextCrtc)
  PROVE  IInv'
<1>1. PICK c : c = NextCrtc
  OBVIOUS
<1>2. c \in Crtc /\ (job.kind # "set" => crtc[c].cur \in Setting /\ crtc[c].cur = crtc[c].good)
  BY <1>1, NextCrtcIs
<1>3. PICK q : q = [crtc[c] EXCEPT !.dpms = Dpms(c)]
  OBVIOUS
<1>4. crtc[c] \in CrtcRec /\ Dpms(c) \in {"on", "off"}
  BY <1>2, DpmsType DEF IInv, TypeOK
<1>5. /\ q \in CrtcRec /\ q.enabled = crtc[c].enabled /\ q.cur = crtc[c].cur
      /\ q.good = crtc[c].good
  BY <1>3, <1>4 DEF CrtcRec
<1>6. /\ Return(c, FALSE) /\ crtc' = [crtc EXCEPT ![c].dpms = Dpms(c)]
      /\ out' = OutputsOn(c) /\ Meet({"nomem"})
      /\ UNCHANGED <<kms, scanout, virtual, screen, monitors>>
  BY <1>1 DEF NoFramebuffer
<1>7. crtc' = [crtc EXCEPT ![c] = q]
  BY <1>3, <1>6
<1>8. hit' \in {"none", "set", "more"} /\ out' \in [Crtc -> BOOLEAN]
  BY <1>2, <1>6, MeetType, OutputsOnType DEF IInv, TypeOK
<1>9. /\ kms' \in [Crtc -> Setting \cup {None}] /\ scanout' \in Bo /\ virtual' \in Size
      /\ \A d \in Crtc : kms'[d] # None => scanout'.fb /\ Fits(kms'[d], scanout'.size)
  BY <1>6 DEF IInv, TypeOK, ShownFits
<1> QED BY <1>1, <1>2, <1>5, <1>6, <1>7, <1>8, <1>9, SetStep

\* What the cleanup leaves: the last good setting, or what was asked for.
LEMMA CleanupIs ==
  ASSUME IInv, job.todo # {}, Cleanup(NextCrtc)
  PROVE  \E q \in CrtcRec :
           /\ crtc' = [crtc EXCEPT ![NextCrtc] = q]
           /\ q.enabled = crtc[NextCrtc].enabled
           /\ q.good = crtc[NextCrtc].good /\ q.dpms = Dpms(NextCrtc)
           /\ job.kind # "set" => q.cur \in Setting /\ q.cur = q.good
<1>1. PICK c : c = NextCrtc
  OBVIOUS
<1>2. c \in Crtc /\ Want(c) \in Setting
      /\ (job.kind # "set" => crtc[c].cur \in Setting /\ crtc[c].cur = crtc[c].good)
  BY <1>1, NextCrtcIs
<1>3. PICK s : s = IF crtc[c].good # None THEN crtc[c].good ELSE Want(c)
  OBVIOUS
<1>4. crtc[c] \in CrtcRec /\ Dpms(c) \in {"on", "off"}
  BY <1>2, DpmsType DEF IInv, TypeOK
<1>5. s \in Setting
  BY <1>2, <1>3, <1>4, CrtcFields
<1>6. PICK q : q = [crtc[c] EXCEPT !.dpms = Dpms(c), !.cur = s]
  OBVIOUS
<1>7. /\ q \in CrtcRec /\ q.enabled = crtc[c].enabled /\ q.cur = s
      /\ q.good = crtc[c].good /\ q.dpms = Dpms(c)
  BY <1>4, <1>5, <1>6 DEF CrtcRec
<1>8. crtc' = [crtc EXCEPT ![c] = q]
  BY <1>1, <1>3, <1>6 DEF Cleanup
<1>9. job.kind # "set" => q.cur \in Setting /\ q.cur = q.good
  BY <1>2, <1>3, <1>5, <1>7, NoneIs
<1> QED BY <1>1, <1>7, <1>8, <1>9

LEMMA NoMemoryInv ==
  ASSUME IInv, job.todo # {}, NoMemory(NextCrtc)
  PROVE  IInv'
<1>1. PICK c : c = NextCrtc
  OBVIOUS
<1>2. /\ Return(c, FALSE) /\ Cleanup(c) /\ scanout' = WithFb
      /\ out' = OutputsOn(c) /\ Meet({"nomem"})
      /\ UNCHANGED <<kms, virtual, screen, monitors>>
  BY <1>1 DEF NoMemory
<1>3. PICK q \in CrtcRec :
        /\ crtc' = [crtc EXCEPT ![c] = q] /\ q.enabled = crtc[c].enabled
        /\ job.kind # "set" => q.cur \in Setting /\ q.cur = q.good
  BY <1>1, <1>2, CleanupIs
<1>4. hit' \in {"none", "set", "more"} /\ out' \in [Crtc -> BOOLEAN]
  BY <1>1, <1>2, NextCrtcIs, MeetType, OutputsOnType DEF IInv, TypeOK
<1>5. /\ kms' \in [Crtc -> Setting \cup {None}] /\ scanout' \in Bo /\ virtual' \in Size
      /\ \A d \in Crtc : kms'[d] # None => scanout'.fb /\ Fits(kms'[d], scanout'.size)
  BY <1>2, WithFbIs DEF IInv, TypeOK, ShownFits
<1> QED BY <1>1, <1>2, <1>3, <1>4, <1>5, SetStep

LEMMA ModeTakenInv ==
  ASSUME IInv, job.todo # {}, ModeTaken(NextCrtc)
  PROVE  IInv'
<1>1. PICK c : c = NextCrtc
  OBVIOUS
<1>2. PICK w : w = Want(c)
  OBVIOUS
<1>3. /\ Fits(w, scanout.size) /\ Return(c, TRUE)
      /\ kms' = [kms EXCEPT ![c] = w]
      /\ crtc' = [crtc EXCEPT ![c].cur = w, ![c].good = w, ![c].dpms = Dpms(c)]
      /\ out' = [out EXCEPT ![c] = TRUE]
      /\ scanout' = WithFb
      /\ UNCHANGED <<virtual, screen, monitors, hit>>
  BY <1>1, <1>2 DEF ModeTaken
<1>4. c \in Crtc /\ w \in Setting
  BY <1>1, <1>2, NextCrtcIs
<1>5. PICK q : q = [crtc[c] EXCEPT !.cur = w, !.good = w, !.dpms = Dpms(c)]
  OBVIOUS
<1>6. crtc[c] \in CrtcRec /\ Dpms(c) \in {"on", "off"}
  BY <1>4, DpmsType DEF IInv, TypeOK
<1>7. q \in CrtcRec /\ q.enabled = crtc[c].enabled /\ q.cur = w /\ q.good = w
  BY <1>4, <1>5, <1>6 DEF CrtcRec
<1>8. crtc' = [crtc EXCEPT ![c] = q]
  BY <1>3, <1>5
<1>9. /\ kms' \in [Crtc -> Setting \cup {None}] /\ scanout' \in Bo /\ virtual' \in Size
      /\ out' \in [Crtc -> BOOLEAN] /\ hit' \in {"none", "set", "more"}
  BY <1>3, <1>4, WithFbIs DEF IInv, TypeOK
<1>10. \A d \in Crtc : kms'[d] # None => scanout'.fb /\ Fits(kms'[d], scanout'.size)
  BY <1>3, <1>4, WithFbIs DEF IInv, TypeOK, ShownFits
<1>11. w = q.cur /\ q.cur \in Setting /\ q.cur = q.good /\ TRUE \in BOOLEAN
  BY <1>4, <1>7
<1>12. /\ Return(NextCrtc, TRUE) /\ crtc' = [crtc EXCEPT ![NextCrtc] = q]
       /\ q.enabled = crtc[NextCrtc].enabled /\ q \in CrtcRec
       /\ UNCHANGED <<screen, monitors>>
  BY <1>1, <1>3, <1>7, <1>8
<1> QED BY <1>9, <1>10, <1>11, <1>12, SetStep

\* What the kernel may have set, when the call failed, fits as well.
LEMMA NotTakenIs ==
  ASSUME IInv, NEW c \in Crtc, NEW w \in Setting, NEW k \in NotTaken(c, w)
  PROVE  /\ k \in [Crtc -> Setting \cup {None}]
         /\ \A d \in Crtc : k[d] # None => Fits(k[d], scanout.size)
<1>1. /\ kms \in [Crtc -> Setting \cup {None}]
      /\ \A d \in Crtc : kms[d] # None => Fits(kms[d], scanout.size)
  BY DEF IInv, TypeOK, ShownFits
<1>2. k = kms \/ \E s \in [mode : Size, x : {w.x}] :
                   Fits(s, scanout.size) /\ k = [kms EXCEPT ![c] = s]
  BY DEF NotTaken
<1>3. [mode : Size, x : {w.x}] \subseteq Setting
  BY DEF Setting
<1> QED BY <1>1, <1>2, <1>3

LEMMA ModeRefusedInv ==
  ASSUME IInv, job.todo # {}, ModeRefused(NextCrtc)
  PROVE  IInv'
<1>1. PICK c : c = NextCrtc
  OBVIOUS
<1>2. c \in Crtc /\ Want(c) \in Setting
  BY <1>1, NextCrtcIs
<1>3. PICK k \in NotTaken(c, Want(c)), met \in SUBSET ({"set"} \cap Env) :
        /\ Return(c, FALSE) /\ Cleanup(c) /\ UNCHANGED <<screen, monitors>>
        /\ \/ NothingToRevert(c, k) /\ Meet(met)
           \/ /\ crtc[c].good # None
              /\ \E r \in ResizeScanoutBo(WithFb, crtc[c].good.mode),
                    again \in SUBSET ({"again"} \cap Env) :
                   RevertMode(c, k, r, again) /\ Meet(met \cup r.met \cup again)
  BY <1>1 DEF ModeRefused
<1>4. /\ k \in [Crtc -> Setting \cup {None}]
      /\ \A d \in Crtc : k[d] # None => Fits(k[d], scanout.size)
  BY <1>2, NotTakenIs
<1>5. PICK q \in CrtcRec :
        /\ crtc' = [crtc EXCEPT ![c] = q] /\ q.enabled = crtc[c].enabled
        /\ job.kind # "set" => q.cur \in Setting /\ q.cur = q.good
  BY <1>1, <1>3, CleanupIs
<1>6. WithFb \in Bo /\ WithFb.fb /\ WithFb.size = scanout.size
  BY WithFbIs DEF IInv
<1>7. CASE NothingToRevert(c, k) /\ Meet(met)
  <2>1. kms' = k /\ scanout' = WithFb /\ out' = OutputsOn(c) /\ virtual' = virtual
    BY <1>7 DEF NothingToRevert
  <2>2. /\ kms' \in [Crtc -> Setting \cup {None}] /\ scanout' \in Bo /\ virtual' \in Size
        /\ out' \in [Crtc -> BOOLEAN] /\ hit' \in {"none", "set", "more"}
    BY <1>2, <1>4, <1>6, <1>7, <2>1, OutputsOnType, MeetType DEF IInv, TypeOK
  <2>3. \A d \in Crtc : kms'[d] # None => scanout'.fb /\ Fits(kms'[d], scanout'.size)
    BY <1>4, <1>6, <2>1
  <2> QED BY <1>1, <1>3, <1>5, <2>2, <2>3, SetStep
<1>8. ASSUME crtc[c].good # None,
             NEW r \in ResizeScanoutBo(WithFb, crtc[c].good.mode),
             NEW again \in SUBSET ({"again"} \cap Env),
             RevertMode(c, k, r, again), Meet(met \cup r.met \cup again)
      PROVE  IInv'
  <2>1. crtc[c].good \in Setting /\ crtc[c].good.mode \in Size
    BY <1>2, <1>8, CrtcFields DEF IInv, TypeOK, Setting
  <2>2. r.ok \in BOOLEAN /\ r.bo \in Bo /\ r.dark \in BOOLEAN /\ (~r.dark => r.bo = WithFb)
    BY <1>6, <2>1, ResizeTypes
  <2>3. PICK left : left = IF r.dark THEN AllDark ELSE k
    OBVIOUS
  <2>4. /\ virtual' = crtc[c].good.mode /\ scanout' = r.bo
        /\ kms' = IF r.ok /\ again = {} /\ Fits(crtc[c].good, r.bo.size)
                  THEN [left EXCEPT ![c] = crtc[c].good] ELSE left
        /\ out' = [out EXCEPT ![c] = @ \/ r.ok \/ job.kind = "dpms"]
    BY <1>8, <2>3 DEF RevertMode
  <2>5. /\ left \in [Crtc -> Setting \cup {None}]
        /\ \A d \in Crtc : left[d] # None => r.bo.fb /\ Fits(left[d], r.bo.size)
    BY <1>4, <1>6, <2>2, <2>3 DEF AllDark
  <2>6. r.ok => r.bo.fb
    BY <1>6, <2>1, ResizeTypes
  <2>7. /\ kms' \in [Crtc -> Setting \cup {None}]
        /\ \A d \in Crtc : kms'[d] # None => scanout'.fb /\ Fits(kms'[d], scanout'.size)
    BY <1>2, <2>1, <2>4, <2>5, <2>6
  <2>8. (out[c] \/ r.ok \/ job.kind = "dpms") \in BOOLEAN
    OBVIOUS
  <2>9. out' \in [Crtc -> BOOLEAN] /\ hit' \in {"none", "set", "more"}
    BY <1>2, <1>8, <2>4, <2>8, MeetType DEF IInv, TypeOK
  <2> QED BY <1>1, <1>3, <1>5, <2>1, <2>2, <2>4, <2>7, <2>9, SetStep
<1> QED BY <1>3, <1>7, <1>8

LEMMA SetModeMajorInv ==
  ASSUME IInv, SetModeMajor
  PROVE  IInv'
BY NoFramebufferInv, NoMemoryInv, ModeTakenInv, ModeRefusedInv DEF SetModeMajor

-----------------------------------------------------------------------------
(* The other steps                                                         *)

\* Outside jobs every CRTC in use has good fields.
LEMMA QuietIs ==
  ASSUME IInv, Quiet
  PROVE  /\ job.kind = "none" /\ job.todo = {}
         /\ \A c \in Crtc : crtc[c].enabled =>
              crtc[c].cur \in Setting /\ crtc[c].cur = crtc[c].good
BY NoJobIs DEF IInv, FieldsOK, Quiet

LEMMA CrtcSetInv ==
  ASSUME IInv, NEW c \in Crtc, NEW s \in Setting, CrtcSet(c, s)
  PROVE  IInv'
<1>1. /\ Quiet
      /\ crtc' = [crtc EXCEPT ![c].enabled = TRUE, ![c].cur = s]
      /\ job' = [kind |-> "set", of |-> c, todo |-> {c}, want |-> s,
                 saved |-> crtc[c], ret |-> FALSE]
      /\ UNCHANGED <<kms, out, scanout, virtual, screen, monitors, hit>>
  BY DEF CrtcSet
<1>2. PICK q : q = [crtc[c] EXCEPT !.enabled = TRUE, !.cur = s]
  OBVIOUS
<1>3. crtc \in [Crtc -> CrtcRec] /\ crtc[c] \in CrtcRec
  BY DEF IInv, TypeOK
<1>4. q \in CrtcRec
  BY <1>2, <1>3 DEF CrtcRec
<1>5. crtc' = [crtc EXCEPT ![c] = q]
  BY <1>1, <1>2
<1>6. /\ crtc' \in [Crtc -> CrtcRec]
      /\ \A d \in Crtc \ {c} : crtc'[d] = crtc[d]
  BY <1>3, <1>4, <1>5
<1>7. job' \in Job
  BY <1>1, <1>3 DEF Job
<1>8. /\ job'.kind = "set" /\ job'.of = c /\ job'.todo = {c} /\ job'.want = s
      /\ job'.saved = crtc[c]
  BY <1>1
<1>9. TypeOK'
  BY <1>1, <1>6, <1>7 DEF IInv, TypeOK, monitors
<1>10. ShownFits'
  BY <1>1 DEF IInv, ShownFits
<1>11. FieldsOK'
  BY <1>1, <1>6, <1>8, QuietIs DEF FieldsOK
<1>12. JobOK'
  BY <1>1, <1>3, <1>8, QuietIs DEF JobOK
<1> QED BY <1>9, <1>10, <1>11, <1>12 DEF IInv

\* Turning CRTCs off does not touch their settings.
LEMMA CrtcDpmsOffIs ==
  ASSUME TypeOK, ShownFits, NEW crtcs \in [Crtc -> CrtcRec], NEW S, NEW stuck,
         CrtcDpmsOff(crtcs, S, stuck), UNCHANGED scanout
  PROVE  /\ crtc' \in [Crtc -> CrtcRec]
         /\ \A c \in Crtc : /\ crtc'[c].enabled = crtcs[c].enabled
                            /\ crtc'[c].cur = crtcs[c].cur
                            /\ crtc'[c].good = crtcs[c].good
         /\ kms' \in [Crtc -> Setting \cup {None}]
         /\ out' \in [Crtc -> BOOLEAN]
         /\ hit' \in {"none", "set", "more"}
         /\ ShownFits'
<1>1. /\ crtc' = [c \in Crtc |-> IF c \in S THEN [crtcs[c] EXCEPT !.dpms = "off"]
                                 ELSE crtcs[c]]
      /\ kms' = [c \in Crtc |-> IF c \in S \ stuck THEN None ELSE kms[c]]
      /\ out' = [c \in Crtc |-> out[c] /\ c \notin S]
      /\ Meet(IF stuck = {} THEN {} ELSE {"dpms"})
  BY DEF CrtcDpmsOff
<1>2. ASSUME NEW c \in Crtc
      PROVE  /\ crtc'[c] \in CrtcRec /\ crtc'[c].enabled = crtcs[c].enabled
             /\ crtc'[c].cur = crtcs[c].cur /\ crtc'[c].good = crtcs[c].good
  <2>1. PICK q : q = crtcs[c]
    OBVIOUS
  <2>2. q \in CrtcRec
    BY <2>1
  <2>3. crtc'[c] = [q EXCEPT !.dpms = "off"] \/ crtc'[c] = q
    BY <1>1, <2>1
  <2> QED BY <2>1, <2>2, <2>3 DEF CrtcRec
<1>3. crtc' \in [Crtc -> CrtcRec]
  BY <1>1, <1>2
<1>4. kms' \in [Crtc -> Setting \cup {None}] /\ out' \in [Crtc -> BOOLEAN]
  BY <1>1 DEF TypeOK
<1>5. hit' \in {"none", "set", "more"}
  BY <1>1, MeetType DEF TypeOK
<1>6. ShownFits'
  BY <1>1 DEF ShownFits
<1> QED BY <1>2, <1>3, <1>4, <1>5, <1>6

LEMMA CrtcSetEndsInv ==
  ASSUME IInv, CrtcSetEnds
  PROVE  IInv'
<1>1. /\ job.kind = "set" /\ job.todo = {} /\ job' = NoJob
      /\ \/ job.ret /\ DisableUnused(crtc)
         \/ /\ ~job.ret
            /\ crtc' = [crtc EXCEPT ![job.of] = job.saved]
            /\ UNCHANGED <<kms, out, hit>>
      /\ UNCHANGED <<scanout, virtual, screen, monitors>>
  BY DEF CrtcSetEnds
<1>2. PICK c : c = job.of
  OBVIOUS
<1>3. c \in Crtc /\ crtc \in [Crtc -> CrtcRec]
  BY <1>1, <1>2 DEF IInv, JobOK, TypeOK
<1>4. \A d \in Crtc \ {c} : crtc[d].enabled =>
        crtc[d].cur \in Setting /\ crtc[d].cur = crtc[d].good
  BY <1>2 DEF IInv, FieldsOK
<1>5. JobOK' /\ job' \in Job /\ job'.kind = "none"
  BY <1>1, NoJobIs DEF JobOK
<1>6. CASE job.ret /\ DisableUnused(crtc)
  <2>1. crtc[c].cur \in Setting /\ crtc[c].cur = crtc[c].good
    BY <1>1, <1>2, <1>6 DEF IInv, JobOK
  <2>2. PICK S, stuck : CrtcDpmsOff(crtc, S, stuck)
    BY <1>6 DEF DisableUnused
  <2>3. /\ crtc' \in [Crtc -> CrtcRec]
        /\ \A d \in Crtc : /\ crtc'[d].enabled = crtc[d].enabled
                           /\ crtc'[d].cur = crtc[d].cur
                           /\ crtc'[d].good = crtc[d].good
        /\ kms' \in [Crtc -> Setting \cup {None}] /\ out' \in [Crtc -> BOOLEAN]
        /\ hit' \in {"none", "set", "more"} /\ ShownFits'
    BY <1>1, <1>3, <2>2, CrtcDpmsOffIs DEF IInv
  <2>4. FieldsOK'
    BY <1>4, <2>1, <2>3 DEF FieldsOK
  <2>5. TypeOK'
    BY <1>1, <1>5, <2>3 DEF IInv, TypeOK, monitors
  <2> QED BY <1>5, <2>3, <2>4, <2>5 DEF IInv
<1>7. CASE ~job.ret /\ crtc' = [crtc EXCEPT ![job.of] = job.saved] /\ UNCHANGED <<kms, out, hit>>
  <2>1. PICK q : q = job.saved
    OBVIOUS
  <2>2. /\ q \in CrtcRec
        /\ q.enabled => q.cur \in Setting /\ q.cur = q.good
    BY <1>1, <2>1 DEF IInv, JobOK
  <2>3. crtc' = [crtc EXCEPT ![c] = q]
    BY <1>2, <1>7, <2>1
  <2>4. /\ crtc' \in [Crtc -> CrtcRec] /\ crtc'[c] = q
        /\ \A d \in Crtc \ {c} : crtc'[d] = crtc[d]
    BY <1>3, <2>2, <2>3
  <2>5. FieldsOK'
    BY <1>4, <2>2, <2>4 DEF FieldsOK
  <2>6. TypeOK'
    BY <1>1, <1>5, <1>7, <2>4 DEF IInv, TypeOK, monitors
  <2>7. ShownFits'
    BY <1>1, <1>7 DEF IInv, ShownFits
  <2> QED BY <1>5, <2>5, <2>6, <2>7 DEF IInv
<1> QED BY <1>1, <1>6, <1>7

LEMMA CrtcOffInv ==
  ASSUME IInv, NEW c \in Crtc, CrtcOff(c)
  PROVE  IInv'
<1>1. PICK crtcs : crtcs = [crtc EXCEPT ![c].enabled = FALSE, ![c].cur = None]
  OBVIOUS
<1>2. PICK q : q = [crtc[c] EXCEPT !.enabled = FALSE, !.cur = None]
  OBVIOUS
<1>3. crtc \in [Crtc -> CrtcRec] /\ crtc[c] \in CrtcRec
  BY DEF IInv, TypeOK
<1>4. q \in CrtcRec /\ ~q.enabled
  BY <1>2, <1>3 DEF CrtcRec
<1>5. crtcs = [crtc EXCEPT ![c] = q]
  BY <1>1, <1>2
<1>6. /\ crtcs \in [Crtc -> CrtcRec] /\ ~crtcs[c].enabled
      /\ \A d \in Crtc \ {c} : crtcs[d] = crtc[d]
  BY <1>3, <1>4, <1>5
<1>7. PICK S, stuck : CrtcDpmsOff(crtcs, S, stuck)
  BY <1>1 DEF CrtcOff, DisableUnused
<1>8. Quiet /\ UNCHANGED <<scanout, virtual, screen, job, monitors>>
  BY DEF CrtcOff
<1>9. /\ crtc' \in [Crtc -> CrtcRec]
      /\ \A d \in Crtc : /\ crtc'[d].enabled = crtcs[d].enabled
                         /\ crtc'[d].cur = crtcs[d].cur
                         /\ crtc'[d].good = crtcs[d].good
      /\ kms' \in [Crtc -> Setting \cup {None}] /\ out' \in [Crtc -> BOOLEAN]
      /\ hit' \in {"none", "set", "more"} /\ ShownFits'
  BY <1>6, <1>7, <1>8, CrtcDpmsOffIs DEF IInv
<1>10. FieldsOK'
  BY <1>6, <1>8, <1>9, QuietIs DEF FieldsOK
<1>11. TypeOK'
  BY <1>8, <1>9 DEF IInv, TypeOK, monitors
<1>12. JobOK'
  BY <1>8, QuietIs DEF JobOK, Quiet
<1> QED BY <1>9, <1>10, <1>11, <1>12 DEF IInv

LEMMA DpmsOffInv ==
  ASSUME IInv, DpmsOff
  PROVE  IInv'
<1>1. PICK S, stuck : CrtcDpmsOff(crtc, S, stuck)
  BY DEF DpmsOff
<1>2. Quiet /\ UNCHANGED <<scanout, virtual, screen, job, monitors>>
  BY DEF DpmsOff
<1>3. crtc \in [Crtc -> CrtcRec]
  BY DEF IInv, TypeOK
<1>4. /\ crtc' \in [Crtc -> CrtcRec]
      /\ \A d \in Crtc : /\ crtc'[d].enabled = crtc[d].enabled
                         /\ crtc'[d].cur = crtc[d].cur
                         /\ crtc'[d].good = crtc[d].good
      /\ kms' \in [Crtc -> Setting \cup {None}] /\ out' \in [Crtc -> BOOLEAN]
      /\ hit' \in {"none", "set", "more"} /\ ShownFits'
  BY <1>1, <1>2, <1>3, CrtcDpmsOffIs DEF IInv
<1>5. FieldsOK'
  BY <1>2, <1>4, QuietIs DEF FieldsOK
<1>6. TypeOK'
  BY <1>2, <1>4 DEF IInv, TypeOK, monitors
<1>7. JobOK'
  BY <1>2, QuietIs DEF JobOK, Quiet
<1> QED BY <1>4, <1>5, <1>6, <1>7 DEF IInv

\* A job for CRTCs in use, which changes nothing of them yet.
LEMMA NewJobInv ==
  ASSUME IInv, Quiet, job' \in Job, job'.kind # "set",
         job'.kind = "none" => job' = NoJob,
         \A c \in job'.todo : crtc[c].enabled,
         UNCHANGED crtc, ShownFits', TypeOK'
  PROVE  IInv'
<1>1. FieldsOK'
  BY QuietIs DEF FieldsOK
<1>2. JobOK'
  BY DEF JobOK
<1> QED BY <1>1, <1>2 DEF IInv

LEMMA ResizeInv ==
  ASSUME IInv, NEW size \in Size, Resize(size)
  PROVE  IInv'
<1>1. PICK r \in ResizeScanoutBo(scanout, size) :
        /\ scanout' = r.bo
        /\ kms' = IF r.dark THEN AllDark ELSE kms
        /\ Meet(r.met)
        /\ screen' = IF r.ok THEN size ELSE screen
        /\ job' = IF r.ok /\ ToReset # {}
                  THEN [NoJob EXCEPT !.kind = "resize", !.todo = ToReset] ELSE NoJob
  BY DEF Resize
<1>2. Quiet /\ virtual' = size /\ UNCHANGED <<crtc, out, monitors>>
  BY DEF Resize
<1>3. scanout \in Bo
  BY DEF IInv, TypeOK
<1>4. r.bo \in Bo /\ r.dark \in BOOLEAN /\ (~r.dark => r.bo = scanout)
  BY <1>3, ResizeTypes
<1>5. kms' \in [Crtc -> Setting \cup {None}]
  BY <1>1, <1>4 DEF IInv, TypeOK, AllDark
<1>6. ShownFits'
  BY <1>1, <1>4 DEF IInv, ShownFits, AllDark
<1>7. \A c \in ToReset : c \in Crtc /\ crtc[c].enabled
  BY DEF ToReset, Enabled
<1>8. /\ job' \in Job /\ job'.kind # "set" /\ (job'.kind = "none" => job' = NoJob)
      /\ \A c \in job'.todo : crtc[c].enabled
  <2>1. CASE job' = NoJob
    BY <2>1, NoJobIs
  <2>2. CASE job' = [NoJob EXCEPT !.kind = "resize", !.todo = ToReset]
    BY <1>7, <2>2, NoJobIs DEF NoJob, Job
  <2> QED BY <1>1, <2>1, <2>2
<1>9. TypeOK'
  BY <1>1, <1>2, <1>4, <1>5, <1>8, MeetType DEF IInv, TypeOK, monitors
<1> QED BY <1>2, <1>6, <1>8, <1>9, NewJobInv

LEMMA DpmsOnInv ==
  ASSUME IInv, DpmsOn
  PROVE  IInv'
<1>1. /\ Quiet /\ job' = [NoJob EXCEPT !.kind = "dpms", !.todo = Enabled]
      /\ UNCHANGED <<settings, screen, monitors, hit>>
  BY DEF DpmsOn
<1>2. /\ job' \in Job /\ job'.kind = "dpms" /\ job'.todo = Enabled
  BY <1>1 DEF NoJob, Job, Enabled
<1>3. TypeOK' /\ ShownFits'
  BY <1>1, <1>2 DEF IInv, TypeOK, ShownFits, settings, monitors
<1> QED BY <1>1, <1>2, <1>3, NewJobInv DEF Enabled, settings

LEMMA AdjustFrameInv ==
  ASSUME IInv, NEW c \in Crtc, NEW x \in 0..virtual, AdjustFrame(c, x)
  PROVE  IInv'
<1>1. PICK s : s = [crtc[c].cur EXCEPT !.x = x]
  OBVIOUS
<1>2. /\ Quiet /\ crtc[c].enabled
      /\ job' = [NoJob EXCEPT !.kind = "pan", !.todo = {c}, !.want = s]
      /\ UNCHANGED <<settings, screen, monitors, hit>>
  BY <1>1 DEF AdjustFrame
<1>3. s \in Setting
  <2>1. crtc[c].cur \in Setting
    BY <1>2, QuietIs
  <2>2. x \in Nat
    BY ModesAssumption DEF IInv, TypeOK
  <2> QED BY <1>1, <2>1, <2>2 DEF Setting
<1>4. /\ job' \in Job /\ job'.kind = "pan" /\ job'.todo = {c}
  BY <1>2, <1>3 DEF NoJob, Job
<1>5. TypeOK' /\ ShownFits'
  BY <1>2, <1>4 DEF IInv, TypeOK, ShownFits, settings, monitors
<1> QED BY <1>2, <1>4, <1>5, NewJobInv DEF settings

LEMMA AppendTyped ==
  ASSUME uevents \in Seq(Uevent), Len(uevents) < MaxUevents, NEW e \in Uevent
  PROVE  /\ Append(uevents, e) \in Seq(Uevent)
         /\ Len(Append(uevents, e)) <= MaxUevents
BY ModesAssumption

LEMMA PlugInv ==
  ASSUME IInv, NEW c \in Crtc, Plug(c)
  PROVE  IInv'
<1>1. PICK modes \in {{}, Size} : conn' = [conn EXCEPT ![c] = modes]
  BY DEF Plug
<1>2. /\ Len(uevents) < MaxUevents /\ uevents' = Append(uevents, "ours")
      /\ UNCHANGED <<settings, screen, job, known, hit>>
  BY DEF Plug
<1>3. uevents' \in Seq(Uevent) /\ Len(uevents') <= MaxUevents
  BY <1>2, AppendTyped DEF IInv, TypeOK, Uevent
<1>4. TypeOK'
  BY <1>1, <1>2, <1>3 DEF IInv, TypeOK, settings
<1> QED BY <1>2, <1>4 DEF IInv, ShownFits, FieldsOK, JobOK, settings

LEMMA OtherUeventInv ==
  ASSUME IInv, OtherUevent
  PROVE  IInv'
<1>1. /\ Len(uevents) < MaxUevents /\ uevents' = Append(uevents, "other")
      /\ UNCHANGED <<settings, screen, job, conn, known, hit>>
  BY DEF OtherUevent
<1>2. uevents' \in Seq(Uevent) /\ Len(uevents') <= MaxUevents
  BY <1>1, AppendTyped DEF IInv, TypeOK, Uevent
<1>3. TypeOK'
  BY <1>1, <1>2 DEF IInv, TypeOK, settings
<1> QED BY <1>1, <1>3 DEF IInv, ShownFits, FieldsOK, JobOK, settings

LEMMA HandleUeventsInv ==
  ASSUME IInv, HandleUevents
  PROVE  IInv'
<1>1. /\ uevents # <<>> /\ uevents' = Tail(uevents)
      /\ UNCHANGED <<settings, screen, job, conn, hit>>
  BY DEF HandleUevents
<1>2. known' = known \/ known' = [c \in Crtc |-> conn[c]]
  BY DEF HandleUevents, ProbeOutputModes, OutputDetect
<1>3. uevents \in Seq(Uevent) /\ Len(uevents) <= MaxUevents
  BY DEF IInv, TypeOK
<1>4. uevents' \in Seq(Uevent) /\ Len(uevents') <= MaxUevents
  BY <1>1, <1>3, ModesAssumption
<1>5. TypeOK'
  BY <1>1, <1>2, <1>4 DEF IInv, TypeOK, settings
<1> QED BY <1>1, <1>5 DEF IInv, ShownFits, FieldsOK, JobOK, settings

LEMMA StutterInv ==
  ASSUME IInv, UNCHANGED vars
  PROVE  IInv'
BY DEF IInv, TypeOK, ShownFits, FieldsOK, JobOK, vars, settings, monitors

LEMMA InitInv ==
  ASSUME Init
  PROVE  IInv
<1>1. NewCrtc \in CrtcRec /\ ~NewCrtc.enabled
  BY DEF NewCrtc, CrtcRec
<1>2. TypeOK
  BY <1>1, ModesAssumption, NoJobIs DEF Init, TypeOK, Bo
<1>3. ShownFits
  BY DEF Init, ShownFits
<1>4. FieldsOK
  BY <1>1 DEF Init, FieldsOK
<1>5. JobOK
  BY NoJobIs DEF Init, JobOK
<1> QED BY <1>2, <1>3, <1>4, <1>5 DEF IInv

LEMMA NextInv ==
  ASSUME IInv, Next
  PROVE  IInv'
<1>1. CASE SetModeMajor
  BY <1>1, SetModeMajorInv
<1>2. ASSUME NEW c \in Crtc, NEW m \in Size, NEW x \in 0..screen,
             CrtcSet(c, [mode |-> m, x |-> x])
      PROVE  IInv'
  <2>1. x \in Nat
    BY ModesAssumption DEF IInv, TypeOK
  <2>2. [mode |-> m, x |-> x] \in Setting
    BY <2>1 DEF Setting
  <2> QED BY <1>2, <2>2, CrtcSetInv
<1>3. ASSUME NEW c \in Crtc, CrtcOff(c)
      PROVE  IInv'
  BY <1>3, CrtcOffInv
<1>4. ASSUME NEW c \in Crtc, NEW x \in 0..virtual, AdjustFrame(c, x)
      PROVE  IInv'
  BY <1>4, AdjustFrameInv
<1>5. ASSUME NEW c \in Crtc, Plug(c)
      PROVE  IInv'
  BY <1>5, PlugInv
<1>6. CASE CrtcSetEnds
  BY <1>6, CrtcSetEndsInv
<1>7. ASSUME NEW size \in Size, Resize(size)
      PROVE  IInv'
  BY <1>7, ResizeInv
<1>8. CASE DpmsOff
  BY <1>8, DpmsOffInv
<1>9. CASE DpmsOn
  BY <1>9, DpmsOnInv
<1>10. CASE HandleUevents
  BY <1>10, HandleUeventsInv
<1>11. CASE OtherUevent
  BY <1>11, OtherUeventInv
<1> QED BY <1>1, <1>2, <1>3, <1>4, <1>5, <1>6, <1>7, <1>8, <1>9, <1>10, <1>11 DEF Next

-----------------------------------------------------------------------------
(* What is shown, while nothing but refused modes was met                  *)

\* Without faults every CRTC in use fits in the scanout, which has the size of
\* the screen, so that no mode is refused.
ScreenFits ==
  hit = "none" =>
    /\ screen = scanout.size /\ virtual = scanout.size
    /\ \A c \in Crtc :
         crtc[c].enabled /\ ~(job.kind = "set" /\ job.of = c /\ job.todo # {}) =>
           Fits(crtc[c].cur, scanout.size)
    /\ job.want # None => Fits(job.want, scanout.size)
    /\ job.kind = "set" => (job.saved.enabled => Fits(job.saved.cur, scanout.size))

\* What a failed set restores is what it changed.
SavedKept ==
  job.kind = "set" =>
    /\ crtc[job.of].enabled /\ crtc[job.of].dpms = job.saved.dpms
    /\ job.todo # {} \/ ~job.ret => crtc[job.of].good = job.saved.good

Only(c) ==
  /\ \A d \in Crtc \ {c} : crtc[d].good = None
  /\ crtc[c].good # None /\ crtc[c].good.x = 0

Promised(c) == hit = "none" \/ (hit = "set" /\ Only(c))

\* A CRTC that is on, and has not still to be set, shows its last good mode.
GoodShown ==
  \A c \in Crtc \ job.todo :
    CrtcOn(c) /\ Promised(c) => kms[c] = crtc[c].good /\ out[c]

PInv == hit # "more" => ScreenFits /\ SavedKept /\ GoodShown

\* A state that is not "more" has met refused modes at most.
LEMMA MeetIs ==
  ASSUME NEW S, hit \in {"none", "set", "more"}, Meet(S), hit' # "more"
  PROVE  /\ hit # "more" /\ S \subseteq {"set"}
         /\ hit' = "none" => hit = "none" /\ S = {}
         /\ hit' \in {"none", "set"}
<1>1. CASE S = {}
  BY <1>1 DEF Meet
<1>2. CASE S # {} /\ S = {"set"} /\ hit # "more"
  BY <1>2 DEF Meet
<1>3. CASE S # {} /\ ~(S = {"set"} /\ hit # "more")
  BY <1>3 DEF Meet
<1> QED BY <1>1, <1>2, <1>3

LEMMA ReturnIs ==
  ASSUME IInv, job.todo # {}, NEW ret \in BOOLEAN, Return(NextCrtc, ret)
  PROVE  /\ job'.todo = job.todo \ {NextCrtc}
         /\ job'.want \in {job.want, None}
         /\ job'.kind = "set" => /\ job.kind = "set" /\ job'.of = job.of
                                 /\ job'.saved = job.saved /\ job'.ret = ret
         /\ job.kind = "set" => job'.kind = "set"
<1>1. PICK c : c = NextCrtc
  OBVIOUS
<1>2. c \in job.todo /\ Return(c, ret)
  BY <1>1, NextCrtcIs
<1>3. job \in Job
  BY DEF IInv, TypeOK
<1>4. CASE job.kind = "set"
  <2>1. job' = [job EXCEPT !.todo = {}, !.ret = ret] /\ job.todo \subseteq {c}
    BY <1>1, <1>2, <1>4, NextCrtcIs DEF Return, IInv, JobOK
  <2> QED BY <1>1, <1>2, <1>3, <1>4, <2>1 DEF Job
<1>5. CASE job.kind # "set" /\ job.todo = {c}
  <2>1. job' = NoJob
    BY <1>2, <1>5 DEF Return
  <2> QED BY <1>1, <1>5, <2>1 DEF NoJob
<1>6. CASE job.kind # "set" /\ job.todo # {c}
  <2>1. job' = [job EXCEPT !.todo = @ \ {c}]
    BY <1>2, <1>6 DEF Return
  <2> QED BY <1>1, <1>3, <1>6, <2>1 DEF Job
<1> QED BY <1>4, <1>5, <1>6

\* A set calls set_mode_major once.
LEMMA TodoIs ==
  ASSUME IInv, job.kind = "set", job.todo # {}
  PROVE  job.todo = {job.of} /\ job.todo \ {job.of} = {}
BY DEF IInv, JobOK

\* A call of set_mode_major that leaves q in the record of its CRTC, which then
\* shows what is good, and nothing that was promised of another one is lost.
LEMMA SetShows ==
  ASSUME IInv, PInv, job.todo # {}, hit # "more", NEW c, c = NextCrtc,
         NEW ret \in BOOLEAN, NEW q \in CrtcRec, Return(c, ret),
         crtc' = [crtc EXCEPT ![c] = q],
         q.enabled = crtc[c].enabled, q.dpms = Dpms(c),
         ret \/ q.good = crtc[c].good,
         ScreenFits',
         Promised(c)' => kms'[c] = q.good /\ out'[c],
         \A d \in Crtc \ {c} : Promised(d)' =>
           Promised(d) /\ kms'[d] = kms[d] /\ out'[d] = out[d]
  PROVE  PInv'
<1>1. /\ c \in Crtc /\ c \in job.todo
      /\ job.kind = "set" => c = job.of
  BY NextCrtcIs
<1>2. /\ crtc'[c] = q /\ \A d \in Crtc \ {c} : crtc'[d] = crtc[d]
  BY <1>1 DEF IInv, TypeOK
<1>3. /\ job'.todo = job.todo \ {c}
      /\ job'.kind = "set" => /\ job.kind = "set" /\ job'.of = job.of
                              /\ job'.saved = job.saved /\ job'.ret = ret
  BY ReturnIs
<1>4. SavedKept'
  <2>1. SUFFICES ASSUME job'.kind = "set"
                 PROVE  /\ crtc'[c].enabled /\ crtc'[c].dpms = job.saved.dpms
                        /\ ~ret => crtc'[c].good = job.saved.good
    BY <1>1, <1>3, TodoIs DEF SavedKept
  <2>2. /\ crtc[c].enabled /\ crtc[c].dpms = job.saved.dpms
        /\ crtc[c].good = job.saved.good
    BY <1>1, <1>3, <2>1 DEF PInv, SavedKept
  <2>3. q.dpms = crtc[c].dpms
    BY <1>3, <2>1 DEF Dpms
  <2> QED BY <1>2, <2>2, <2>3
<1>5. GoodShown'
  <2>1. SUFFICES ASSUME NEW d \in Crtc, d \notin job.todo \/ d = c,
                        CrtcOn(d)', Promised(d)'
                 PROVE  kms'[d] = crtc'[d].good /\ out'[d]
    BY <1>3 DEF GoodShown
  <2>2. CASE d = c
    BY <1>2, <2>1, <2>2
  <2>3. CASE d # c
    <3>1. CrtcOn(d) /\ d \in Crtc \ job.todo
      BY <1>2, <2>1, <2>3 DEF CrtcOn
    <3>2. Promised(d) /\ kms'[d] = kms[d] /\ out'[d] = out[d]
      BY <2>1, <2>3
    <3>3. kms[d] = crtc[d].good /\ out[d]
      BY <3>1, <3>2 DEF PInv, GoodShown
    <3> QED BY <1>2, <2>1, <2>3, <3>2, <3>3
  <2> QED BY <2>2, <2>3
<1> QED BY <1>4, <1>5 DEF PInv

LEMMA WantFits ==
  ASSUME IInv, PInv, job.todo # {}, hit = "none"
  PROVE  Fits(Want(NextCrtc), scanout.size)
<1>1. PICK c : c = NextCrtc
  OBVIOUS
<1>2. /\ c \in Crtc /\ (job.kind = "set" => c = job.of /\ job.want # None)
      /\ job.kind # "set" => crtc[c].enabled
  BY <1>1, NextCrtcIs, NoneIs DEF IInv, JobOK
<1>3. /\ job.want # None => Fits(job.want, scanout.size)
      /\ job.kind # "set" /\ crtc[c].enabled => Fits(crtc[c].cur, scanout.size)
  BY <1>2 DEF PInv, ScreenFits
<1> QED BY <1>1, <1>2, <1>3 DEF Want

LEMMA ModeTakenShows ==
  ASSUME IInv, PInv, job.todo # {}, ModeTaken(NextCrtc)
  PROVE  PInv'
<1>1. PICK c : c = NextCrtc
  OBVIOUS
<1>2. PICK w : w = Want(c)
  OBVIOUS
<1>3. /\ Fits(w, scanout.size) /\ Return(c, TRUE)
      /\ kms' = [kms EXCEPT ![c] = w]
      /\ crtc' = [crtc EXCEPT ![c].cur = w, ![c].good = w, ![c].dpms = Dpms(c)]
      /\ out' = [out EXCEPT ![c] = TRUE]
      /\ scanout' = WithFb
      /\ UNCHANGED <<virtual, screen, monitors, hit>>
  BY <1>1, <1>2 DEF ModeTaken
<1>4. c \in Crtc /\ w \in Setting /\ (job.kind = "set" => c = job.of)
  BY <1>1, <1>2, NextCrtcIs
<1>5. PICK q : q = [crtc[c] EXCEPT !.cur = w, !.good = w, !.dpms = Dpms(c)]
  OBVIOUS
<1>6. crtc[c] \in CrtcRec /\ Dpms(c) \in {"on", "off"}
  BY <1>4, DpmsType DEF IInv, TypeOK
<1>7. /\ q \in CrtcRec /\ q.enabled = crtc[c].enabled /\ q.cur = w /\ q.good = w
      /\ q.dpms = Dpms(c)
  BY <1>4, <1>5, <1>6 DEF CrtcRec
<1>8. crtc' = [crtc EXCEPT ![c] = q]
  BY <1>3, <1>5
<1>9. crtc'[c] = q /\ \A d \in Crtc \ {c} : crtc'[d] = crtc[d]
  BY <1>4, <1>8 DEF IInv, TypeOK
<1>10. SUFFICES ASSUME hit # "more"
                PROVE  PInv'
  BY <1>3 DEF PInv
<1>11. ScreenFits'
  <2>1. SUFFICES ASSUME hit = "none"
                 PROVE  ScreenFits'
    BY <1>3 DEF ScreenFits
  <2>2. /\ job'.want \in {job.want, None}
        /\ job'.kind = "set" => /\ job.kind = "set" /\ job'.of = job.of
                                /\ job'.saved = job.saved
        /\ job.kind = "set" => job'.kind = "set"
    BY <1>1, <1>3, ReturnIs
  <2>3. scanout'.size = scanout.size
    BY <1>3, WithFbIs DEF IInv
  <2>4. ScreenFits
    BY <1>10 DEF PInv
  <2>5. ASSUME NEW d \in Crtc, crtc'[d].enabled
        PROVE  Fits(crtc'[d].cur, scanout.size)
    <3>1. CASE d = c
      BY <1>3, <1>7, <1>9, <3>1
    <3>2. CASE d # c
      BY <1>4, <1>9, <2>1, <2>4, <2>5, <3>2 DEF ScreenFits
    <3> QED BY <3>1, <3>2
  <2> QED BY <1>3, <2>1, <2>2, <2>3, <2>4, <2>5 DEF ScreenFits
<1>12. kms'[c] = w /\ out'[c]
  BY <1>3, <1>4 DEF IInv, TypeOK
<1>13. ASSUME NEW d \in Crtc \ {c}, Promised(d)'
       PROVE  Promised(d) /\ kms'[d] = kms[d] /\ out'[d] = out[d]
  <2>1. crtc'[c].good # None
    BY <1>4, <1>7, <1>9, NoneIs
  <2>2. hit = "none"
    BY <1>3, <1>4, <1>13, <2>1 DEF Promised, Only
  <2> QED BY <1>3, <1>4, <2>2 DEF Promised, IInv, TypeOK
<1>14. /\ q \in CrtcRec /\ q.enabled = crtc[c].enabled /\ q.dpms = Dpms(c)
       /\ kms'[c] = q.good /\ out'[c] /\ Return(c, TRUE) /\ TRUE \in BOOLEAN
  BY <1>3, <1>7, <1>12
<1> QED BY <1>1, <1>8, <1>10, <1>11, <1>13, <1>14, SetShows

\* With memory enough, a resize succeeds.
LEMMA ResizeClean ==
  ASSUME NEW bo \in Bo, NEW size \in Size, NEW r \in ResizeScanoutBo(bo, size),
         "nomem" \notin r.met
  PROVE  r.ok /\ r.bo.size = size /\ r.met = {}
<1>1. \/ r = Outcome(TRUE, bo, FALSE, {}) /\ size = bo.size
      \/ r = Outcome(TRUE, [size |-> size, room |-> size, fb |-> TRUE], TRUE, {})
      \/ r = Outcome(FALSE, bo, FALSE, {"nomem"})
      \/ r \in ResizeInPlace(bo, size)
  BY DEF ResizeScanoutBo
<1>2. r \notin ResizeInPlace(bo, size)
  <2>1. ASSUME NEW ok, NEW b, NEW dark, r = Outcome(ok, b, dark, {"nomem"})
        PROVE  FALSE
    BY <2>1 DEF Outcome
  <2> QED BY <2>1 DEF ResizeInPlace
<1>3. CASE r = Outcome(TRUE, bo, FALSE, {}) /\ size = bo.size
  BY <1>3 DEF Outcome
<1>4. CASE r = Outcome(TRUE, [size |-> size, room |-> size, fb |-> TRUE], TRUE, {})
  BY <1>4 DEF Outcome
<1>5. CASE r = Outcome(FALSE, bo, FALSE, {"nomem"})
  BY <1>5 DEF Outcome
<1> QED BY <1>1, <1>2, <1>3, <1>4, <1>5

LEMMA ModeRefusedShows ==
  ASSUME IInv, PInv, job.todo # {}, ModeRefused(NextCrtc)
  PROVE  PInv'
<1>1. PICK c : c = NextCrtc
  OBVIOUS
<1>2. c \in Crtc /\ Want(c) \in Setting
  BY <1>1, NextCrtcIs
<1>3. PICK k \in NotTaken(c, Want(c)), met \in SUBSET ({"set"} \cap Env) :
        /\ met = {} => k = kms /\ ~Fits(Want(c), scanout.size)
        /\ Return(c, FALSE) /\ Cleanup(c) /\ UNCHANGED <<screen, monitors>>
        /\ \/ NothingToRevert(c, k) /\ Meet(met)
           \/ /\ crtc[c].good # None
              /\ \E r \in ResizeScanoutBo(WithFb, crtc[c].good.mode),
                    again \in SUBSET ({"again"} \cap Env) :
                   RevertMode(c, k, r, again) /\ Meet(met \cup r.met \cup again)
  BY <1>1 DEF ModeRefused
<1>4. PICK q \in CrtcRec :
        /\ crtc' = [crtc EXCEPT ![c] = q] /\ q.enabled = crtc[c].enabled
        /\ q.good = crtc[c].good /\ q.dpms = Dpms(c)
  BY <1>1, <1>3, CleanupIs
<1>5. \A d \in Crtc : crtc'[d].good = crtc[d].good
  BY <1>2, <1>4 DEF IInv, TypeOK
<1>6. SUFFICES ASSUME hit' # "more"
               PROVE  PInv'
  BY DEF PInv
<1>7. hit \in {"none", "set", "more"} /\ out \in [Crtc -> BOOLEAN]
  BY DEF IInv, TypeOK
<1>8. /\ hit' = "set" /\ hit # "more"
      /\ \/ NothingToRevert(c, k)
         \/ /\ crtc[c].good # None
            /\ \E r \in ResizeScanoutBo(WithFb, crtc[c].good.mode) :
                 "nomem" \notin r.met /\ RevertMode(c, k, r, {})
  <2>1. \/ NothingToRevert(c, k) /\ Meet(met)
        \/ \E r \in ResizeScanoutBo(WithFb, crtc[c].good.mode),
              again \in SUBSET ({"again"} \cap Env) :
             /\ crtc[c].good # None
             /\ RevertMode(c, k, r, again) /\ Meet(met \cup r.met \cup again)
    BY <1>3
  <2>2. met = {} => hit # "none" \/ hit = "more"
    <3>1. hit = "none" => Fits(Want(c), scanout.size)
      BY <1>1, WantFits
    <3> QED BY <1>3, <3>1
  <2>3. CASE NothingToRevert(c, k) /\ Meet(met)
    BY <1>6, <1>7, <2>2, <2>3, MeetIs
  <2>4. ASSUME NEW r \in ResizeScanoutBo(WithFb, crtc[c].good.mode),
               NEW again \in SUBSET ({"again"} \cap Env), crtc[c].good # None,
               RevertMode(c, k, r, again), Meet(met \cup r.met \cup again)
        PROVE  /\ hit' = "set" /\ hit # "more" /\ "nomem" \notin r.met /\ again = {}
    <3>1. PICK S : S = met \cup r.met \cup again
      OBVIOUS
    <3>2. /\ hit # "more" /\ S \subseteq {"set"} /\ hit' \in {"none", "set"}
          /\ hit' = "none" => hit = "none" /\ S = {}
      BY <1>6, <1>7, <2>4, <3>1, MeetIs
    <3>3. again = {} /\ "nomem" \notin r.met /\ (S = {} => met = {})
      BY <3>1, <3>2
    <3> QED BY <2>2, <3>2, <3>3
  <2> QED BY <2>1, <2>3, <2>4
<1>9. ScreenFits'
  BY <1>8 DEF ScreenFits
<1>10. ASSUME Promised(c)'
       PROVE  kms'[c] = q.good /\ out'[c]
  <2>1. crtc[c].good # None /\ crtc[c].good.x = 0
    BY <1>2, <1>5, <1>8, <1>10 DEF Promised, Only
  <2>2. PICK r \in ResizeScanoutBo(WithFb, crtc[c].good.mode) :
          "nomem" \notin r.met /\ RevertMode(c, k, r, {})
    BY <1>8, <2>1 DEF NothingToRevert
  <2>3. PICK g : g = crtc[c].good
    OBVIOUS
  <2>4. g \in Setting /\ g.mode \in Size /\ g.mode \in Nat /\ g.x = 0
    BY <1>2, <2>1, <2>3, CrtcFields, ModesAssumption DEF IInv, TypeOK, Setting
  <2>5. r.ok /\ r.bo.size = g.mode
    BY <2>2, <2>3, <2>4, ResizeClean, WithFbIs DEF IInv
  <2>6. Fits(g, r.bo.size)
    BY <2>4, <2>5 DEF Fits
  <2>7. PICK left : left = IF r.dark THEN AllDark ELSE k
    OBVIOUS
  <2>8. /\ kms' = [left EXCEPT ![c] = g]
        /\ out' = [out EXCEPT ![c] = @ \/ r.ok \/ job.kind = "dpms"]
    BY <2>2, <2>3, <2>5, <2>6, <2>7 DEF RevertMode
  <2>9. c \in DOMAIN left
    BY <1>2, <1>3, <2>7, NotTakenIs DEF AllDark
  <2> QED BY <1>2, <1>4, <1>7, <2>3, <2>5, <2>8, <2>9
<1>11. ASSUME NEW d \in Crtc \ {c}, Promised(d)'
       PROVE  Promised(d) /\ kms'[d] = kms[d] /\ out'[d] = out[d]
  <2>1. Only(d)'
    BY <1>8, <1>11 DEF Promised
  <2>2. Only(d) /\ crtc[c].good = None
    BY <1>2, <1>5, <2>1 DEF Only
  <2>3. kms' = k /\ out' = OutputsOn(c)
    BY <1>8, <2>2 DEF NothingToRevert
  <2>4. Promised(d)
    BY <1>7, <1>8, <2>2 DEF Promised
  <2>5. out'[d] = out[d]
    BY <1>2, <1>7, <2>3 DEF OutputsOn
  <2>6. k[d] = kms[d]
    BY <1>2, <1>3 DEF NotTaken, IInv, TypeOK
  <2> QED BY <2>3, <2>4, <2>5, <2>6
<1> QED BY <1>1, <1>3, <1>4, <1>8, <1>9, <1>10, <1>11, SetShows

LEMMA SetModeMajorShows ==
  ASSUME IInv, PInv, SetModeMajor
  PROVE  PInv'
<1>1. hit \in {"none", "set", "more"}
  BY DEF IInv, TypeOK
<1>2. ASSUME Meet({"nomem"})
      PROVE  PInv'
  BY <1>1, <1>2, MeetIs DEF PInv
<1>3. job.todo # {}
  BY DEF SetModeMajor
<1>4. CASE NoFramebuffer(NextCrtc)
  BY <1>2, <1>4 DEF NoFramebuffer
<1>5. CASE NoMemory(NextCrtc)
  BY <1>2, <1>5 DEF NoMemory
<1> QED BY <1>3, <1>4, <1>5, ModeTakenShows, ModeRefusedShows DEF SetModeMajor

LEMMA PromisedSame ==
  ASSUME \A d \in Crtc : crtc'[d].good = crtc[d].good, hit' = hit, NEW c \in Crtc
  PROVE  Promised(c)' <=> Promised(c)
BY DEF Promised, Only

LEMMA CrtcSetShows ==
  ASSUME IInv, PInv, NEW c \in Crtc, NEW s \in Setting, CrtcSet(c, s)
  PROVE  PInv'
<1>1. /\ Quiet /\ Fits(s, screen)
      /\ crtc' = [crtc EXCEPT ![c].enabled = TRUE, ![c].cur = s]
      /\ job' = [kind |-> "set", of |-> c, todo |-> {c}, want |-> s,
                 saved |-> crtc[c], ret |-> FALSE]
      /\ UNCHANGED <<kms, out, scanout, virtual, screen, monitors, hit>>
  BY DEF CrtcSet
<1>2. PICK q : q = [crtc[c] EXCEPT !.enabled = TRUE, !.cur = s]
  OBVIOUS
<1>3. crtc \in [Crtc -> CrtcRec] /\ crtc[c] \in CrtcRec
  BY DEF IInv, TypeOK
<1>4. q.enabled = TRUE /\ q.good = crtc[c].good /\ q.dpms = crtc[c].dpms
  BY <1>2, <1>3 DEF CrtcRec
<1>5. crtc' = [crtc EXCEPT ![c] = q]
  BY <1>1, <1>2
<1>6. crtc'[c] = q /\ \A d \in Crtc \ {c} : crtc'[d] = crtc[d]
  BY <1>3, <1>5
<1>7. /\ job'.kind = "set" /\ job'.of = c /\ job'.todo = {c} /\ job'.want = s
      /\ job'.saved = crtc[c]
  BY <1>1
<1>8. SUFFICES ASSUME hit # "more", ScreenFits, SavedKept, GoodShown
               PROVE  PInv'
  BY <1>1 DEF PInv
<1>9. job.kind = "none" /\ job.todo = {}
  BY <1>1, QuietIs
<1>10. ScreenFits'
  <2>1. SUFFICES ASSUME hit = "none"
                 PROVE  ScreenFits'
    BY <1>1 DEF ScreenFits
  <2>2. /\ screen = scanout.size /\ virtual = scanout.size
        /\ \A d \in Crtc : crtc[d].enabled => Fits(crtc[d].cur, scanout.size)
    BY <1>8, <1>9, <2>1 DEF ScreenFits
  <2> QED BY <1>1, <1>6, <1>7, <2>2 DEF ScreenFits
<1>11. SavedKept'
  BY <1>4, <1>6, <1>7 DEF SavedKept
<1>12. GoodShown'
  <2>1. \A d \in Crtc : crtc'[d].good = crtc[d].good
    BY <1>4, <1>6
  <2>2. ASSUME NEW d \in Crtc \ {c}, CrtcOn(d)', Promised(d)'
        PROVE  kms[d] = crtc'[d].good /\ out[d]
    <3>1. CrtcOn(d) /\ Promised(d)
      BY <1>1, <1>6, <2>1, <2>2, PromisedSame DEF CrtcOn
    <3> QED BY <1>6, <1>8, <1>9, <2>2, <3>1 DEF GoodShown
  <2> QED BY <1>1, <1>7, <2>2 DEF GoodShown
<1> QED BY <1>10, <1>11, <1>12 DEF PInv

\* CRTCs that are turned off count as off, and the others are as before.
LEMMA CrtcDpmsOffKeeps ==
  ASSUME TypeOK, NEW crtcs \in [Crtc -> CrtcRec], NEW S, NEW stuck,
         CrtcDpmsOff(crtcs, S, stuck), hit' # "more"
  PROVE  /\ hit' = hit
         /\ \A c \in Crtc \ S : /\ crtc'[c] = crtcs[c] /\ kms'[c] = kms[c]
                                /\ out'[c] = out[c]
         /\ \A c \in S \cap Crtc : crtc'[c].dpms = "off"
<1>1. /\ crtc' = [c \in Crtc |-> IF c \in S THEN [crtcs[c] EXCEPT !.dpms = "off"]
                                 ELSE crtcs[c]]
      /\ kms' = [c \in Crtc |-> IF c \in S \ stuck THEN None ELSE kms[c]]
      /\ out' = [c \in Crtc |-> out[c] /\ c \notin S]
      /\ Meet(IF stuck = {} THEN {} ELSE {"dpms"})
  BY DEF CrtcDpmsOff
<1>2. hit \in {"none", "set", "more"} /\ out \in [Crtc -> BOOLEAN]
  BY DEF TypeOK
<1>3. stuck = {}
  BY <1>1, <1>2, MeetIs
<1>4. hit' = hit
  BY <1>1, <1>3 DEF Meet
<1>5. ASSUME NEW c \in Crtc \ S
      PROVE  crtc'[c] = crtcs[c] /\ kms'[c] = kms[c] /\ out'[c] = out[c]
  BY <1>1, <1>2
<1>6. ASSUME NEW c \in S \cap Crtc
      PROVE  crtc'[c].dpms = "off"
  <2>1. crtc'[c] = [crtcs[c] EXCEPT !.dpms = "off"] /\ crtcs[c] \in CrtcRec
    BY <1>1
  <2> QED BY <2>1 DEF CrtcRec
<1> QED BY <1>4, <1>5, <1>6

\* Turning CRTCs off outside a call, with records that are the old ones but
\* for CRTCs not in use.
LEMMA DpmsOffKeepsShown ==
  ASSUME IInv, PInv, NEW crtcs \in [Crtc -> CrtcRec], NEW S, NEW stuck,
         CrtcDpmsOff(crtcs, S, stuck), job.todo = {}, job' = NoJob,
         \A d \in Crtc : /\ crtcs[d].good = crtc[d].good
                         /\ crtcs[d].enabled => crtcs[d] = crtc[d],
         UNCHANGED <<scanout, virtual, screen>>
  PROVE  PInv'
<1>1. SUFFICES ASSUME hit' # "more"
               PROVE  PInv'
  BY DEF PInv
<1>2. /\ hit' = hit
      /\ \A c \in Crtc \ S : /\ crtc'[c] = crtcs[c] /\ kms'[c] = kms[c]
                             /\ out'[c] = out[c]
      /\ \A c \in S \cap Crtc : crtc'[c].dpms = "off"
  BY <1>1, CrtcDpmsOffKeeps DEF IInv
<1>3. \A c \in Crtc : /\ crtc'[c].enabled = crtcs[c].enabled
                      /\ crtc'[c].cur = crtcs[c].cur
                      /\ crtc'[c].good = crtcs[c].good
  BY CrtcDpmsOffIs DEF IInv
<1>4. ScreenFits /\ GoodShown
  BY <1>1, <1>2 DEF PInv
<1>5. job'.kind = "none" /\ job'.want = None
  BY DEF NoJob
<1>6. ScreenFits'
  <2>1. SUFFICES ASSUME hit = "none"
                 PROVE  ScreenFits'
    BY <1>2 DEF ScreenFits
  <2>2. \A d \in Crtc : crtc[d].enabled => Fits(crtc[d].cur, scanout.size)
    BY <1>4, <2>1 DEF ScreenFits
  <2> QED BY <1>3, <1>4, <1>5, <2>1, <2>2 DEF ScreenFits
<1>7. GoodShown'
  <2>1. ASSUME NEW d \in Crtc, CrtcOn(d)', Promised(d)'
        PROVE  kms'[d] = crtc'[d].good /\ out'[d]
    <3>1. d \notin S
      BY <1>2, <2>1 DEF CrtcOn
    <3>2. crtc'[d] = crtc[d] /\ kms'[d] = kms[d] /\ out'[d] = out[d]
      BY <1>2, <2>1, <3>1 DEF CrtcOn
    <3>3. CrtcOn(d) /\ Promised(d)
      BY <1>2, <1>3, <2>1, <3>2, PromisedSame DEF CrtcOn
    <3> QED BY <1>4, <3>2, <3>3 DEF GoodShown
  <2> QED BY <2>1 DEF GoodShown
<1> QED BY <1>5, <1>6, <1>7 DEF PInv, SavedKept

LEMMA CrtcSetEndsShows ==
  ASSUME IInv, PInv, CrtcSetEnds
  PROVE  PInv'
<1>1. /\ job.kind = "set" /\ job.todo = {} /\ job' = NoJob
      /\ \/ job.ret /\ DisableUnused(crtc)
         \/ /\ ~job.ret
            /\ crtc' = [crtc EXCEPT ![job.of] = job.saved]
            /\ UNCHANGED <<kms, out, hit>>
      /\ UNCHANGED <<scanout, virtual, screen, monitors>>
  BY DEF CrtcSetEnds
<1>2. crtc \in [Crtc -> CrtcRec]
  BY DEF IInv, TypeOK
<1>3. CASE job.ret /\ DisableUnused(crtc)
  <2>1. PICK S, stuck : CrtcDpmsOff(crtc, S, stuck)
    BY <1>3 DEF DisableUnused
  <2> QED BY <1>1, <1>2, <2>1, DpmsOffKeepsShown
<1>4. CASE ~job.ret /\ crtc' = [crtc EXCEPT ![job.of] = job.saved] /\ UNCHANGED <<kms, out, hit>>
  <2>1. PICK c : c = job.of
    OBVIOUS
  <2>2. PICK q : q = job.saved
    OBVIOUS
  <2>3. c \in Crtc
    BY <1>1, <2>1 DEF IInv, JobOK
  <2>4. crtc'[c] = q /\ \A d \in Crtc \ {c} : crtc'[d] = crtc[d]
    BY <1>2, <1>4, <2>1, <2>2, <2>3
  <2>5. SUFFICES ASSUME hit # "more", ScreenFits, SavedKept, GoodShown
                 PROVE  PInv'
    BY <1>4 DEF PInv
  <2>6. crtc[c].enabled /\ crtc[c].dpms = q.dpms /\ crtc[c].good = q.good
    BY <1>1, <1>4, <2>1, <2>2, <2>5 DEF SavedKept
  <2>7. job'.kind = "none" /\ job'.want = None
    BY <1>1 DEF NoJob
  <2>8. ScreenFits'
    <3>1. SUFFICES ASSUME hit = "none"
                   PROVE  ScreenFits'
      BY <1>4 DEF ScreenFits
    <3>2. /\ \A d \in Crtc : crtc[d].enabled => Fits(crtc[d].cur, scanout.size)
          /\ q.enabled => Fits(q.cur, scanout.size)
      BY <1>1, <2>2, <2>5, <3>1 DEF ScreenFits
    <3> QED BY <1>1, <2>4, <2>5, <2>7, <3>1, <3>2 DEF ScreenFits
  <2>9. GoodShown'
    <3>1. ASSUME NEW d \in Crtc, CrtcOn(d)', Promised(d)'
          PROVE  kms[d] = crtc'[d].good /\ out[d]
      <4>1. CrtcOn(d) /\ crtc'[d].good = crtc[d].good
        BY <2>4, <2>6, <3>1 DEF CrtcOn
      <4>2. Promised(d)
        BY <1>4, <2>4, <2>6, <3>1, PromisedSame
      <4> QED BY <1>1, <2>5, <4>1, <4>2 DEF GoodShown
    <3> QED BY <1>4, <3>1 DEF GoodShown
  <2> QED BY <2>7, <2>8, <2>9 DEF PInv, SavedKept
<1> QED BY <1>1, <1>3, <1>4

LEMMA CrtcOffShows ==
  ASSUME IInv, PInv, NEW c \in Crtc, CrtcOff(c)
  PROVE  PInv'
<1>1. PICK crtcs : crtcs = [crtc EXCEPT ![c].enabled = FALSE, ![c].cur = None]
  OBVIOUS
<1>2. PICK q : q = [crtc[c] EXCEPT !.enabled = FALSE, !.cur = None]
  OBVIOUS
<1>3. crtc \in [Crtc -> CrtcRec] /\ crtc[c] \in CrtcRec
  BY DEF IInv, TypeOK
<1>4. q \in CrtcRec /\ ~q.enabled /\ q.good = crtc[c].good
  BY <1>2, <1>3 DEF CrtcRec
<1>5. crtcs = [crtc EXCEPT ![c] = q]
  BY <1>1, <1>2
<1>6. /\ crtcs \in [Crtc -> CrtcRec]
      /\ \A d \in Crtc : /\ crtcs[d].good = crtc[d].good
                         /\ crtcs[d].enabled => crtcs[d] = crtc[d]
  BY <1>3, <1>4, <1>5
<1>7. PICK S, stuck : CrtcDpmsOff(crtcs, S, stuck)
  BY <1>1 DEF CrtcOff, DisableUnused
<1>8. job.todo = {} /\ job' = NoJob /\ UNCHANGED <<scanout, virtual, screen>>
  BY QuietIs DEF CrtcOff, Quiet
<1> QED BY <1>6, <1>7, <1>8, DpmsOffKeepsShown

LEMMA DpmsOffShows ==
  ASSUME IInv, PInv, DpmsOff
  PROVE  PInv'
<1>1. PICK S, stuck : CrtcDpmsOff(crtc, S, stuck)
  BY DEF DpmsOff
<1>2. job.todo = {} /\ job' = NoJob /\ UNCHANGED <<scanout, virtual, screen>>
  BY QuietIs DEF DpmsOff, Quiet
<1>3. crtc \in [Crtc -> CrtcRec]
  BY DEF IInv, TypeOK
<1> QED BY <1>1, <1>2, <1>3, DpmsOffKeepsShown

LEMMA ResizeShows ==
  ASSUME IInv, PInv, NEW size \in Size, Resize(size)
  PROVE  PInv'
<1>1. PICK r \in ResizeScanoutBo(scanout, size) :
        /\ scanout' = r.bo
        /\ Meet(r.met)
        /\ screen' = IF r.ok THEN size ELSE screen
        /\ job' = IF r.ok /\ ToReset # {}
                  THEN [NoJob EXCEPT !.kind = "resize", !.todo = ToReset] ELSE NoJob
  BY DEF Resize
<1>2. /\ Quiet /\ virtual' = size /\ UNCHANGED <<crtc, out, monitors>>
      /\ \A c \in Enabled : Fits(crtc[c].cur, size)
  BY DEF Resize
<1>3. SUFFICES ASSUME hit' # "more"
               PROVE  PInv'
  BY DEF PInv
<1>4. /\ scanout \in Bo /\ hit \in {"none", "set", "more"}
  BY DEF IInv, TypeOK
<1>5. r.ok /\ r.bo.size = size
  <2>1. "nomem" \notin r.met
    BY <1>1, <1>3, <1>4, MeetIs
  <2> QED BY <1>4, <2>1, ResizeClean
<1>6. job'.todo = Enabled /\ job'.kind # "set" /\ job'.want = None
  <2>1. CASE Enabled = {}
    BY <1>1, <2>1 DEF ToReset, NoJob
  <2>2. CASE Enabled # {}
    <3>1. job' = [NoJob EXCEPT !.kind = "resize", !.todo = Enabled]
      BY <1>1, <1>5, <2>2 DEF ToReset
    <3> QED BY <3>1 DEF NoJob
  <2> QED BY <2>1, <2>2
<1>7. ScreenFits'
  BY <1>1, <1>2, <1>5, <1>6 DEF ScreenFits, Enabled
<1>8. GoodShown'
  BY <1>2, <1>6 DEF GoodShown, CrtcOn, Enabled
<1> QED BY <1>6, <1>7, <1>8 DEF PInv, SavedKept

\* A job that is only begun.
LEMMA NewJobShows ==
  ASSUME IInv, PInv, Quiet, job'.kind # "set",
         hit = "none" /\ job'.want # None => Fits(job'.want, scanout.size),
         UNCHANGED <<settings, screen, hit>>
  PROVE  PInv'
<1>1. job.kind = "none" /\ job.todo = {}
  BY QuietIs
<1>2. UNCHANGED <<crtc, kms, out, scanout, virtual>>
  BY DEF settings
<1>3. SUFFICES ASSUME hit # "more", ScreenFits, GoodShown
               PROVE  PInv'
  BY DEF PInv
<1>4. ScreenFits'
  BY <1>1, <1>2, <1>3 DEF ScreenFits
<1>5. GoodShown'
  BY <1>1, <1>2, <1>3 DEF GoodShown, CrtcOn, Promised, Only
<1> QED BY <1>4, <1>5 DEF PInv, SavedKept

LEMMA DpmsOnShows ==
  ASSUME IInv, PInv, DpmsOn
  PROVE  PInv'
<1>1. /\ Quiet /\ job' = [NoJob EXCEPT !.kind = "dpms", !.todo = Enabled]
      /\ UNCHANGED <<settings, screen, hit>>
  BY DEF DpmsOn
<1>2. job'.kind = "dpms" /\ job'.want = None
  BY <1>1 DEF NoJob
<1> QED BY <1>1, <1>2, NewJobShows

LEMMA AdjustFrameShows ==
  ASSUME IInv, PInv, NEW c \in Crtc, NEW x \in 0..virtual, AdjustFrame(c, x)
  PROVE  PInv'
<1>1. PICK s : s = [crtc[c].cur EXCEPT !.x = x]
  OBVIOUS
<1>2. /\ Quiet /\ Fits(s, virtual)
      /\ job' = [NoJob EXCEPT !.kind = "pan", !.todo = {c}, !.want = s]
      /\ UNCHANGED <<settings, screen, hit>>
  BY <1>1 DEF AdjustFrame
<1>3. job'.kind = "pan" /\ job'.want = s
  BY <1>2 DEF NoJob
<1>4. hit = "none" => virtual = scanout.size
  BY DEF PInv, ScreenFits
<1> QED BY <1>2, <1>3, <1>4, NewJobShows

LEMMA OthersShow ==
  ASSUME PInv, UNCHANGED <<settings, screen, job, hit>>
  PROVE  PInv'
BY DEF PInv, ScreenFits, SavedKept, GoodShown, CrtcOn, Promised, Only, settings

LEMMA InitShows ==
  ASSUME Init
  PROVE  PInv
<1>1. /\ \A c \in Crtc : ~crtc[c].enabled
      /\ scanout.size = InitSize
  BY DEF Init, NewCrtc
<1> QED BY <1>1, NoJobIs DEF Init, NoJob, PInv, ScreenFits, SavedKept, GoodShown, CrtcOn

LEMMA NextShows ==
  ASSUME IInv, PInv, Next
  PROVE  PInv'
<1>1. CASE SetModeMajor
  BY <1>1, SetModeMajorShows
<1>2. ASSUME NEW c \in Crtc, NEW m \in Size, NEW x \in 0..screen,
             CrtcSet(c, [mode |-> m, x |-> x])
      PROVE  PInv'
  <2>1. x \in Nat
    BY ModesAssumption DEF IInv, TypeOK
  <2>2. [mode |-> m, x |-> x] \in Setting
    BY <2>1 DEF Setting
  <2> QED BY <1>2, <2>2, CrtcSetShows
<1>3. ASSUME NEW c \in Crtc, CrtcOff(c)
      PROVE  PInv'
  BY <1>3, CrtcOffShows
<1>4. ASSUME NEW c \in Crtc, NEW x \in 0..virtual, AdjustFrame(c, x)
      PROVE  PInv'
  BY <1>4, AdjustFrameShows
<1>5. ASSUME NEW c \in Crtc, Plug(c)
      PROVE  PInv'
  BY <1>5, OthersShow DEF Plug
<1>6. CASE CrtcSetEnds
  BY <1>6, CrtcSetEndsShows
<1>7. ASSUME NEW size \in Size, Resize(size)
      PROVE  PInv'
  BY <1>7, ResizeShows
<1>8. CASE DpmsOff
  BY <1>8, DpmsOffShows
<1>9. CASE DpmsOn
  BY <1>9, DpmsOnShows
<1>10. CASE HandleUevents
  BY <1>10, OthersShow DEF HandleUevents
<1>11. CASE OtherUevent
  BY <1>11, OthersShow DEF OtherUevent
<1> QED BY <1>1, <1>2, <1>3, <1>4, <1>5, <1>6, <1>7, <1>8, <1>9, <1>10, <1>11 DEF Next

-----------------------------------------------------------------------------
(* Theorems                                                                *)

\* Every behaviour keeps the inductive invariant, whatever the kernel refuses.
THEOREM Invariance == Spec => []IInv
<1>1. Init => IInv
  BY InitInv
<1>2. IInv /\ [Next]_vars => IInv'
  BY NextInv, StutterInv
<1> QED BY <1>1, <1>2, PTL DEF Spec

\* The records of the CRTCs, of the scanout and of the job have their types.
THEOREM TypeCorrect == Spec => []TypeOK
<1>1. IInv => TypeOK
  BY DEF IInv
<1> QED BY <1>1, Invariance, PTL

\* Between the server's jobs a CRTC in use has the mode and position that the
\* kernel took last, whatever failed.
THEOREM FieldsCorrect == Spec => []FieldsAreGood
<1>1. ASSUME IInv
      PROVE  FieldsAreGood
  BY <1>1, QuietIs DEF FieldsAreGood, Enabled
<1> QED BY <1>1, Invariance, PTL

\* No CRTC shows pixels outside the shared scanout, or a scanout without fb.
THEOREM ShownCorrect == Spec => []ShownFits
<1>1. IInv => ShownFits
  BY DEF IInv
<1> QED BY <1>1, Invariance, PTL

LEMMA ShownInvariance == Spec => []PInv
<1>1. Init => PInv
  BY InitShows
<1>2. ASSUME PInv, UNCHANGED vars
      PROVE  PInv'
  BY <1>2, OthersShow DEF vars
<1>3. IInv /\ PInv /\ [Next]_vars => PInv'
  BY <1>2, NextShows
<1> QED BY <1>1, <1>3, Invariance, PTL DEF Spec

\* A CRTC that counts as on shows its mode with its outputs on, as long as
\* nothing failed, or nothing but mode sets, of the only display at the origin.
THEOREM ModeIsShown == Spec => []OnShowsItsMode
<1>1. ASSUME IInv, PInv
      PROVE  OnShowsItsMode
  <2>1. SUFFICES ASSUME Quiet, NEW c \in Crtc, CrtcOn(c),
                        hit = "none" \/ (hit = "set" /\ OnlyDisplay(c))
                 PROVE  kms[c] = crtc[c].cur /\ out[c]
    BY DEF OnShowsItsMode
  <2>2. job.todo = {} /\ crtc[c].cur \in Setting /\ crtc[c].cur = crtc[c].good
    BY <1>1, <2>1, QuietIs DEF CrtcOn
  <2>3. Promised(c)
    BY <2>1, <2>2, NoneIs DEF Promised, Only, OnlyDisplay
  <2>4. GoodShown
    BY <1>1, <2>1 DEF PInv
  <2> QED BY <2>1, <2>2, <2>3, <2>4 DEF GoodShown
<1> QED BY <1>1, Invariance, ShownInvariance, PTL
=============================================================================
