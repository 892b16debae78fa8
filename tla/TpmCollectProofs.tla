-------------------------- MODULE TpmCollectProofs --------------------------
(***************************************************************************)
(* Proofs about TpmCollect: for any number of collectors, slots, PCR       *)
(* extensions and renewals, a measurement is of one state of the platform  *)
(* and no error path leaves a key in the TPM.                              *)
(***************************************************************************)
EXTENDS TpmCollect, TLAPS

Fields == {"pc", "req", "local", "out", "chain", "handle", "quote", "moved", "outcome"}

(* c is a record per collector. *)
Shape ==
    /\ c = [p \in Proc |-> c[p]]
    /\ \A p \in Proc : c[p] = [f \in Fields |-> c[p][f]]
    /\ pcr \in Nat
    /\ loaded \subseteq Slot

(* A key is held only while it is used. *)
HandleInv(k) == k.pc \notin {"quote", "flush"} => k.handle = None

(* What a collector knows of the PCRs: those it read are not newer than    *)
(* those now, and older than those quoted if they moved meanwhile.         *)
PcrInv(k, now) ==
    /\ k.local # None => k.local \in Nat /\ k.local <= now
    /\ k.pc \in {"open", "pcrs"} => k.local = None /\ ~k.moved
    /\ k.pc \notin {"flush", "check", "idle"} => k.quote = None
    /\ k.pc = "check" => k.quote # None
    /\ k.moved => /\ k.local \in Nat
                  /\ IF k.quote = None THEN k.local < now ELSE k.local < k.quote.pcr
    /\ k.outcome = "report" => k.pc = "idle" /\ k.quote # None /\ k.quote.pcr = k.local

(* The inductive invariant. *)
CollectInv == Shape /\ \A p \in Proc : HandleInv(c[p]) /\ PcrInv(c[p], pcr)

LEMMA IdleInv == Idle = [f \in Fields |-> Idle[f]] /\ HandleInv(Idle) /\ \A n : PcrInv(Idle, n)
BY DEF Idle, Fields, HandleInv, PcrInv

LEMMA InitCollectInv == Init => CollectInv
<1> SUFFICES ASSUME Init PROVE CollectInv
  OBVIOUS
<1>1. \A p \in Proc : c[p] = Idle
  BY DEF Init
<1>2. Shape
  BY <1>1, IdleInv DEF Init, Shape
<1> QED BY <1>1, <1>2, IdleInv DEF CollectInv

(* A step that changes what p knows and what nobody else does. *)
Touches(p) ==
    /\ c' = [q \in Proc |-> c'[q]]
    /\ \A q \in Proc : q # p => c'[q] = c[q]
    /\ c'[p] = [f \in Fields |-> c'[p][f]]

(* A step of one collector that keeps its own invariant keeps all. *)
LEMMA OneCollector ==
    ASSUME CollectInv, NEW p \in Proc, Touches(p), HandleInv(c'[p]), PcrInv(c'[p], pcr),
           UNCHANGED pcr, loaded' \subseteq Slot
    PROVE  CollectInv'
<1>1. Shape'
  BY DEF CollectInv, Shape, Touches
<1>2. \A q \in Proc : HandleInv(c'[q]) /\ PcrInv(c'[q], pcr')
  BY DEF CollectInv, Touches
<1> QED BY <1>1, <1>2 DEF CollectInv

LEMMA AttestCollectInv ==
    ASSUME CollectInv, NEW p \in Proc, NEW r \in Request, Attest(p, r)
    PROVE  CollectInv'
<1>1. Touches(p)
  BY ZenonT(30) DEF Attest, Idle, Fields, Touches, CollectInv, Shape
<1>2. /\ c'[p].pc \in {"open", "idle"} /\ c'[p].handle = None /\ c'[p].local = None
      /\ c'[p].quote = None /\ ~c'[p].moved /\ c'[p].outcome # "report"
  BY Zenon DEF Attest, Idle, CollectInv, Shape
<1>3. HandleInv(c'[p]) /\ PcrInv(c'[p], pcr)
  BY <1>2 DEF HandleInv, PcrInv
<1>4. UNCHANGED <<pcr, loaded>>
  BY DEF Attest
<1> QED BY <1>1, <1>3, <1>4, OneCollector DEF CollectInv, Shape

(* What Raise does to a collector. *)
LEMMA Raises ==
    ASSUME CollectInv, NEW p \in Proc, NEW e, Raise(p, e)
    PROVE  /\ c'[p].pc = "idle" /\ c'[p].outcome = e /\ c'[p].handle = c[p].handle
           /\ c'[p].local = c[p].local /\ c'[p].quote = c[p].quote /\ c'[p].moved = c[p].moved
           /\ c'[p].req = c[p].req /\ c'[p].chain = c[p].chain /\ c'[p].out = c[p].out
<1>1. c[p] = [f \in Fields |-> c[p][f]] /\ p \in DOMAIN c
  BY DEF CollectInv, Shape
<1>2. c'[p] = [c[p] EXCEPT !.pc = "idle", !.outcome = e]
  BY Zenon, <1>1 DEF Raise
<1> QED BY <1>1, <1>2 DEF Fields

(* The labels between the read of the PCRs and the choice of a key. *)
Choosing == {"nv", "nvread", "public", "leaf", "aia", "fetch", "certify", "create"}

LEMMA ChoosingCollectInv ==
    ASSUME CollectInv, NEW p \in Proc,
           \/ NvPublic(p) \/ NvRead(p) \/ NvReadFails(p) \/ ReadPublic(p) \/ LoadLeaf(p)
           \/ WalkAia(p) \/ FollowAia(p)
    PROVE  CollectInv'
<1> USE DEF At, Goto
<1>1. c[p] = [f \in Fields |-> c[p][f]] /\ HandleInv(c[p]) /\ PcrInv(c[p], pcr)
  BY DEF CollectInv, Shape
<1>2. Touches(p)
  BY ZenonT(30), <1>1 DEF NvPublic, NvRead, NvReadFails, ReadPublic, LoadLeaf, WalkAia, FollowAia, Touches,
     CollectInv, Shape
<1>3. /\ c'[p].handle = c[p].handle /\ c'[p].local = c[p].local
      /\ c'[p].quote = c[p].quote /\ c'[p].moved = c[p].moved /\ c'[p].outcome = c[p].outcome
      /\ c[p].pc \in Choosing /\ c'[p].pc \in Choosing
  <2> USE <1>1 DEF Fields, CollectInv, Shape, Choosing
  <2>1. CASE NvPublic(p)
    BY <2>1 DEF NvPublic
  <2>2. CASE NvRead(p)
    <3>1. c[p].pc = "nvread" /\ ((\E out : c' = [c EXCEPT ![p].out = out]) \/ Goto(p, "public"))
      BY Zenon, <2>2 DEF NvRead
    <3>2. CASE Goto(p, "public")
      BY ZenonT(30), <3>1, <3>2
    <3>3. CASE \E out : c' = [c EXCEPT ![p].out = out]
      <4>1. PICK out : c' = [c EXCEPT ![p].out = out]
        BY Zenon, <3>3
      <4>2. c'[p] = [c[p] EXCEPT !.out = out]
        BY Zenon, <4>1
      <4> QED BY ZenonT(30), <3>1, <4>2
    <3> QED BY Zenon, <3>1, <3>2, <3>3
  <2>3. CASE NvReadFails(p)
    BY <2>3 DEF NvReadFails
  <2>4. CASE ReadPublic(p)
    BY <2>4 DEF ReadPublic
  <2>5. CASE LoadLeaf(p)
    <3>1. CASE Goto(p, "create")
      BY Zenon, <2>5, <3>1 DEF LoadLeaf
    <3>2. CASE \E chain : c' = [c EXCEPT ![p].chain = chain, ![p].pc = "aia"]
      <4>1. PICK chain : c' = [c EXCEPT ![p].chain = chain, ![p].pc = "aia"]
        BY Zenon, <3>2
      <4>2. c'[p] = [c[p] EXCEPT !.chain = chain, !.pc = "aia"]
        BY Zenon, <4>1
      <4> QED BY ZenonT(30), <2>5, <4>2 DEF LoadLeaf
    <3> QED BY Zenon, <2>5, <3>1, <3>2 DEF LoadLeaf
  <2>6. CASE FollowAia(p)
    <3>1. CASE Goto(p, "certify")
      BY Zenon, <2>6, <3>1 DEF FollowAia
    <3>2. CASE \E chain : c' = [c EXCEPT ![p].chain = chain, ![p].pc = "aia"]
      <4>1. PICK chain : c' = [c EXCEPT ![p].chain = chain, ![p].pc = "aia"]
        BY Zenon, <3>2
      <4>2. c'[p] = [c[p] EXCEPT !.chain = chain, !.pc = "aia"]
        BY Zenon, <4>1
      <4> QED BY ZenonT(30), <2>6, <4>2 DEF FollowAia
    <3> QED BY Zenon, <2>6, <3>1, <3>2 DEF FollowAia
  <2>7. CASE WalkAia(p)
    <3>1. CASE Goto(p, "fetch")
      BY Zenon, <2>7, <3>1 DEF WalkAia
    <3>2. CASE c' = [c EXCEPT ![p].chain = None, ![p].pc = "create"]
      BY Zenon, <2>7, <3>2 DEF WalkAia
    <3> QED BY Zenon, <2>7, <3>1, <3>2 DEF WalkAia
  <2> QED BY <2>1, <2>2, <2>3, <2>4, <2>5, <2>6, <2>7
<1>4. HandleInv(c'[p]) /\ PcrInv(c'[p], pcr)
  BY <1>1, <1>3 DEF HandleInv, PcrInv, Choosing
<1>5. UNCHANGED <<pcr, loaded>>
  BY Zenon DEF NvPublic, NvRead, NvReadFails, ReadPublic, LoadLeaf, WalkAia, FollowAia
<1> QED BY <1>2, <1>4, <1>5, OneCollector DEF CollectInv, Shape

LEMMA OpenCollectInv ==
    ASSUME CollectInv, NEW p \in Proc, Open(p)
    PROVE  CollectInv'
<1> USE DEF Open, At, Goto
<1>1. c[p] = [f \in Fields |-> c[p][f]] /\ HandleInv(c[p]) /\ PcrInv(c[p], pcr)
  BY DEF CollectInv, Shape
<1>2. Touches(p)
  BY <1>1 DEF Touches, Raise, CollectInv, Shape
<1>3. /\ c'[p].handle = c[p].handle /\ c'[p].local = c[p].local
      /\ c'[p].quote = c[p].quote /\ c'[p].moved = c[p].moved
      /\ \/ c'[p].pc = "pcrs" /\ c'[p].outcome = c[p].outcome
         \/ c'[p].pc = "idle" /\ c'[p].outcome # "report"
  <2>1. CASE Raise(p, "TSS2_Exception")
    BY <2>1, Raises
  <2>2. CASE Goto(p, "pcrs")
    BY <1>1, <2>2 DEF Fields, CollectInv, Shape
  <2> QED BY <2>1, <2>2
<1>4. HandleInv(c'[p]) /\ PcrInv(c'[p], pcr)
  BY <1>1, <1>3 DEF HandleInv, PcrInv
<1> QED BY <1>2, <1>4, OneCollector DEF CollectInv, Shape

LEMMA ReadPcrsCollectInv ==
    ASSUME CollectInv, NEW p \in Proc, ReadPcrs(p)
    PROVE  CollectInv'
<1> USE DEF ReadPcrs, At
<1>1. c[p] = [f \in Fields |-> c[p][f]] /\ HandleInv(c[p]) /\ PcrInv(c[p], pcr)
  BY DEF CollectInv, Shape
<1>2. Touches(p)
  BY <1>1 DEF Touches, Raise, CollectInv, Shape
<1>3. /\ c'[p].handle = c[p].handle
      /\ c'[p].quote = c[p].quote /\ c'[p].moved = c[p].moved
      /\ \/ c'[p].pc = "nv" /\ c'[p].local = pcr /\ c'[p].outcome = c[p].outcome
         \/ c'[p].pc = "idle" /\ c'[p].local = c[p].local /\ c'[p].outcome # "report"
  <2>1. CASE \E e \in {"AttestationUnsupported", "AttestationFailed"} : Raise(p, e)
    BY <2>1, Raises
  <2>2. CASE c' = [c EXCEPT ![p].local = pcr, ![p].pc = "nv"]
    <3>1. c'[p] = [c[p] EXCEPT !.local = pcr, !.pc = "nv"]
      BY <2>2 DEF CollectInv, Shape
    <3> QED BY <1>1, <3>1 DEF Fields
  <2> QED BY <2>1, <2>2
<1>4. pcr \in Nat
  BY DEF CollectInv, Shape
<1>5. HandleInv(c'[p]) /\ PcrInv(c'[p], pcr)
  BY <1>1, <1>3, <1>4 DEF HandleInv, PcrInv
<1> QED BY <1>2, <1>5, OneCollector DEF CollectInv, Shape

(* The platform key or a fresh one is chosen. *)
LEMMA ChosenCollectInv ==
    ASSUME CollectInv, NEW p \in Proc, Certifies(p) \/ CreateKey(p)
    PROVE  CollectInv'
<1> USE DEF Certifies, CreateKey, At
<1>1. c[p] = [f \in Fields |-> c[p][f]] /\ HandleInv(c[p]) /\ PcrInv(c[p], pcr)
  BY ZenonT(30) DEF CollectInv, Shape
<1>2. Touches(p)
  BY ZenonT(30), <1>1 DEF Touches, Raise, CollectInv, Shape
<1>3. /\ c'[p].local = c[p].local /\ c'[p].quote = c[p].quote /\ c'[p].moved = c[p].moved
      /\ c[p].pc \in {"aia", "certify", "create"}
      /\ \/ c'[p].pc = "quote" /\ c'[p].outcome = c[p].outcome
         \/ c'[p].pc = "create" /\ c'[p].handle = c[p].handle /\ c'[p].outcome = c[p].outcome
         \/ c'[p].pc = "idle" /\ c'[p].handle = c[p].handle /\ c'[p].outcome # "report"
  <2> USE <1>1 DEF Fields, CollectInv, Shape
  <2>1. CASE Certifies(p)
    BY Zenon, <2>1
  <2>2. CASE CreateKey(p)
    <3>1. CASE Raise(p, "AttestationFailed")
      <4> HIDE DEF CollectInv, Shape, Fields
      <4> QED BY <2>2, <3>1, Raises
    <3>2. CASE \E s \in Slot \ loaded : c' = [c EXCEPT ![p].handle = s, ![p].pc = "quote"]
      <4>1. PICK s \in Slot \ loaded : c' = [c EXCEPT ![p].handle = s, ![p].pc = "quote"]
        BY ZenonT(30), <3>2
      <4>2. c'[p] = [c[p] EXCEPT !.handle = s, !.pc = "quote"]
        BY Zenon, <4>1
      <4> QED BY ZenonT(30), <2>2, <4>2
    <3> QED BY Zenon, <2>2, <3>1, <3>2
  <2> QED BY Zenon, <2>1, <2>2
<1>4. HandleInv(c'[p]) /\ PcrInv(c'[p], pcr)
  BY <1>1, <1>3, Zenon DEF HandleInv, PcrInv
<1> QED BY ZenonT(30), <1>2, <1>4, OneCollector DEF CollectInv, Shape

LEMMA QuoteCollectInv ==
    ASSUME CollectInv, NEW p \in Proc, Quote(p)
    PROVE  CollectInv'
<1> USE DEF Quote, At
<1>1. c[p] = [f \in Fields |-> c[p][f]] /\ HandleInv(c[p]) /\ PcrInv(c[p], pcr)
  BY DEF CollectInv, Shape
<1>2. Touches(p)
  BY <1>1 DEF Touches, Raise, CollectInv, Shape
<1>3. /\ c'[p].local = c[p].local /\ c'[p].moved = c[p].moved /\ c'[p].pc = "flush"
      /\ \/ c'[p].quote.pcr = pcr /\ c'[p].outcome = c[p].outcome
         \/ c'[p].quote = c[p].quote /\ c'[p].outcome = "AttestationFailed"
  <2> DEFINE q == [signer |-> IF c[p].handle = "platform" THEN "platform" ELSE "transient",
                   data |-> QualifyingData(c[p].req), pcr |-> pcr]
  <2>1. CASE c' = [c EXCEPT ![p].pc = "flush", ![p].quote = q]
    <3>1. q.pcr = pcr
      OBVIOUS
    <3> HIDE DEF q
    <3>2. c'[p] = [c[p] EXCEPT !.pc = "flush", !.quote = q]
      BY <2>1 DEF CollectInv, Shape
    <3> QED BY <1>1, <3>1, <3>2 DEF Fields
  <2>2. CASE c' = [c EXCEPT ![p].pc = "flush", ![p].outcome = "AttestationFailed"]
    <3>1. c'[p] = [c[p] EXCEPT !.pc = "flush", !.outcome = "AttestationFailed"]
      BY <2>2 DEF CollectInv, Shape
    <3> QED BY <1>1, <3>1 DEF Fields
  <2> QED BY <2>1, <2>2
<1>4. HandleInv(c'[p]) /\ PcrInv(c'[p], pcr)
  BY <1>1, <1>3 DEF HandleInv, PcrInv
<1> QED BY <1>2, <1>4, OneCollector DEF CollectInv, Shape

LEMMA FlushCollectInv ==
    ASSUME CollectInv, NEW p \in Proc, Flush(p)
    PROVE  CollectInv'
<1> USE DEF Flush, At
<1>1. c[p] = [f \in Fields |-> c[p][f]] /\ HandleInv(c[p]) /\ PcrInv(c[p], pcr)
  BY DEF CollectInv, Shape
<1>2. Touches(p)
  BY ZenonT(30), <1>1 DEF Touches, Raise, CollectInv, Shape
<1>3. /\ c'[p].local = c[p].local /\ c'[p].moved = c[p].moved /\ c'[p].quote = c[p].quote
      /\ c'[p].handle = None /\ c'[p].outcome = c[p].outcome
      /\ c'[p].pc = IF c[p].quote = None THEN "idle" ELSE "check"
  BY Zenon, <1>1 DEF Fields, CollectInv, Shape
<1>4. HandleInv(c'[p]) /\ PcrInv(c'[p], pcr)
  <2>1. c[p].pc = "flush"
    BY Zenon
  <2> HIDE DEF Flush, At
  <2> QED BY <1>1, <1>3, <2>1 DEF HandleInv, PcrInv
<1>5. loaded' \subseteq Slot
  BY DEF Close, CollectInv, Shape
<1> QED BY Zenon, <1>2, <1>4, <1>5, OneCollector

LEMMA ReportCollectInv ==
    ASSUME CollectInv, NEW p \in Proc, Report(p)
    PROVE  CollectInv'
<1> USE DEF Report, At
<1>1. c[p] = [f \in Fields |-> c[p][f]] /\ HandleInv(c[p]) /\ PcrInv(c[p], pcr)
  BY DEF CollectInv, Shape
<1>2. Touches(p)
  BY <1>1 DEF Touches, Raise, CollectInv, Shape
<1>3. /\ c'[p].local = c[p].local /\ c'[p].moved = c[p].moved /\ c'[p].quote = c[p].quote
      /\ c'[p].handle = c[p].handle /\ c'[p].pc = "idle"
      /\ c'[p].outcome = "report" => c[p].quote.pcr = c[p].local
  <2>1. CASE Raise(p, "AttestationFailed")
    BY <2>1, Raises
  <2>2. CASE CheckQuote(c[p]) /\ Raise(p, "report")
    BY <2>2, Raises DEF CheckQuote
  <2> QED BY <2>1, <2>2
<1>4. HandleInv(c'[p]) /\ PcrInv(c'[p], pcr)
  BY <1>1, <1>3 DEF HandleInv, PcrInv
<1> QED BY <1>2, <1>4, OneCollector DEF CollectInv, Shape

LEMMA KilledCollectInv ==
    ASSUME CollectInv, NEW p \in Proc, Killed(p)
    PROVE  CollectInv'
<1> USE DEF Killed
<1>1. c'[p] = Idle /\ Touches(p)
  BY IdleInv DEF Touches, CollectInv, Shape
<1>2. loaded' \subseteq Slot
  BY DEF Close, CollectInv, Shape
<1> QED BY <1>1, <1>2, IdleInv, OneCollector

LEMMA ExtendCollectInv ==
    ASSUME CollectInv, Extend
    PROVE  CollectInv'
<1> USE DEF Extend
<1>1. ASSUME NEW p \in Proc
      PROVE  /\ c'[p] = [f \in Fields |-> c'[p][f]]
             /\ HandleInv(c'[p]) /\ PcrInv(c'[p], pcr')
  <2>1. c[p] = [f \in Fields |-> c[p][f]] /\ HandleInv(c[p]) /\ PcrInv(c[p], pcr) /\ pcr \in Nat
    BY DEF CollectInv, Shape
  <2>2. c'[p] = [c[p] EXCEPT !.moved =
                   @ \/ (p \in device /\ c[p].local # None /\ c[p].quote = None)]
    OBVIOUS
  <2>3. /\ c'[p] = [f \in Fields |-> c'[p][f]]
        /\ c'[p].pc = c[p].pc /\ c'[p].handle = c[p].handle /\ c'[p].local = c[p].local
        /\ c'[p].quote = c[p].quote /\ c'[p].outcome = c[p].outcome
        /\ c'[p].moved => c[p].moved \/ (c[p].local # None /\ c[p].quote = None)
    BY Zenon, <2>1, <2>2 DEF Fields
  <2>4. pcr' = pcr + 1
    OBVIOUS
  <2> HIDE DEF Extend
  <2> QED BY <2>1, <2>3, <2>4 DEF HandleInv, PcrInv
<1>2. Shape'
  BY <1>1 DEF CollectInv, Shape
<1> QED BY Zenon, <1>1, <1>2 DEF CollectInv

LEMMA NextCollectInv == CollectInv /\ [Next]_vars => CollectInv'
<1> SUFFICES ASSUME CollectInv, [Next]_vars PROVE CollectInv'
  OBVIOUS
<1>1. CASE UNCHANGED vars \/ Renew
  BY <1>1 DEF vars, Renew, CollectInv, Shape
<1>2. ASSUME NEW p \in Proc,
             \/ \E r \in Request : Attest(p, r)
             \/ Advance(p) \/ FollowAia(p) \/ NvReadFails(p) \/ Killed(p)
      PROVE  CollectInv'
  BY <1>2, AttestCollectInv, ChoosingCollectInv, OpenCollectInv, ReadPcrsCollectInv,
     ChosenCollectInv, QuoteCollectInv, FlushCollectInv, ReportCollectInv, KilledCollectInv
  DEF Advance
<1> QED BY <1>1, <1>2, ExtendCollectInv DEF Next

LEMMA AlwaysCollectInv == Spec => []CollectInv
BY InitCollectInv, NextCollectInv, PTL DEF Spec

-----------------------------------------------------------------------------
(* A report's measurement is of one state of the platform: _check_quote    *)
(* sees every extension between the read of the PCRs and the quote, since  *)
(* a PCR never goes back to a value it had.                                *)
THEOREM MeasurementsAreSteady == Spec => []MeasurementIsSteady
<1>1. CollectInv => MeasurementIsSteady
  BY DEF CollectInv, PcrInv, MeasurementIsSteady
<1> QED BY <1>1, AlwaysCollectInv, PTL

(* Every key left in the TPM is one whose flush failed or whose collector  *)
(* died: the finally block of _collect covers each of its error paths.     *)
THEOREM KeysDoNotLeak == Spec => []NoKeyLeaks
<1>1. Init => NoKeyLeaks
  BY DEF Init, NoKeyLeaks
<1>2. CollectInv /\ NoKeyLeaks /\ [Next]_vars => NoKeyLeaks'
  <2> SUFFICES ASSUME CollectInv, NoKeyLeaks, [Next]_vars, NEW s \in loaded'
               PROVE  s \in orphans' \/ \E q \in Proc : c'[q].handle = s
    BY DEF NoKeyLeaks
  <2>1. \A q \in Proc : c[q] = [f \in Fields |-> c[q][f]] /\ HandleInv(c[q])
    BY DEF CollectInv, Shape
  <2>2. loaded \subseteq Slot /\ None \notin Slot
    BY SlotsAssumption DEF CollectInv, Shape
  <2>3. ASSUME UNCHANGED <<loaded, orphans>>, \A q \in Proc : c'[q].handle = c[q].handle
        PROVE  s \in orphans' \/ \E q \in Proc : c'[q].handle = s
    BY <2>3 DEF NoKeyLeaks
  <2>4. ASSUME UNCHANGED <<loaded, orphans>>, NEW p \in Proc, c[p].handle = None, Touches(p)
        PROVE  s \in orphans' \/ \E q \in Proc : c'[q].handle = s
    BY <2>2, <2>4 DEF NoKeyLeaks, Touches
  <2>5. ASSUME NEW p \in Proc, NEW kept \in {{}, {c[p].handle}}, Close(p, kept), Touches(p)
        PROVE  s \in orphans' \/ \E q \in Proc : c'[q].handle = s
    <3>1. s \in loaded /\ s \in Slot
      BY <2>2, <2>5 DEF Close
    <3>2. s = c[p].handle => s \in orphans'
      BY <2>5, <3>1 DEF Close
    <3>3. orphans \subseteq orphans'
      BY <2>5 DEF Close
    <3> QED BY <2>5, <3>1, <3>2, <3>3 DEF NoKeyLeaks, Touches
  <2>6. CASE UNCHANGED vars \/ Renew
    BY <2>3, <2>6 DEF vars, Renew
  <2>7. CASE Extend
    <3>1. \A q \in Proc : c'[q].handle = c[q].handle
      BY Zenon, <2>1, <2>7 DEF Extend, Fields
    <3> QED BY <2>3, <2>7, <3>1 DEF Extend
  <2>8. ASSUME NEW p \in Proc, NEW r \in Request, Attest(p, r)
        PROVE  s \in orphans' \/ \E q \in Proc : c'[q].handle = s
    <3>1. Touches(p)
      BY Zenon, <2>8 DEF Attest, Idle, Fields, Touches, CollectInv, Shape
    <3> QED BY Zenon, <2>1, <2>4, <2>8, <3>1 DEF Attest, At, HandleInv
  <2>9. ASSUME NEW p \in Proc,
               \/ Open(p) \/ ReadPcrs(p) \/ NvPublic(p) \/ NvRead(p) \/ NvReadFails(p)
               \/ ReadPublic(p) \/ LoadLeaf(p) \/ WalkAia(p) \/ FollowAia(p) \/ Certifies(p)
               \/ Report(p)
        PROVE  s \in orphans' \/ \E q \in Proc : c'[q].handle = s
    <3>1. UNCHANGED <<loaded, orphans>> /\ c[p].handle = None
      BY Zenon, <2>1, <2>9 DEF Open, ReadPcrs, NvPublic, NvRead, NvReadFails, ReadPublic, LoadLeaf,
         WalkAia, FollowAia, Certifies, Report, At, HandleInv
    <3>2. Touches(p)
      <4> USE <2>1 DEF Goto, Raise, Touches, CollectInv, Shape
      <4>1. CASE Open(p)
        BY <4>1 DEF Open
      <4>2. CASE ReadPcrs(p)
        BY SMTT(30), <4>2 DEF ReadPcrs
      <4>3. CASE NvPublic(p) \/ NvRead(p) \/ NvReadFails(p) \/ ReadPublic(p)
        BY ZenonT(30), <4>3 DEF NvPublic, NvRead, NvReadFails, ReadPublic
      <4>4. CASE LoadLeaf(p) \/ WalkAia(p) \/ FollowAia(p)
        BY ZenonT(30), <4>4 DEF LoadLeaf, WalkAia, FollowAia
      <4>5. CASE Certifies(p) \/ Report(p)
        BY <4>5 DEF Certifies, Report
      <4> QED BY <2>9, <4>1, <4>2, <4>3, <4>4, <4>5
    <3> QED BY <2>4, <3>1, <3>2
  <2>10. ASSUME NEW p \in Proc, CreateKey(p)
         PROVE  s \in orphans' \/ \E q \in Proc : c'[q].handle = s
    <3>1. Touches(p) /\ c[p].handle = None /\ UNCHANGED orphans
      BY Zenon, <2>1, <2>10 DEF CreateKey, At, HandleInv, Raise, Touches, CollectInv, Shape
    <3>2. CASE UNCHANGED loaded
      BY <2>4, <3>1, <3>2
    <3>3. CASE \E t \in Slot \ loaded :
                 loaded' = loaded \cup {t} /\ c' = [c EXCEPT ![p].handle = t, ![p].pc = "quote"]
      <4>1. PICK t \in Slot \ loaded :
              loaded' = loaded \cup {t} /\ c' = [c EXCEPT ![p].handle = t, ![p].pc = "quote"]
        BY Zenon, <3>3
      <4>2. c'[p] = [c[p] EXCEPT !.handle = t, !.pc = "quote"]
        BY <4>1 DEF CollectInv, Shape
      <4>3. c'[p].handle = t
        BY <2>1, <4>2 DEF Fields
      <4> QED BY <2>2, <3>1, <4>1, <4>3 DEF NoKeyLeaks, Touches
    <3> QED BY <2>10, <3>2, <3>3 DEF CreateKey
  <2>11. ASSUME NEW p \in Proc, Quote(p)
         PROVE  s \in orphans' \/ \E q \in Proc : c'[q].handle = s
    <3>1. Touches(p)
      BY <2>1, <2>11 DEF Quote, Touches, CollectInv, Shape
    <3>2. c'[p].handle = c[p].handle
      BY <2>1, <2>11 DEF Quote, Fields, CollectInv, Shape
    <3> QED BY <2>3, <2>11, <3>1, <3>2 DEF Quote, Touches
  <2>12. ASSUME NEW p \in Proc, Flush(p) \/ Killed(p)
         PROVE  s \in orphans' \/ \E q \in Proc : c'[q].handle = s
    <3>1. Touches(p)
      BY <2>1, <2>12, IdleInv DEF Flush, Killed, Touches, CollectInv, Shape
    <3> QED BY <2>5, <2>12, <3>1 DEF Flush, Killed
  <2> QED BY <2>6, <2>7, <2>8, <2>9, <2>10, <2>11, <2>12 DEF Next, Advance
<1> QED BY <1>1, <1>2, AlwaysCollectInv, PTL DEF Spec

-----------------------------------------------------------------------------
(* Collector and verifier agree *)

Leaf(names) == [leaf : names, length : Nat, broken : SUBSET {"torn", "stray"}]

(* The chain a collector holds certifies the key it signs with: there is   *)
(* one exactly when that is the platform key.  It is torn only if NV       *)
(* changed while it was read.                                              *)
SignerInv(k) ==
    /\ k.pc # "idle" \/ k.quote # None => k.req \in Request
    /\ k.pc \in {"open", "pcrs", "nv", "nvread", "public", "leaf", "create"} => k.chain = None
    /\ k.pc \in {"aia", "fetch", "certify"} => k.chain \in Leaf({"platform", "other"})
    /\ (k.chain # None /\ Whole(k.out)) => "torn" \notin k.chain.broken
    /\ k.pc = "quote" => IF k.handle = "platform" THEN k.chain \in Leaf({"platform"})
                                                  ELSE k.chain = None
    /\ k.quote # None =>
          /\ k.quote.data = QualifyingData(k.req)
          /\ k.quote.pcr \in Nat
          /\ \/ k.chain = None /\ k.quote.signer = "transient"
             \/ k.chain \in Leaf({"platform"}) /\ k.quote.signer = "platform"

Signers == \A p \in Proc : SignerInv(c[p])

LEMMA NoneIsNoChain == None \notin Leaf({"platform", "other"})
BY EvidenceAssumption DEF Leaf, Chain

(* Steps that leave the choice of the key alone. *)
LEMMA SameSigner ==
    ASSUME NEW k, NEW new, SignerInv(k),
           new.req = k.req, new.chain = k.chain, new.quote = k.quote,
           new.out = k.out \/ k.chain = None,
           \/ new.pc = k.pc /\ new.handle = k.handle
           \/ k.pc # "idle" /\ k.chain = None
              /\ new.pc \notin {"aia", "fetch", "certify", "quote"}
           \/ k.pc # "idle" /\ new.pc \in {"idle", "check"}
    PROVE  SignerInv(new)
BY Zenon DEF SignerInv

LEMMA Goes ==
    ASSUME CollectInv, NEW p \in Proc, NEW l, Goto(p, l)
    PROVE  /\ c'[p].pc = l /\ c'[p].req = c[p].req /\ c'[p].chain = c[p].chain
           /\ c'[p].quote = c[p].quote /\ c'[p].out = c[p].out
<1>1. c[p] = [f \in Fields |-> c[p][f]] /\ p \in DOMAIN c
  BY DEF CollectInv, Shape
<1>2. c'[p] = [c[p] EXCEPT !.pc = l]
  BY Zenon, <1>1 DEF Goto
<1> QED
  BY <1>1, <1>2 DEF Fields

LEMMA EarlySigner ==
    ASSUME CollectInv, NEW p \in Proc, SignerInv(c[p]),
           \/ Open(p) \/ ReadPcrs(p) \/ NvPublic(p) \/ NvRead(p) \/ NvReadFails(p)
           \/ ReadPublic(p)
    PROVE  SignerInv(c'[p])
<1>1. c[p] = [f \in Fields |-> c[p][f]] /\ p \in DOMAIN c
  BY DEF CollectInv, Shape
<1>2. c[p].pc # "idle" /\ c[p].chain = None
  BY Zenon DEF Open, ReadPcrs, NvPublic, NvRead, NvReadFails, ReadPublic, At, SignerInv
<1>3. ASSUME NEW e, Raise(p, e) PROVE SignerInv(c'[p])
  BY <1>2, <1>3, Raises, SameSigner
<1>4. ASSUME NEW l \in {"pcrs", "nvread", "create", "public", "leaf"}, Goto(p, l)
      PROVE  SignerInv(c'[p])
  BY <1>2, <1>4, Goes, SameSigner
<1>5. CASE c' = [c EXCEPT ![p].local = pcr, ![p].pc = "nv"]
  <2>1. c'[p] = [c[p] EXCEPT !.local = pcr, !.pc = "nv"]
    BY Zenon, <1>1, <1>5
  <2>2. /\ c'[p].pc = "nv" /\ c'[p].req = c[p].req /\ c'[p].chain = c[p].chain
        /\ c'[p].quote = c[p].quote
    BY <1>1, <2>1 DEF Fields
  <2> QED
    BY <1>2, <2>2, SameSigner
<1>6. ASSUME NEW more, c' = [c EXCEPT ![p].out = @ \o more] PROVE SignerInv(c'[p])
  <2>1. c'[p] = [c[p] EXCEPT !.out = @ \o more]
    BY Zenon, <1>1, <1>6
  <2>2. /\ c'[p].pc = c[p].pc /\ c'[p].req = c[p].req /\ c'[p].chain = c[p].chain
        /\ c'[p].quote = c[p].quote /\ c'[p].handle = c[p].handle
    BY Zenon, <1>1, <2>1 DEF Fields
  <2> QED
    BY <1>2, <2>2, SameSigner
<1>7. CASE NvRead(p)
  BY Zenon, <1>4, <1>6, <1>7 DEF NvRead
<1> QED
  BY <1>3, <1>4, <1>5, <1>7 DEF Open, ReadPcrs, NvPublic, NvReadFails, ReadPublic

LEMMA LateSigner ==
    ASSUME CollectInv, NEW p \in Proc, SignerInv(c[p]), Flush(p) \/ Report(p)
    PROVE  SignerInv(c'[p])
<1>1. c[p] = [f \in Fields |-> c[p][f]] /\ p \in DOMAIN c
  BY DEF CollectInv, Shape
<1>2. c[p].pc # "idle"
  BY DEF Flush, Report, At
<1>3. CASE Flush(p)
  <2>1. /\ c'[p].req = c[p].req /\ c'[p].chain = c[p].chain /\ c'[p].quote = c[p].quote
        /\ c'[p].pc \in {"idle", "check"} /\ c'[p].out = c[p].out
    BY Zenon, <1>1, <1>3 DEF Flush, Fields
  <2> QED
    BY <1>2, <2>1, SameSigner
<1>4. CASE Report(p)
  BY <1>2, <1>4, Raises, SameSigner DEF Report
<1> QED
  BY <1>3, <1>4

(* The certificate that NV holds is of the platform key or of another one. *)
LEMMA LeafSigner ==
    ASSUME CollectInv, NEW p \in Proc, SignerInv(c[p]), LoadLeaf(p)
    PROVE  SignerInv(c'[p])
<1>1. c[p] = [f \in Fields |-> c[p][f]] /\ p \in DOMAIN c
  BY DEF CollectInv, Shape
<1>2. c[p].pc = "leaf"
  BY DEF LoadLeaf, At
<1>3. CASE Goto(p, "create")
  <2>1. c'[p] = [c[p] EXCEPT !.pc = "create"]
    BY Zenon, <1>1, <1>3 DEF Goto
  <2>2. /\ c'[p].req = c[p].req /\ c'[p].chain = c[p].chain /\ c'[p].quote = c[p].quote
        /\ c'[p].pc = "create" /\ c'[p].out = c[p].out
    BY Zenon, <1>1, <2>1 DEF Fields
  <2> QED
    BY <1>2, <2>2 DEF SignerInv
<1>4. CASE \E chain \in LoadAny(c[p].out) :
             c' = [c EXCEPT ![p].chain = chain, ![p].pc = "aia"]
  <2>1. PICK chain \in LoadAny(c[p].out) : c' = [c EXCEPT ![p].chain = chain, ![p].pc = "aia"]
    BY Zenon, <1>4
  <2>2. /\ chain \in Leaf({"platform", "other"})
        /\ Whole(c[p].out) => chain.broken = {}
    BY <2>1, SizesAssumption DEF LoadAny, Leaf
  <2>3. c'[p] = [c[p] EXCEPT !.chain = chain, !.pc = "aia"]
    BY Zenon, <1>1, <2>1
  <2>4. /\ c'[p].req = c[p].req /\ c'[p].chain = chain /\ c'[p].quote = c[p].quote
        /\ c'[p].pc = "aia" /\ c'[p].out = c[p].out
    BY Zenon, <1>1, <2>3 DEF Fields
  <2>5. c[p].quote = None
    BY <1>2 DEF CollectInv, PcrInv
  <2> QED
    BY <1>2, <2>2, <2>4, <2>5 DEF SignerInv
<1> QED
  BY Zenon, <1>3, <1>4 DEF LoadLeaf

LEMMA WalkSigner ==
    ASSUME CollectInv, NEW p \in Proc, SignerInv(c[p]),
           WalkAia(p) \/ FollowAia(p) \/ Certifies(p)
    PROVE  SignerInv(c'[p])
<1>1. c[p] = [f \in Fields |-> c[p][f]] /\ p \in DOMAIN c
  BY DEF CollectInv, Shape
<1>2. /\ c[p].pc \in {"aia", "fetch", "certify"} /\ c[p].chain \in Leaf({"platform", "other"})
      /\ c[p].req \in Request /\ c[p].quote = None
      /\ (c[p].chain # None /\ Whole(c[p].out)) => "torn" \notin c[p].chain.broken
  <2>1. c[p].pc \in {"aia", "fetch", "certify"}
    BY Zenon DEF WalkAia, FollowAia, Certifies, At
  <2> QED
    BY Zenon, <2>1 DEF SignerInv, CollectInv, PcrInv
<1>3. CASE c' = [c EXCEPT ![p].chain = None, ![p].pc = "create"]
  <2>1. c'[p] = [c[p] EXCEPT !.chain = None, !.pc = "create"]
    BY Zenon, <1>1, <1>3
  <2>2. /\ c'[p].req = c[p].req /\ c'[p].chain = None /\ c'[p].quote = c[p].quote
        /\ c'[p].pc = "create"
    BY Zenon, <1>1, <2>1 DEF Fields
  <2> QED
    BY <1>2, <2>2 DEF SignerInv
<1>4. CASE \E stray \in {{}, {"stray"}} :
             c' = [c EXCEPT ![p].chain = [leaf |-> @.leaf, length |-> @.length + 1,
                                          broken |-> @.broken \cup stray],
                            ![p].pc = "aia"]
  <2>1. PICK stray \in {{}, {"stray"}} :
          c' = [c EXCEPT ![p].chain = [leaf |-> @.leaf, length |-> @.length + 1,
                                       broken |-> @.broken \cup stray],
                         ![p].pc = "aia"]
    BY Zenon, <1>4
  <2> DEFINE old == c[p].chain
             chain == [leaf |-> old.leaf, length |-> old.length + 1,
                       broken |-> old.broken \cup stray]
  <2>2. c'[p] = [c[p] EXCEPT !.chain = chain, !.pc = "aia"]
    BY Zenon, <1>1, <2>1
  <2>3. chain \in Leaf({"platform", "other"})
    <3>1. old.leaf \in {"platform", "other"} /\ old.length \in Nat
          /\ old.broken \subseteq {"torn", "stray"}
      BY <1>2 DEF Leaf
    <3> HIDE DEF old
    <3> QED
      BY SMTT(30), <2>1, <3>1 DEF Leaf
  <2>4. "torn" \in chain.broken => "torn" \in c[p].chain.broken
    BY <1>2 DEF Leaf
  <2>5. c[p].chain # None
    BY <1>2, NoneIsNoChain
  <2> HIDE DEF chain
  <2>6. /\ c'[p].req = c[p].req /\ c'[p].chain = chain /\ c'[p].quote = c[p].quote
        /\ c'[p].pc = "aia" /\ c'[p].out = c[p].out
    BY Zenon, <1>1, <2>2 DEF Fields
  <2> QED
    BY <1>2, <2>3, <2>4, <2>5, <2>6 DEF SignerInv
<1>5. CASE /\ c[p].chain.leaf = "platform"
           /\ c' = [c EXCEPT ![p].handle = "platform", ![p].pc = "quote"]
  <2>1. c'[p] = [c[p] EXCEPT !.handle = "platform", !.pc = "quote"]
    BY Zenon, <1>1, <1>5
  <2>2. /\ c'[p].req = c[p].req /\ c'[p].chain = c[p].chain /\ c'[p].quote = c[p].quote
        /\ c'[p].pc = "quote" /\ c'[p].handle = "platform" /\ c'[p].out = c[p].out
    BY Zenon, <1>1, <2>1 DEF Fields
  <2>3. c[p].chain \in Leaf({"platform"})
    BY <1>2, <1>5 DEF Leaf
  <2> QED
    BY <1>2, <2>2, <2>3 DEF SignerInv
<1>6. ASSUME NEW l \in {"fetch", "certify"}, Goto(p, l)
      PROVE  SignerInv(c'[p])
  <2>1. /\ c'[p].req = c[p].req /\ c'[p].chain = c[p].chain /\ c'[p].quote = c[p].quote
        /\ c'[p].pc = l /\ c'[p].out = c[p].out
    BY Zenon, <1>6, Goes
  <2> QED
    BY <1>2, <2>1 DEF SignerInv
<1> QED
  BY Zenon, <1>3, <1>4, <1>5, <1>6 DEF WalkAia, FollowAia, Certifies

LEMMA CreateSigner ==
    ASSUME CollectInv, NEW p \in Proc, SignerInv(c[p]), CreateKey(p)
    PROVE  SignerInv(c'[p])
<1>1. c[p] = [f \in Fields |-> c[p][f]] /\ p \in DOMAIN c
  BY DEF CollectInv, Shape
<1>2. /\ c[p].pc = "create" /\ c[p].chain = None /\ c[p].req \in Request /\ c[p].quote = None
  BY DEF CreateKey, At, SignerInv, CollectInv, PcrInv
<1>3. CASE Raise(p, "AttestationFailed")
  BY <1>2, <1>3, Raises, SameSigner
<1>4. CASE \E s \in Slot \ loaded : c' = [c EXCEPT ![p].handle = s, ![p].pc = "quote"]
  <2>1. PICK s \in Slot \ loaded : c' = [c EXCEPT ![p].handle = s, ![p].pc = "quote"]
    BY Zenon, <1>4
  <2>2. c'[p] = [c[p] EXCEPT !.handle = s, !.pc = "quote"]
    BY Zenon, <1>1, <2>1
  <2>3. /\ c'[p].req = c[p].req /\ c'[p].chain = c[p].chain /\ c'[p].quote = c[p].quote
        /\ c'[p].pc = "quote" /\ c'[p].handle = s /\ c'[p].out = c[p].out
    BY Zenon, <1>1, <2>2 DEF Fields
  <2>4. s # "platform"
    BY SlotsAssumption
  <2> QED
    BY <1>2, <2>3, <2>4 DEF SignerInv
<1> QED
  BY Zenon, <1>3, <1>4 DEF CreateKey

LEMMA QuoteSigner ==
    ASSUME CollectInv, NEW p \in Proc, SignerInv(c[p]), Quote(p)
    PROVE  SignerInv(c'[p])
<1>1. c[p] = [f \in Fields |-> c[p][f]] /\ p \in DOMAIN c
  BY DEF CollectInv, Shape
<1>2. /\ c[p].pc = "quote" /\ c[p].req \in Request /\ c[p].quote = None
      /\ IF c[p].handle = "platform" THEN c[p].chain \in Leaf({"platform"}) ELSE c[p].chain = None
      /\ (c[p].chain # None /\ Whole(c[p].out)) => "torn" \notin c[p].chain.broken
  BY DEF Quote, At, SignerInv, CollectInv, PcrInv
<1> DEFINE q == [signer |-> IF c[p].handle = "platform" THEN "platform" ELSE "transient",
                 data |-> QualifyingData(c[p].req), pcr |-> pcr]
<1>3. CASE c' = [c EXCEPT ![p].pc = "flush", ![p].quote = q]
  <2>1. /\ q.data = QualifyingData(c[p].req) /\ q.pcr \in Nat
        /\ q.signer = IF c[p].handle = "platform" THEN "platform" ELSE "transient"
    BY DEF CollectInv, Shape
  <2> HIDE DEF q
  <2>2. c'[p] = [c[p] EXCEPT !.pc = "flush", !.quote = q]
    BY Zenon, <1>1, <1>3
  <2>3. /\ c'[p].req = c[p].req /\ c'[p].chain = c[p].chain /\ c'[p].quote = q
        /\ c'[p].pc = "flush" /\ c'[p].out = c[p].out
    BY Zenon, <1>1, <2>2 DEF Fields
  <2> QED
    BY <1>2, <2>1, <2>3 DEF SignerInv
<1>4. CASE c' = [c EXCEPT ![p].pc = "flush", ![p].outcome = "AttestationFailed"]
  <2>1. c'[p] = [c[p] EXCEPT !.pc = "flush", !.outcome = "AttestationFailed"]
    BY Zenon, <1>1, <1>4
  <2>2. /\ c'[p].req = c[p].req /\ c'[p].chain = c[p].chain /\ c'[p].quote = c[p].quote
        /\ c'[p].pc = "flush" /\ c'[p].out = c[p].out
    BY Zenon, <1>1, <2>1 DEF Fields
  <2> QED
    BY <1>2, <2>2 DEF SignerInv
<1> QED
  BY <1>3, <1>4 DEF Quote

LEMMA IdleSigner == SignerInv(Idle)
BY DEF SignerInv, Idle

LEMMA AttestSigner ==
    ASSUME CollectInv, NEW p \in Proc, NEW r \in Request, Attest(p, r)
    PROVE  SignerInv(c'[p])
<1>1. c'[p].req = r /\ c'[p].chain = None /\ c'[p].quote = None /\ c'[p].pc \in {"open", "idle"}
  BY Zenon DEF Attest, Idle, CollectInv, Shape
<1> QED
  BY <1>1 DEF SignerInv

LEMMA NextSigners == CollectInv /\ Signers /\ [Next]_vars => Signers'
<1> SUFFICES ASSUME CollectInv, Signers, [Next]_vars, NEW p \in Proc PROVE SignerInv(c'[p])
  BY DEF Signers
<1>1. c[p] = [f \in Fields |-> c[p][f]] /\ SignerInv(c[p]) /\ p \in DOMAIN c
  BY DEF CollectInv, Shape, Signers
<1>2. CASE c'[p] = c[p]
  BY <1>1, <1>2
<1>3. CASE UNCHANGED vars \/ Renew
  BY <1>2, <1>3 DEF vars, Renew
<1>4. CASE Extend
  <2>1. /\ c'[p].req = c[p].req /\ c'[p].chain = c[p].chain /\ c'[p].quote = c[p].quote
        /\ c'[p].pc = c[p].pc /\ c'[p].handle = c[p].handle /\ c'[p].out = c[p].out
    BY Zenon, <1>1, <1>4 DEF Extend, Fields
  <2> QED
    BY <1>1, <2>1, SameSigner
<1>5. ASSUME NEW q \in Proc, q # p,
             \/ \E r \in Request : Attest(q, r)
             \/ Advance(q) \/ FollowAia(q) \/ NvReadFails(q) \/ Killed(q)
      PROVE  c'[p] = c[p]
  BY ZenonT(60), <1>1, <1>5 DEF Attest, Advance, Open, ReadPcrs, NvPublic, NvRead, NvReadFails, ReadPublic,
     LoadLeaf, WalkAia, FollowAia, Certifies, CreateKey, Quote, Flush, Report, Killed, Goto, Raise
<1>6. CASE (\E r \in Request : Attest(p, r)) \/ Advance(p) \/ FollowAia(p) \/ NvReadFails(p)
  BY <1>1, <1>6, AttestSigner, EarlySigner, LeafSigner, WalkSigner, CreateSigner, QuoteSigner,
     LateSigner DEF Advance
<1>7. CASE Killed(p)
  BY <1>1, <1>7, IdleSigner DEF Killed
<1> QED
  BY <1>2, <1>3, <1>4, <1>5, <1>6, <1>7 DEF Next

LEMMA SameData ==
    ASSUME NEW l \in Labels, NEW r \in Request
    PROVE  /\ QualifyingData(l) = QualifyingData(r) <=> l = r
           /\ QualifyingData(l) \in Data /\ QualifyingData(r) \in Data
           /\ QualifyingData(l) # None
<1>1. QualifyingData(l) = QualifyingData(r) =>
          l.role = r.role /\ l.public_key = r.public_key /\ l.nonce = r.nonce
  BY DEF QualifyingData
<1>2. QualifyingData(l) = QualifyingData(r) => l = r
  BY <1>1 DEF Labels, Request
<1>3. QualifyingData(l) \in Data /\ QualifyingData(r) \in Data
  BY DEF Labels, Request, QualifyingData, Data
<1> QED
  BY <1>2, <1>3, EvidenceAssumption

(* The parts of a report. *)
LEMMA ReportParts ==
    ASSUME NEW k, SignerInv(k), k.quote # None, NEW l \in Labels, NEW d \in Nat,
           NEW hash \in {"sha256", "sha384"}, NEW report, report = TpmReport(k, l, d, hash)
    PROVE  LET attest == report.raw_evidence
               signature == report.quote_signature
               chain == report.attestation_key_chain
           IN  /\ report.nonce = l.nonce /\ report.measurement = d
               /\ QualifyingData(report) = QualifyingData(l)
               /\ attest \in Evidence /\ attest # None
               /\ attest.data = QualifyingData(k.req) /\ attest.pcr = k.quote.pcr
               /\ signature \in QuoteSignature /\ signature # None
               /\ signature.key = k.quote.signer /\ signature.over = attest
               /\ signature.made = <<"rsa", hash>> /\ signature.declared = <<"rsa", hash>>
               /\ chain = None <=> k.chain = None
               /\ k.chain # None =>
                     /\ chain.key = k.chain.leaf /\ chain.type = "rsa"
                     /\ chain.root = IF Rooted(k.chain) THEN "vendor" ELSE None
<1> DEFINE attest == [data |-> k.quote.data, pcr |-> k.quote.pcr]
           signature == TpmtSignature(k.quote.signer, attest, <<"rsa", hash>>)
           certs == [key |-> k.chain.leaf, type |-> "rsa",
                     root |-> IF Rooted(k.chain) THEN "vendor" ELSE None]
           chain == IF k.chain = None THEN None ELSE certs
<1>1. /\ k.req \in Request /\ k.quote.data = QualifyingData(k.req) /\ k.quote.pcr \in Nat
      /\ k.quote.signer \in {"platform", "transient"}
      /\ k.chain # None => k.chain.leaf = "platform"
  BY DEF SignerInv, Leaf
<1>2. attest \in Evidence /\ attest.data = QualifyingData(k.req) /\ attest.pcr = k.quote.pcr
  BY <1>1, SameData DEF Evidence
<1> HIDE DEF attest
<1>3. /\ signature.key = k.quote.signer /\ signature.over = attest
      /\ signature.made = <<"rsa", hash>> /\ signature.declared = <<"rsa", hash>>
      /\ signature \in QuoteSignature
  BY <1>1, <1>2 DEF TpmtSignature, QuoteSignature, Scheme
<1> HIDE DEF signature
<1>4. /\ certs.key = k.chain.leaf /\ certs.type = "rsa"
      /\ certs.root = IF Rooted(k.chain) THEN "vendor" ELSE None
      /\ k.chain # None => certs \in KeyChain
  BY <1>1 DEF KeyChain
<1> HIDE DEF certs
<1>5. (chain = None <=> k.chain = None) /\ (k.chain # None => chain = certs)
  BY <1>4, EvidenceAssumption
<1> HIDE DEF chain
<1>6. report = [role |-> l.role, public_key |-> l.public_key, nonce |-> l.nonce,
                measurement |-> d, raw_evidence |-> attest, quote_signature |-> signature,
                attestation_key_chain |-> chain]
  BY DEF TpmReport, attest, signature, chain, certs
<1>7. /\ report.nonce = l.nonce /\ report.measurement = d /\ report.role = l.role
      /\ report.public_key = l.public_key /\ report.raw_evidence = attest
      /\ report.quote_signature = signature /\ report.attestation_key_chain = chain
  BY <1>6
<1>8. QualifyingData(report) = QualifyingData(l)
  BY <1>7 DEF QualifyingData
<1>9. attest # None /\ signature # None
  BY <1>2, <1>3, EvidenceAssumption
<1> QED
  BY <1>2, <1>3, <1>4, <1>5, <1>7, <1>8, <1>9

(* A quote, its signature and the chain of its key, as a collector with a  *)
(* chain reports them.                                                     *)
Parts(k, attest, sig, chain) ==
    /\ attest.data = QualifyingData(k.req) /\ attest.pcr = k.quote.pcr
    /\ sig.key = k.quote.signer /\ sig.over = attest
    /\ k.chain # None /\ chain.key = k.chain.leaf
    /\ chain.root = IF Rooted(k.chain) THEN "vendor" ELSE None

(* What verify_tpm_quote decides on the evidence of a report. *)
LEMMA DelegateDecides ==
    ASSUME NEW k, SignerInv(k), k.quote # None, NEW l \in Labels, NEW d \in Nat \cup {None},
           NEW attest, NEW sig, NEW chain, Parts(k, attest, sig, chain)
    PROVE  Delegate(attest, sig, chain, {"vendor"}, QualifyingData(l), d) <=>
               /\ Rooted(k.chain)
               /\ l = k.req
               /\ sig.declared = sig.made
               /\ d # None => d = k.quote.pcr
<1>1. k.req \in Request /\ k.quote.signer = "platform" /\ k.chain.leaf = "platform"
  BY DEF SignerInv, Leaf, Parts
<1>2. QualifyingData(l) # None /\ (QualifyingData(k.req) = QualifyingData(l) <=> l = k.req)
  BY <1>1, SameData
<1>3. "vendor" # None
  BY EvidenceAssumption
<1> QED
  BY <1>1, <1>2, <1>3 DEF Delegate, VerifyCertChain, Parts

(* A signature without its declaration stands for SHA-256 under the key's  *)
(* type.                                                                   *)
LEMMA BareSignature ==
    ASSUME NEW sig \in QuoteSignature, NEW ak, ak.type = "rsa"
    PROVE  LET tagged == TagLegacyBareSignature([sig EXCEPT !.declared = None], ak)
           IN  /\ tagged.key = sig.key /\ tagged.over = sig.over /\ tagged.made = sig.made
               /\ tagged.declared = <<"rsa", "sha256">>
BY DEF TagLegacyBareSignature, QuoteSignature

LEMMA ReportAgrees ==
    ASSUME NEW k, SignerInv(k), k.quote # None, k.quote.pcr = k.local,
           NEW l \in Labels, NEW d \in Nat, NEW hash \in {"sha256", "sha384"}
    PROVE  JudgedAsCollected(k, l, d, hash)
<1> DEFINE report == TpmReport(k, l, d, hash)
           attest == report.raw_evidence
           signature == report.quote_signature
           chain == report.attestation_key_chain
           bare == [signature EXCEPT !.declared = None]
           tagged == TagLegacyBareSignature(bare, chain)
           rooted == k.chain # None /\ Rooted(k.chain)
<1>1. /\ report.nonce = l.nonce /\ report.measurement = d
      /\ QualifyingData(report) = QualifyingData(l)
      /\ attest # None /\ attest.data = QualifyingData(k.req) /\ attest.pcr = k.quote.pcr
      /\ signature \in QuoteSignature /\ signature # None
      /\ signature.key = k.quote.signer /\ signature.over = attest
      /\ signature.made = <<"rsa", hash>> /\ signature.declared = <<"rsa", hash>>
  BY ReportParts
<1>2. /\ chain = None <=> k.chain = None
      /\ k.chain # None =>
            /\ chain.key = k.chain.leaf /\ chain.type = "rsa"
            /\ chain.root = IF Rooted(k.chain) THEN "vendor" ELSE None
  BY ReportParts
<1>3. d # None
  BY EvidenceAssumption
<1>4. l.nonce # "later"
  BY EvidenceAssumption DEF Labels
<1> HIDE DEF report
<1>5. ASSUME k.chain # None
      PROVE  Delegate(attest, signature, chain, {"vendor"}, QualifyingData(report), None)
                 <=> rooted /\ l = k.req
  <2> HIDE DEF attest, signature, chain
  <2>1. Parts(k, attest, signature, chain)
    BY Zenon, <1>1, <1>2, <1>5 DEF Parts
  <2>2. Delegate(attest, signature, chain, {"vendor"}, QualifyingData(l), None) <=>
            /\ Rooted(k.chain) /\ l = k.req
            /\ signature.declared = signature.made
            /\ None # None => None = k.quote.pcr
    BY Zenon, <2>1, DelegateDecides
  <2> QED
    BY Zenon, <1>1, <1>5, <2>2
<1>6. ASSUME k.chain # None
      PROVE  Delegate(attest, tagged, chain, {"vendor"}, QualifyingData(l), d)
                 <=> rooted /\ l = k.req /\ d = k.local /\ hash = "sha256"
  <2> HIDE DEF attest, signature, chain
  <2>1. /\ tagged.key = k.quote.signer /\ tagged.over = attest
        /\ tagged.made = <<"rsa", hash>> /\ tagged.declared = <<"rsa", "sha256">>
    BY Zenon, <1>1, <1>2, <1>6, BareSignature
  <2> HIDE DEF tagged
  <2>2. tagged.declared = tagged.made <=> hash = "sha256"
    BY <2>1
  <2>3. Parts(k, attest, tagged, chain)
    BY Zenon, <1>1, <1>2, <1>6, <2>1 DEF Parts
  <2>4. Delegate(attest, tagged, chain, {"vendor"}, QualifyingData(l), d) <=>
            /\ Rooted(k.chain) /\ l = k.req
            /\ tagged.declared = tagged.made
            /\ d # None => d = k.quote.pcr
    BY Zenon, <2>3, DelegateDecides
  <2> QED
    BY Zenon, <1>3, <1>6, <2>2, <2>4
<1>7. VerifyTpmReport(report, l.nonce, {"vendor"}) =
          IF rooted /\ l = k.req /\ d = k.local THEN k.local ELSE Failed
  BY <1>1, <1>2, <1>5 DEF VerifyTpmReport
<1>8. VerifyTpmReport(report, "later", {"vendor"}) = Failed
  BY <1>1, <1>4 DEF VerifyTpmReport
<1>9. VerifyTpmReport(report, l.nonce, {}) = Failed
  BY DEF VerifyTpmReport
<1>10. VerifyTpmQuote(attest, bare, chain, {"vendor"}, d, QualifyingData(l))
           <=> rooted /\ l = k.req /\ d = k.local /\ hash = "sha256"
  <2> HIDE DEF attest, bare, chain
  <2> QED
    BY <1>2, <1>6 DEF VerifyTpmQuote
<1> QED
  BY <1>7, <1>8, <1>9, <1>10 DEF report, JudgedAsCollected

(* What attest returns, verify_tpm_report accepts for the request it was   *)
(* made for and for no other, exactly when it ships a chain that leads to  *)
(* a trusted root: its leaf always carries the key that signed, however NV *)
(* is read, renewed or missing and whatever fails on the way, and a chain  *)
(* that is torn is one NV changed under.                                   *)
THEOREM EveryTpmReportVerifiesAsCollected == Spec => []TpmVerifiedAsCollected
<1>1. Init => Signers
  BY IdleSigner DEF Init, Signers
<1>2. CollectInv /\ Signers => TpmVerifiedAsCollected
  <2> SUFFICES ASSUME CollectInv, Signers, NEW p \in Proc, c[p].outcome = "report"
               PROVE  /\ \A l \in Labels, d \in 0..MaxExtends, hash \in {"sha256", "sha384"} :
                            JudgedAsCollected(c[p], l, d, hash)
                      /\ (c[p].chain # None /\ Whole(c[p].out)) => "torn" \notin c[p].chain.broken
    BY Zenon DEF TpmVerifiedAsCollected
  <2>1. c[p].quote # None /\ c[p].quote.pcr = c[p].local /\ SignerInv(c[p])
    BY DEF CollectInv, PcrInv, Signers
  <2>2. ASSUME NEW l \in Labels, NEW d \in 0..MaxExtends, NEW hash \in {"sha256", "sha384"}
        PROVE  JudgedAsCollected(c[p], l, d, hash)
    <3>1. d \in Nat
      BY SizesAssumption
    <3> QED
      BY <2>1, <3>1, ReportAgrees
  <2> QED
    BY Zenon, <2>1, <2>2 DEF SignerInv
<1> QED
  BY <1>1, <1>2, AlwaysCollectInv, NextSigners, PTL DEF Spec
=============================================================================
