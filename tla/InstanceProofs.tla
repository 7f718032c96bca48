--------------------------- MODULE InstanceProofs ---------------------------
(***************************************************************************)
(* Proofs about Instance, for any requests, data centers and orders of     *)
(* sending, and however many errors are answered: handlers keep the        *)
(* promise of module Handlers, no request is lost, requests that wait for  *)
(* each other are released, and somebody works on an authorization that is *)
(* waited for.                                                             *)
(***************************************************************************)
EXTENDS Instance, TLAPS

\* A handler waits exactly as long as nobody was told the end of its request.
Promise ==
  /\ \A r \in Requests : r \in handlers <=> outcome[r] = "wanted"
  /\ \A r \in Requests : Registered(r) => outcome[r] # "none"

InPlace(r) ==
  \/ \E s \in Sessions : r \in session[s]
  \/ r \in delayed \/ \E d \in Dcs : r \in waiters[d]
  \/ r \in Requests /\ dependent[r] # None

\* NoLostRequest, also for the requests of the instance itself.
Placed == \A r \in handlers : r \in lost \/ InPlace(r)

\* Who works on the authorization, or the reason why nobody does.
AuthWorks ==
  \A d \in Dcs : waiters[d] # {} => d \in broken \/ Export(d) \in handlers \/ Import(d) \in handlers

LostBreaks == \A d \in Dcs : Export(d) \in lost \/ Import(d) \in lost => d \in broken

\* Nobody waits for what was not sent, and what is waited for is registered.
Releasable ==
  /\ \A r, q \in Requests : after[q] = r \/ dependent[q] = r => outcome[r] # "none"
  /\ \A r \in Requests : dependent[r] # None => Registered(dependent[r])

\* The order of sending has no circle, whichever of the two fields tells it.
Acyclic ==
  \A S \in (SUBSET Requests) \ {{}} : \E r \in S : after[r] \notin S /\ dependent[r] \notin S

IInv == TypeOK /\ Promise /\ Placed /\ AuthWorks /\ LostBreaks /\ Releasable /\ Acyclic
-----------------------------------------------------------------------------
(* Requests of the instance itself, and sessions *)

LEMMA AllFacts ==
  /\ Requests \subseteq All /\ Exports \subseteq All /\ Imports \subseteq All
  /\ None \notin All
  /\ \A d \in Dcs : /\ Export(d) \in All \ Requests /\ Import(d) \in All \ Requests
                    /\ \A e \in Dcs : /\ Export(d) # Import(e)
                                      /\ Export(d) = Export(e) => d = e
                                      /\ Import(d) = Import(e) => d = e
  BY RequestsAssumption DEF All, Exports, Imports, Export, Import

LEMMA DcFacts == 0 \notin Dcs \union {Nowhere} /\ None \notin Requests
  BY DcsAssumption, RequestsAssumption DEF Nowhere

LEMMA SessionOfIn ==
  ASSUME TypeOK, NEW r, NEW dc \in Dcs \union {Nowhere} PROVE SessionOf(r, dc) \in Sessions
<1>1. OfFiles(r) \in BOOLEAN
  BY DEF OfFiles, TypeOK
<1> QED
  BY <1>1 DEF SessionOf, Sessions

Tables == [Sessions -> SUBSET All]

LEMMA SendType ==
  ASSUME NEW from \in Tables, NEW R \in SUBSET All, NEW dcs
  PROVE  SendPrepared(from, R, dcs) \in Tables
  BY DEF SendPrepared, Tables

LEMMA SendKeeps ==
  ASSUME NEW from, NEW R, NEW dcs, NEW s \in Sessions, NEW q \in from[s]
  PROVE  q \in SendPrepared(from, R, dcs)[s]
  BY DEF SendPrepared

LEMMA SendPlaces ==
  ASSUME TypeOK, NEW from, NEW R, NEW dcs, NEW q \in R, dcs[q] \in Dcs \union {Nowhere}
  PROVE  \E s \in Sessions : q \in SendPrepared(from, R, dcs)[s]
<1>1. SessionOf(q, dcs[q]) \in Sessions
  BY SessionOfIn
<1>2. q \in SendPrepared(from, R, dcs)[SessionOf(q, dcs[q])]
  BY <1>1, DcFacts DEF SendPrepared
<1> QED
  BY <1>1, <1>2

LEMMA WithoutType ==
  ASSUME TypeOK, NEW t \in Sessions, NEW r
  PROVE  /\ session \in Tables /\ Without(t, r) \in Tables
         /\ \A s \in Sessions : \A q \in session[s] : q # r => q \in Without(t, r)[s]
  BY DEF TypeOK, Without, Tables

-----------------------------------------------------------------------------
(* Releasing *)

\* Whoever waits for one of the released is released.
LEMMA ReleasedIsClosed ==
  ASSUME NEW r, NEW q \in Requests \ {r}, dependent[q] \in Released(r) \union {r}
  PROVE  q \in Released(r)
<1> SUFFICES ASSUME NEW S \in SUBSET (Requests \union {r}), r \in S,
                    \A x \in Requests : dependent[x] \in S => x \in S
             PROVE  q \in S
  BY DEF Released
<1>1. dependent[q] \in S
  BY DEF Released
<1> QED
  BY <1>1

LEMMA UnregisterStep ==
  ASSUME TypeOK, NEW r \in All, NEW from \in Tables, Unregister(r, from)
  PROVE  /\ byDc' = [byDc EXCEPT ![r] = 0] /\ session' \in Tables
         /\ dependent' \in [Requests -> Requests \union {None}]
         /\ \A s \in Sessions : \A q \in from[s] : q \in session'[s]
         /\ \A q \in Requests : dependent'[q] # None => dependent'[q] = dependent[q] /\ dependent[q] # r
         /\ \A q \in Requests \ {r} :
              dependent[q] # None /\ Registered(q) =>
                dependent'[q] # None \/ \E s \in Sessions : q \in session'[s]
<1> USE DEF Unregister
<1>1. Released(r) \in SUBSET All
  BY AllFacts DEF Released
<1>2. session' \in Tables
  BY <1>1, SendType
<1>3. dependent' \in [Requests -> Requests \union {None}]
  BY DEF TypeOK
<1>4. ASSUME NEW s \in Sessions, NEW q \in from[s] PROVE q \in session'[s]
  BY <1>4, SendKeeps
<1>5. ASSUME NEW q \in Requests, dependent'[q] # None
      PROVE  dependent'[q] = dependent[q] /\ dependent[q] # r
  BY <1>5
<1>6. ASSUME NEW q \in Requests \ {r}, dependent'[q] = None, dependent[q] # None, Registered(q)
      PROVE  \E s \in Sessions : q \in session'[s]
  <2>1. dependent[q] \in Released(r) \union {r}
    BY <1>6
  <2>2. q \in Released(r)
    BY <2>1, ReleasedIsClosed
  <2>3. byDc'[q] \in Dcs
    BY <1>6, AllFacts DEF TypeOK, Registered
  <2> QED
    BY <2>2, <2>3, SendPlaces
<1> QED
  BY <1>2, <1>3, <1>4, <1>5, <1>6

-----------------------------------------------------------------------------
(* What most actions leave of the order of sending *)

LEMMA OrderKept ==
  ASSUME IInv, TypeOK',
         \A r \in Requests : after'[r] \in {after[r], None},
         \A r \in Requests : dependent'[r] \in {dependent[r], after[r], None},
         \A r \in Requests : outcome[r] # "none" => outcome'[r] # "none",
         \A r \in Requests : dependent'[r] # None => byDc'[dependent'[r]] # 0
  PROVE  Releasable' /\ Acyclic'
<1>1. Releasable'
  BY RequestsAssumption DEF IInv, Releasable, Registered
<1>2. ASSUME NEW S \in (SUBSET Requests) \ {{}}
      PROVE  \E r \in S : after'[r] \notin S /\ dependent'[r] \notin S
  <2>1. PICK r \in S : after[r] \notin S /\ dependent[r] \notin S
    BY DEF IInv, Acyclic
  <2> QED
    BY <2>1, RequestsAssumption
<1> QED
  BY <1>1, <1>2 DEF Acyclic

\* Registering and handlers of the application's requests stay as they are.
LEMMA PromiseKept ==
  ASSUME IInv, UNCHANGED outcome, \A r \in Requests : r \in handlers' <=> r \in handlers,
         \A r \in Requests : byDc'[r] # 0 => byDc[r] # 0
  PROVE  Promise'
  BY DEF IInv, Promise, Registered

LEMMA SendRequestKeeps ==
  ASSUME IInv, NEW r \in Requests, SendRequest(r) PROVE IInv'
<1> DEFINE dc == IF r \in MainBound THEN main ELSE FileDc[r]
           prev == IF After[r] # None /\ Registered(After[r]) THEN After[r] ELSE None
<1> USE DEF SendRequest
<1>0. /\ TypeOK /\ r \in All /\ {r} \in SUBSET All /\ dc \in Dcs /\ dc # 0
      /\ prev \in Requests \union {None} /\ session \in Tables
  BY AllFacts, DcsAssumption, RequestsAssumption DEF IInv, TypeOK, Tables
<1>1. byDc' = [byDc EXCEPT ![r] = dc] /\ byDc'[r] = dc /\ session' \in Tables
  BY <1>0, SendType DEF TypeOK
<1>2. TypeOK'
  <2>1. byDc' \in [All -> Dcs \union {0}] /\ handlers' \subseteq All
    BY <1>0, <1>1 DEF TypeOK
  <2>2. outcome' \in [Requests -> {"none", "wanted", "done", "failed", "cancelled"}]
    BY <1>0 DEF TypeOK
  <2>3. after' \in [Requests -> Requests \union {None}]
        /\ dependent' \in [Requests -> Requests \union {None}]
    BY <1>0 DEF TypeOK
  <2>4. ASSUME NEW q \in handlers' PROVE Registered(q)'
    BY <1>0, <1>1 DEF TypeOK, Registered
  <2> QED
    BY <1>0, <1>1, <2>1, <2>2, <2>3, <2>4 DEF TypeOK, Tables, authVars
<1>3. Promise'
  BY <1>0, <1>1 DEF IInv, Promise, TypeOK, Registered
<1>4. Placed'
  <2>1. r \in lost' \/ InPlace(r)'
    <3>1. CASE prev # None /\ dependent[prev] # None
      BY <1>0, <3>1 DEF InPlace, TypeOK
    <3>2. CASE ~(prev # None /\ dependent[prev] # None)
      <4>0. session' = SendPrepared(session, {r}, byDc')
        BY <3>2
      <4>1. \E s \in Sessions : r \in session'[s]
        <5> HIDE DEF SendRequest, dc, prev
        <5>1. r \in {r} /\ byDc'[r] \in Dcs \union {Nowhere}
          BY <1>0, <1>1
        <5> QED
          BY <1>0, <4>0, <5>1, SendPlaces
      <4> QED
        BY <4>1 DEF InPlace
    <3> QED
      BY <3>1, <3>2
  <2>2. ASSUME NEW q \in handlers, q # r PROVE q \in lost' \/ InPlace(q)'
    <3>1. \A s \in Sessions : q \in session[s] => q \in session'[s]
      BY SendKeeps
    <3>2. q \in Requests => dependent'[q] = dependent[q]
      BY <1>0, <2>2 DEF TypeOK
    <3> QED
      BY <3>1, <3>2 DEF IInv, Placed, InPlace, authVars
  <2> QED
    BY <2>1, <2>2 DEF Placed
<1>5. AuthWorks' /\ LostBreaks'
  BY DEF IInv, AuthWorks, LostBreaks, authVars
<1>6. /\ \A q \in Requests \ {r} : after'[q] = after[q] /\ dependent'[q] = dependent[q]
      /\ after'[r] = prev /\ dependent'[r] \in {dependent[r], prev}
  BY <1>0 DEF TypeOK
<1>7. /\ r # None /\ outcome[r] = "none" /\ ~Registered(r) /\ prev # r
      /\ prev # None => Registered(prev) /\ outcome[prev] # "none"
  BY <1>0, RequestsAssumption DEF IInv, Promise
<1>8. \A q \in Requests : after[q] # r /\ dependent[q] # r
  BY <1>7 DEF IInv, Releasable
<1>9. Releasable'
  <2>1. \A q \in Requests : outcome[q] # "none" => outcome'[q] # "none"
    BY DEF IInv, TypeOK
  <2>2. outcome'[r] # "none"
    BY <1>0 DEF TypeOK
  <2>3. \A q \in Requests : Registered(q) => Registered(q)'
    BY <1>0, <1>1, AllFacts DEF Registered, TypeOK
  <2>4. ASSUME NEW x \in Requests, NEW q \in Requests, after'[q] = x \/ dependent'[q] = x
        PROVE  outcome'[x] # "none"
    BY <1>6, <1>7, <2>1, <2>2, <2>4, RequestsAssumption DEF IInv, Releasable
  <2>5. ASSUME NEW q \in Requests, dependent'[q] # None PROVE byDc'[dependent'[q]] # 0
    <3>1. dependent'[q] \in Requests /\ Registered(dependent'[q])
      BY <1>0, <1>6, <1>7, <2>5 DEF IInv, Releasable, TypeOK
    <3> QED
      BY <2>3, <3>1 DEF Registered
  <2> QED
    BY <2>4, <2>5 DEF Releasable, Registered
<1>10. ASSUME NEW S \in (SUBSET Requests) \ {{}}
       PROVE  \E q \in S : after'[q] \notin S /\ dependent'[q] \notin S
  <2>1. CASE S \ {r} = {}
    <3>1. S = {r}
      BY <2>1
    <3>2. dependent[r] # r
      BY <1>8
    <3> QED
      BY <1>6, <1>7, <3>1, <3>2
  <2>2. CASE S \ {r} # {}
    <3>1. PICK q \in S \ {r} : after[q] \notin S \ {r} /\ dependent[q] \notin S \ {r}
      BY <2>2 DEF IInv, Acyclic
    <3> QED
      BY <1>6, <1>8, <3>1
  <2> QED
    BY <2>1, <2>2
<1> QED
  BY <1>2, <1>3, <1>4, <1>5, <1>9, <1>10 DEF IInv, Acyclic

-----------------------------------------------------------------------------
(* The end of a request of the application, or of an answer nobody wants *)

LEMMA UnregisterKeeps ==
  ASSUME IInv, NEW r \in All, NEW from \in Tables, Unregister(r, from),
         \A s \in Sessions : \A q \in session[s] : q # r => q \in from[s],
         handlers' = handlers \ {r}, r \notin Requests => r \notin handlers,
         UNCHANGED <<main, delayed, after, waiters, exportFor, lost, broken, fatal, moves>>,
         badGuest' \subseteq badGuest, errors' \in 0..MaxErrors,
         outcome' \in [Requests -> {"none", "wanted", "done", "failed", "cancelled"}],
         \A q \in Requests \ {r} : outcome'[q] = outcome[q],
         r \in Requests => outcome'[r] # "wanted" /\ (outcome[r] # "none" => outcome'[r] # "none")
  PROVE  IInv'
<1>0. TypeOK /\ Promise /\ Placed /\ AuthWorks /\ LostBreaks /\ Releasable
  BY DEF IInv
<1>1. /\ byDc' = [byDc EXCEPT ![r] = 0] /\ session' \in Tables
      /\ dependent' \in [Requests -> Requests \union {None}]
      /\ \A s \in Sessions : \A q \in from[s] : q \in session'[s]
      /\ \A q \in Requests : dependent'[q] # None => dependent'[q] = dependent[q] /\ dependent[q] # r
      /\ \A q \in Requests \ {r} :
            dependent[q] # None /\ Registered(q) =>
              dependent'[q] # None \/ \E s \in Sessions : q \in session'[s]
  BY <1>0, UnregisterStep
<1>2. \A q \in All \ {r} : Registered(q)' = Registered(q)
  BY <1>0, <1>1 DEF TypeOK, Registered
<1>3. ~Registered(r)'
  BY <1>0, <1>1 DEF TypeOK, Registered
<1>4. TypeOK'
  <2>1. byDc' \in [All -> Dcs \union {0}]
    BY <1>0, <1>1 DEF TypeOK
  <2>2. \A q \in handlers' : Registered(q)'
    BY <1>0, <1>2 DEF TypeOK
  <2> QED
    BY <1>0, <1>1, <2>1, <2>2 DEF TypeOK, Tables
<1>5. Promise'
  BY <1>0, <1>2, <1>3, AllFacts DEF Promise, TypeOK
<1>6. ASSUME NEW q \in handlers' PROVE q \in lost' \/ InPlace(q)'
  <2>1. q \in handlers /\ q # r /\ Registered(q)
    BY <1>6, <1>0 DEF TypeOK
  <2>2. ASSUME NEW s \in Sessions, q \in session[s] PROVE q \in session'[s]
    BY <1>1, <2>1, <2>2
  <2>3. q \in Requests /\ dependent[q] # None =>
          dependent'[q] # None \/ \E s \in Sessions : q \in session'[s]
    BY <1>1, <2>1
  <2> QED
    BY <1>0, <2>1, <2>2, <2>3 DEF Placed, InPlace
<1>7. AuthWorks'
  <2>1. \A d \in Dcs : Export(d) # r \/ r \notin handlers
    BY AllFacts
  <2>2. \A d \in Dcs : Import(d) # r \/ r \notin handlers
    BY AllFacts
  <2> QED
    BY <1>0, <2>1, <2>2 DEF AuthWorks
<1>8. LostBreaks'
  BY <1>0 DEF LostBreaks
<1>9. Releasable' /\ Acyclic'
  <2>1. \A q \in Requests : outcome[q] # "none" => outcome'[q] # "none"
    OBVIOUS
  <2>2. ASSUME NEW q \in Requests, dependent'[q] # None PROVE byDc'[dependent'[q]] # 0
    <3>1. dependent'[q] \in Requests \ {r} /\ Registered(dependent'[q])
      BY <1>0, <1>1, <2>2 DEF Releasable, TypeOK
    <3> QED
      BY <1>0, <1>1, <3>1, AllFacts DEF Registered, TypeOK
  <2>3. \A q \in Requests : after'[q] \in {after[q], None}
    OBVIOUS
  <2>4. \A q \in Requests : dependent'[q] \in {dependent[q], after[q], None}
    BY <1>1
  <2> QED
    BY <1>4, <2>1, <2>2, <2>3, <2>4, OrderKept
<1> QED
  BY <1>4, <1>5, <1>6, <1>7, <1>8, <1>9 DEF IInv, Placed

LEMMA CancelRequestKeeps ==
  ASSUME IInv, NEW r \in Requests, CancelRequest(r) PROVE IInv'
<1> USE DEF CancelRequest
<1>0. TypeOK /\ r \in All
  BY AllFacts DEF IInv
<1>1. PICK from \in {session, Without(SessionOf(r, byDc[r]), r)} : Unregister(r, from)
  OBVIOUS
<1>2. byDc[r] \in Dcs
  <2>1. r \in handlers
    BY DEF IInv, Promise
  <2> QED
    BY <1>0, <2>1 DEF TypeOK, Registered
<1>3. SessionOf(r, byDc[r]) \in Sessions
  BY <1>0, <1>2, SessionOfIn
<1>4. from \in Tables /\ \A s \in Sessions : \A q \in session[s] : q # r => q \in from[s]
  BY <1>0, <1>3, WithoutType
<1>5. /\ outcome' \in [Requests -> {"none", "wanted", "done", "failed", "cancelled"}]
      /\ \A q \in Requests \ {r} : outcome'[q] = outcome[q]
      /\ outcome'[r] = "cancelled"
  BY <1>0 DEF TypeOK
<1>6. errors' \in 0..MaxErrors
  BY <1>0 DEF TypeOK
<1> QED
  BY <1>0, <1>1, <1>4, <1>5, <1>6, UnregisterKeeps DEF authVars

LEMMA EndKeeps ==
  ASSUME IInv, NEW r \in All, NEW t \in Sessions, AnswerDropped(r, t) \/ Done(r, t) \/ Fail(r, t)
  PROVE  IInv'
<1>0. TypeOK
  BY DEF IInv
<1>1. Without(t, r) \in Tables /\ \A s \in Sessions : \A q \in session[s] : q # r => q \in Without(t, r)[s]
  BY <1>0, WithoutType
<1>2. Unregister(r, Without(t, r))
  BY DEF AnswerDropped, Done, Fail
<1>3. CASE AnswerDropped(r, t)
  <2>1. outcome' = outcome /\ handlers' = handlers \ {r} /\ r \notin handlers /\ UNCHANGED errors
    BY <1>3 DEF AnswerDropped, historyVars
  <2>2. r \in Requests => outcome'[r] # "wanted"
    BY <2>1 DEF IInv, Promise
  <2> QED
    BY <1>0, <1>1, <1>2, <1>3, <2>1, <2>2, UnregisterKeeps
    DEF AnswerDropped, historyVars, authVars, TypeOK
<1>4. CASE Done(r, t) \/ Fail(r, t)
  <2>1. r \in Requests /\ handlers' = handlers \ {r} /\ badGuest' \subseteq badGuest
    BY <1>4 DEF Done, Fail, Finish, authVars
  <2>2. /\ outcome' \in [Requests -> {"none", "wanted", "done", "failed", "cancelled"}]
        /\ \A q \in Requests \ {r} : outcome'[q] = outcome[q]
        /\ outcome'[r] \in {"done", "failed"}
    BY <1>0, <1>4, <2>1 DEF Done, Fail, Finish, TypeOK
  <2>3. errors' \in 0..MaxErrors
    BY <1>0, <1>4, BoundsAssumption DEF Done, Fail, Error, TypeOK
  <2>4. UNCHANGED <<main, delayed, after, waiters, exportFor, lost, broken, fatal, moves>>
    BY <1>4 DEF Done, Fail, authVars
  <2> QED
    BY <1>1, <1>2, <2>1, <2>2, <2>3, <2>4, UnregisterKeeps
<1> QED
  BY <1>3, <1>4

-----------------------------------------------------------------------------
(* A request that goes on: delayed, sent again, to another data center *)

LEMMA SetMainStep ==
  ASSUME TypeOK, LostBreaks, NEW d \in Dcs, NEW from \in Tables, NEW R \in SUBSET All, NEW dcs,
         SetMain(d, from, R, dcs)
  PROVE  /\ main' \in Dcs /\ session' \in Tables /\ lost' \subseteq All /\ broken' \subseteq Dcs
         /\ lost \subseteq lost' /\ broken \subseteq broken' /\ LostBreaks'
         /\ \A s \in Sessions : \A q \in from[s] : q \in lost' \/ q \in session'[s]
         /\ \A q \in R : dcs[q] \in Dcs \union {Nowhere} => \E s \in Sessions : q \in session'[s]
<1> USE DEF SetMain
<1>0. Destroyed(d) \subseteq Sessions /\ lost \subseteq All /\ broken \subseteq Dcs
  BY DEF Destroyed, Sessions, TypeOK
<1>1. DestroyFor(d, from) \in Tables
  BY DEF DestroyFor, Tables
<1>2. session' \in Tables
  BY <1>1, SendType
<1>3. LostFor(d, from) \subseteq All
  BY <1>0 DEF LostFor, Tables
<1>4. ASSUME NEW s \in Sessions, NEW q \in from[s] PROVE q \in lost' \/ q \in session'[s]
  <2>1. CASE s \in Destroyed(d)
    BY <2>1 DEF LostFor
  <2>2. CASE s \notin Destroyed(d)
    <3>1. q \in DestroyFor(d, from)[s]
      BY <2>2 DEF DestroyFor
    <3> QED
      BY <3>1, SendKeeps
  <2> QED
    BY <2>1, <2>2
<1>5. LostBreaks'
  BY <1>0 DEF LostBreaks, BrokenBy
<1>6. ASSUME NEW q \in R, dcs[q] \in Dcs \union {Nowhere} PROVE \E s \in Sessions : q \in session'[s]
  BY <1>6, SendPlaces
<1> QED
  BY <1>0, <1>2, <1>3, <1>4, <1>5, <1>6 DEF BrokenBy

LEMMA ErrorCount == ASSUME TypeOK, Error PROVE errors' \in 0..MaxErrors
  BY BoundsAssumption DEF TypeOK, Error

LEMMA FailLaterKeeps ==
  ASSUME IInv, NEW r \in All, NEW t \in Sessions, FailLater(r, t) PROVE IInv'
<1> USE DEF FailLater
<1>0. TypeOK /\ errors' \in 0..MaxErrors
  BY ErrorCount DEF IInv
<1>1. session' \in Tables /\ \A s \in Sessions : \A q \in session[s] : q # r => q \in session'[s]
  BY <1>0, WithoutType
<1>2. TypeOK'
  BY <1>0, <1>1 DEF TypeOK, Tables, tableVars, authVars, historyVars, Registered
<1>3. Promise' /\ Placed' /\ AuthWorks' /\ LostBreaks'
  BY <1>1 DEF IInv, Promise, Placed, InPlace, AuthWorks, LostBreaks, Registered, tableVars,
              authVars, historyVars
<1>4. Releasable' /\ Acyclic'
  BY DEF IInv, Releasable, Acyclic, Registered, tableVars, historyVars
<1> QED
  BY <1>2, <1>3, <1>4 DEF IInv

LEMMA FailFatalKeeps ==
  ASSUME IInv, NEW r \in All, NEW t \in Sessions, FailFatal(r, t) PROVE IInv'
<1> USE DEF FailFatal
<1>0. TypeOK /\ errors' \in 0..MaxErrors
  BY ErrorCount DEF IInv
<1>1. TypeOK'
  BY <1>0 DEF TypeOK, tableVars, authVars, Registered
<1>2. Promise' /\ Placed' /\ AuthWorks' /\ LostBreaks'
  BY DEF IInv, Promise, Placed, InPlace, AuthWorks, LostBreaks, Registered, tableVars, authVars
<1>3. Releasable' /\ Acyclic'
  BY DEF IInv, Releasable, Acyclic, Registered, tableVars
<1> QED
  BY <1>1, <1>2, <1>3 DEF IInv

LEMMA CheckDelayedKeeps ==
  ASSUME IInv, NEW r \in All, CheckDelayedRequests(r) PROVE IInv'
<1> USE DEF CheckDelayedRequests
<1>0. TypeOK /\ session \in Tables /\ {r} \in SUBSET All
  BY DEF IInv, TypeOK, Tables
<1>1. session' \in Tables /\ \A s \in Sessions : \A q \in session[s] : q \in session'[s]
  BY <1>0, SendType, SendKeeps DEF GiveDelayed
<1>2. TypeOK'
  BY <1>0, <1>1 DEF TypeOK, Tables, tableVars, authVars, historyVars, Registered
<1>3. ASSUME r \in handlers PROVE \E s \in Sessions : r \in session'[s]
  <2>1. byDc[r] \in Dcs /\ session' = SendPrepared(session, {r}, byDc)
    BY <1>0, <1>3 DEF TypeOK, Registered, GiveDelayed
  <2> QED
    BY <1>0, <2>1, SendPlaces
<1>4. ASSUME NEW q \in handlers' PROVE q \in lost' \/ InPlace(q)'
  BY <1>1, <1>3 DEF IInv, Placed, InPlace, tableVars, authVars, historyVars
<1>5. Promise' /\ AuthWorks' /\ LostBreaks'
  BY DEF IInv, Promise, AuthWorks, LostBreaks, Registered, tableVars, authVars, historyVars
<1>6. Releasable' /\ Acyclic'
  BY DEF IInv, Releasable, Acyclic, Registered, tableVars, historyVars
<1> QED
  BY <1>2, <1>4, <1>5, <1>6 DEF IInv, Placed

LEMMA NotInitedKeeps ==
  ASSUME IInv, NEW r \in All, NEW t \in Sessions, NotInited(r, t) PROVE IInv'
<1> USE DEF NotInited
<1>0. /\ TypeOK /\ errors' \in 0..MaxErrors /\ {r} \in SUBSET All /\ byDc[r] \in Dcs
      /\ session' = SendPrepared(Without(t, r), {r}, byDc)
  BY ErrorCount DEF IInv, Answerable, TypeOK, Registered
<1>1. /\ Without(t, r) \in Tables
      /\ \A s \in Sessions : \A q \in session[s] : q # r => q \in Without(t, r)[s]
  BY <1>0, WithoutType
<1>2. session' \in Tables /\ \A s \in Sessions : \A q \in session[s] : q # r => q \in session'[s]
  BY <1>0, <1>1, SendType, SendKeeps
<1>3. \E s \in Sessions : r \in session'[s]
  BY <1>0, SendPlaces
<1>4. TypeOK'
  BY <1>0, <1>2 DEF TypeOK, Tables, tableVars, waitVars, authVars, historyVars, Registered
<1>5. ASSUME NEW q \in handlers' PROVE q \in lost' \/ InPlace(q)'
  BY <1>2, <1>3 DEF IInv, Placed, InPlace, tableVars, waitVars, authVars, historyVars
<1>6. Promise' /\ AuthWorks' /\ LostBreaks'
  BY DEF IInv, Promise, AuthWorks, LostBreaks, Registered, tableVars, authVars, historyVars
<1>7. Releasable' /\ Acyclic'
  BY DEF IInv, Releasable, Acyclic, Registered, tableVars, waitVars, historyVars
<1> QED
  BY <1>4, <1>5, <1>6, <1>7 DEF IInv, Placed

LEMMA MigrateKeeps ==
  ASSUME IInv, NEW r \in All, NEW t \in Sessions, NEW d \in Dcs, Migrate(r, t, d) PROVE IInv'
<1> USE DEF Migrate
<1>0. TypeOK /\ LostBreaks /\ errors' \in 0..MaxErrors /\ {r} \in SUBSET All /\ d # 0
  BY ErrorCount, DcFacts DEF IInv
<1>1. /\ Without(t, r) \in Tables
      /\ \A s \in Sessions : \A q \in session[s] : q # r => q \in Without(t, r)[s]
  BY <1>0, WithoutType
<1>2. byDc' \in [All -> Dcs \union {0}] /\ byDc'[r] = d /\ \A q \in All \ {r} : byDc'[q] = byDc[q]
  BY <1>0 DEF TypeOK
<1>3. /\ main' \in Dcs /\ session' \in Tables /\ lost' \subseteq All /\ broken' \subseteq Dcs
      /\ lost \subseteq lost' /\ broken \subseteq broken' /\ LostBreaks'
      /\ \A s \in Sessions : \A q \in Without(t, r)[s] : q \in lost' \/ q \in session'[s]
      /\ \E s \in Sessions : r \in session'[s]
      /\ moves' \in 0..MaxMoves
  <2>1. CASE r \in MainBound
    <3>1. SetMain(d, Without(t, r), {r}, byDc') /\ moves < MaxMoves /\ moves' = moves + 1
      BY <2>1
    <3>2. moves' \in 0..MaxMoves
      BY <1>0, <3>1, BoundsAssumption DEF TypeOK
    <3>3. /\ main' \in Dcs /\ session' \in Tables /\ lost' \subseteq All /\ broken' \subseteq Dcs
          /\ lost \subseteq lost' /\ broken \subseteq broken' /\ LostBreaks'
          /\ \A s \in Sessions : \A q \in Without(t, r)[s] : q \in lost' \/ q \in session'[s]
          /\ \A q \in {r} : byDc'[q] \in Dcs \union {Nowhere} => \E s \in Sessions : q \in session'[s]
      <4> HIDE DEF Migrate
      <4> QED
        BY <1>0, <1>1, <3>1, SetMainStep
    <3> QED
      BY <1>2, <3>2, <3>3
  <2>2. CASE r \notin MainBound
    <3>1. session' = SendPrepared(Without(t, r), {r}, byDc') /\ UNCHANGED <<main, lost, broken, moves>>
      BY <2>2
    <3>2. session' \in Tables /\ \A s \in Sessions : \A q \in Without(t, r)[s] : q \in session'[s]
      BY <1>0, <1>1, <3>1, SendType, SendKeeps
    <3>3. \E s \in Sessions : r \in session'[s]
      BY <1>0, <1>2, <3>1, SendPlaces
    <3>4. LostBreaks'
      BY <1>0, <3>1 DEF LostBreaks
    <3> QED
      BY <1>0, <3>1, <3>2, <3>3, <3>4 DEF TypeOK
  <2> QED
    BY <2>1, <2>2
<1>4. TypeOK'
  BY <1>0, <1>2, <1>3 DEF TypeOK, Tables, waitVars, authVars, Registered
<1>5. ASSUME NEW q \in handlers' PROVE q \in lost' \/ InPlace(q)'
  BY <1>1, <1>3 DEF IInv, Placed, InPlace, waitVars, authVars
<1>6. Promise'
  BY <1>2, AllFacts DEF IInv, Promise, Registered, Answerable
<1>7. AuthWorks'
  BY <1>3 DEF IInv, AuthWorks, authVars
<1>8. Releasable' /\ Acyclic'
  BY <1>0, <1>2, AllFacts DEF IInv, Releasable, Acyclic, Registered, waitVars, TypeOK
<1> QED
  BY <1>3, <1>4, <1>5, <1>6, <1>7, <1>8 DEF IInv, Placed

LEMMA LoginElsewhereKeeps ==
  ASSUME IInv, NEW d \in Dcs, LoginElsewhere(d) PROVE IInv'
<1> USE DEF LoginElsewhere
<1>0. TypeOK /\ LostBreaks /\ session \in Tables /\ SetMain(d, session, {}, byDc)
  BY DEF IInv, TypeOK, Tables
<1>1. /\ main' \in Dcs /\ session' \in Tables /\ lost' \subseteq All /\ broken' \subseteq Dcs
      /\ lost \subseteq lost' /\ broken \subseteq broken' /\ LostBreaks'
      /\ \A s \in Sessions : \A q \in session[s] : q \in lost' \/ q \in session'[s]
  BY <1>0, SetMainStep
<1>2. TypeOK'
  BY <1>0, <1>1, BoundsAssumption DEF TypeOK, Tables, waitVars, authVars, Registered
<1>3. ASSUME NEW q \in handlers' PROVE q \in lost' \/ InPlace(q)'
  BY <1>1 DEF IInv, Placed, InPlace, waitVars, authVars
<1>4. Promise' /\ AuthWorks'
  BY <1>1 DEF IInv, Promise, AuthWorks, Registered, authVars
<1>5. Releasable' /\ Acyclic'
  BY DEF IInv, Releasable, Acyclic, Registered, waitVars
<1> QED
  BY <1>1, <1>2, <1>3, <1>4, <1>5 DEF IInv, Placed

LEMMA KillSessionKeeps ==
  ASSUME IInv, NEW d \in Dcs, KillSession(d) PROVE IInv'
<1> USE DEF KillSession
<1> DEFINE L == session[<<d, TRUE>>]
<1>0. TypeOK /\ L \subseteq All
  BY DEF IInv, TypeOK, Sessions
<1>1. /\ session' \in Tables /\ lost' = lost \union L /\ broken' = BrokenBy(L)
      /\ \A s \in Sessions : \A q \in session[s] : q \in L \/ q \in session'[s]
  BY <1>0 DEF TypeOK, Tables
<1>2. broken' \subseteq Dcs /\ broken \subseteq broken' /\ LostBreaks'
  BY <1>0, <1>1 DEF IInv, TypeOK, LostBreaks, BrokenBy
<1>3. TypeOK'
  BY <1>0, <1>1, <1>2 DEF TypeOK, Tables, tableVars, waitVars, authVars, Registered
<1>4. ASSUME NEW q \in handlers' PROVE q \in lost' \/ InPlace(q)'
  BY <1>1 DEF IInv, Placed, InPlace, tableVars, waitVars, authVars
<1>5. Promise' /\ AuthWorks'
  BY <1>2 DEF IInv, Promise, AuthWorks, Registered, tableVars, authVars
<1>6. Releasable' /\ Acyclic'
  BY DEF IInv, Releasable, Acyclic, Registered, tableVars, waitVars
<1> QED
  BY <1>2, <1>3, <1>4, <1>5, <1>6 DEF IInv, Placed

LEMMA WaitFailedKeeps ==
  ASSUME IInv, NEW r \in All, NEW t \in Sessions, WaitFailed(r, t) PROVE IInv'
<1> USE DEF WaitFailed
<1>0. TypeOK /\ errors' \in 0..MaxErrors /\ {r} \in SUBSET All /\ r \in Requests /\ r \in handlers
  BY ErrorCount DEF IInv, Answerable
<1>1. /\ Without(t, r) \in Tables
      /\ \A s \in Sessions : \A q \in session[s] : q # r => q \in Without(t, r)[s]
  BY <1>0, WithoutType
<1>2. byDc[r] \in Dcs
  BY <1>0 DEF TypeOK, Registered
<1>3. /\ session' \in Tables
      /\ \A s \in Sessions : \A q \in session[s] : q # r => q \in session'[s]
      /\ dependent'[r] # None \/ \E s \in Sessions : r \in session'[s]
  <2>1. CASE StillBefore(r)
    BY <1>0, <1>1, <2>1 DEF TypeOK
  <2>2. CASE ~StillBefore(r)
    <3>1. session' = SendPrepared(Without(t, r), {r}, byDc)
      BY <2>2 DEF tableVars
    <3> QED
      BY <1>0, <1>1, <1>2, <3>1, SendType, SendKeeps, SendPlaces
  <2> QED
    BY <2>1, <2>2
<1>4. /\ after' \in [Requests -> Requests \union {None}]
      /\ dependent' \in [Requests -> Requests \union {None}]
      /\ \A q \in Requests : after'[q] \in {after[q], None}
      /\ \A q \in Requests : dependent'[q] \in {dependent[q], after[q]}
      /\ \A q \in Requests \ {r} : dependent'[q] = dependent[q]
      /\ dependent'[r] = dependent[r] \/ Registered(dependent'[r])
  BY <1>0 DEF TypeOK, StillBefore
<1>5. TypeOK'
  BY <1>0, <1>3, <1>4 DEF TypeOK, Tables, tableVars, authVars, historyVars, Registered
<1>6. ASSUME NEW q \in handlers' PROVE q \in lost' \/ InPlace(q)'
  <2>1. q \in handlers /\ UNCHANGED <<delayed, waiters, lost>>
    BY DEF tableVars, authVars, historyVars
  <2>2. CASE q = r
    BY <1>0, <1>3, <2>2 DEF InPlace
  <2>3. CASE q # r
    BY <1>3, <1>4, <2>1, <2>3 DEF IInv, Placed, InPlace
  <2> QED
    BY <2>2, <2>3
<1>7. Promise' /\ AuthWorks' /\ LostBreaks'
  BY DEF IInv, Promise, AuthWorks, LostBreaks, Registered, tableVars, authVars, historyVars
<1>8. Releasable' /\ Acyclic'
  <2>1. ASSUME NEW q \in Requests, dependent'[q] # None PROVE byDc'[dependent'[q]] # 0
    BY <1>4, <2>1 DEF IInv, Releasable, Registered, tableVars
  <2>2. \A q \in Requests : outcome[q] # "none" => outcome'[q] # "none"
    BY DEF historyVars
  <2> QED
    BY <1>4, <1>5, <2>1, <2>2, OrderKept
<1> QED
  BY <1>5, <1>6, <1>7, <1>8 DEF IInv, Placed

-----------------------------------------------------------------------------
(* Authorization *)

LEMMA UnauthorizedKeeps ==
  ASSUME IInv, NEW r \in All, NEW t \in Sessions, NEW bad \in BOOLEAN, Unauthorized(r, t, bad)
  PROVE  IInv'
<1> DEFINE d == byDc[r]
<1> USE DEF Unauthorized
<1>0. /\ TypeOK /\ errors' \in 0..MaxErrors /\ r \in handlers /\ d \in Dcs
      /\ main \in Dcs /\ main # 0 /\ Export(d) \in All \ Requests /\ {Export(d)} \in SUBSET All
  BY ErrorCount, AllFacts, DcFacts DEF IInv, Answerable, TypeOK, Registered
<1>1. /\ Without(t, r) \in Tables
      /\ \A s \in Sessions : \A q \in session[s] : q # r => q \in Without(t, r)[s]
  BY <1>0, WithoutType
<1>2. /\ waiters' \in [Dcs -> SUBSET All] /\ r \in waiters'[d]
      /\ \A e \in Dcs : waiters[e] \subseteq waiters'[e] /\ (e # d => waiters'[e] = waiters[e])
      /\ badGuest' \subseteq All /\ broken' \subseteq Dcs /\ broken \subseteq broken'
  BY <1>0 DEF TypeOK
<1>3. /\ session' \in Tables /\ byDc' \in [All -> Dcs \union {0}]
      /\ \A q \in All \ {Export(d)} : byDc'[q] = byDc[q]
      /\ handlers' \subseteq All /\ handlers \subseteq handlers' /\ handlers' \subseteq handlers \union {Export(d)}
      /\ exportFor' \in [Dcs -> BOOLEAN]
      /\ \A s \in Sessions : \A q \in session[s] : q # r => q \in session'[s]
      /\ delayed' = delayed \/ (delayed' = delayed \ {Export(d)}
                                /\ \E s \in Sessions : Export(d) \in session'[s])
      /\ handlers' = handlers \/ \E s \in Sessions : Export(d) \in session'[s]
      /\ Export(d) \in handlers' => byDc'[Export(d)] # 0
      /\ waiters[d] = {} => Export(d) \in handlers'
  <2>1. CASE waiters[d] # {}
    <3>1. session' = Without(t, r) /\ UNCHANGED <<byDc, handlers, delayed, exportFor>>
      BY <2>1
    <3> QED
      BY <1>0, <1>1, <2>1, <3>1 DEF TypeOK, Registered
  <2>2. CASE waiters[d] = {}
    <3>1. /\ byDc' = [byDc EXCEPT ![Export(d)] = main] /\ handlers' = handlers \union {Export(d)}
          /\ session' = SendPrepared(Without(t, r), {Export(d)}, byDc')
          /\ exportFor' = [exportFor EXCEPT ![d] = OfFiles(r)] /\ delayed' = delayed \ {Export(d)}
      BY <2>2 DEF NewOwn
    <3>2. OfFiles(r) \in BOOLEAN
      BY <1>0 DEF OfFiles, TypeOK
    <3>3. byDc' \in [All -> Dcs \union {0}] /\ byDc'[Export(d)] = main
          /\ exportFor' \in [Dcs -> BOOLEAN] /\ handlers' \subseteq All
          /\ \A q \in All \ {Export(d)} : byDc'[q] = byDc[q]
      BY <1>0, <3>1, <3>2 DEF TypeOK
    <3>4. session' \in Tables
      BY <1>0, <1>1, <3>1, SendType
    <3>5. \A s \in Sessions : \A q \in session[s] : q # r => q \in session'[s]
      BY <1>1, <3>1, SendKeeps
    <3>6. \E s \in Sessions : Export(d) \in session'[s]
      BY <1>0, <3>1, <3>3, SendPlaces
    <3> QED
      BY <1>0, <3>1, <3>3, <3>4, <3>5, <3>6
  <2> QED
    BY <2>1, <2>2
<1> HIDE DEF Unauthorized, d
<1>4. UNCHANGED <<main, after, dependent, outcome, lost, fatal, moves>>
  BY DEF Unauthorized
<1>5. TypeOK'
  <2>1. \A q \in handlers' : byDc'[q] # 0
    BY <1>0, <1>3 DEF TypeOK, Registered
  <2> QED
    BY <1>0, <1>2, <1>3, <1>4, <2>1 DEF TypeOK, Tables, Registered
<1>6. Promise'
  BY <1>0, <1>3, <1>4, AllFacts DEF IInv, Promise, Registered
<1>7. ASSUME NEW q \in handlers' PROVE q \in lost' \/ InPlace(q)'
  <2>1. CASE q = r
    BY <1>0, <1>2, <2>1 DEF InPlace
  <2>2. CASE q = Export(d) /\ \E s \in Sessions : Export(d) \in session'[s]
    BY <2>2 DEF InPlace
  <2>3. CASE q # r /\ ~(q = Export(d) /\ \E s \in Sessions : Export(d) \in session'[s])
    <3>1. q \in handlers /\ (q \in delayed => q \in delayed')
      BY <1>3, <2>3
    <3> QED
      BY <1>2, <1>3, <1>4, <2>3, <3>1 DEF IInv, Placed, InPlace
  <2> QED
    BY <2>1, <2>2, <2>3
<1>8. AuthWorks' /\ LostBreaks'
  BY <1>2, <1>3, <1>4 DEF IInv, AuthWorks, LostBreaks
<1>9. Releasable' /\ Acyclic'
  BY <1>0, <1>3, <1>4, AllFacts, RequestsAssumption DEF IInv, Releasable, Acyclic, Registered, TypeOK
<1> QED
  BY <1>5, <1>6, <1>7, <1>8, <1>9 DEF IInv, Placed

LEMMA ExportDoneKeeps ==
  ASSUME IInv, NEW d \in Dcs, NEW t \in Sessions, ExportDone(d, t) PROVE IInv'
<1> USE DEF ExportDone
<1>0. /\ TypeOK /\ Export(d) \in All \ Requests /\ Import(d) \in All \ Requests
      /\ Export(d) # Import(d) /\ {Import(d)} \in SUBSET All /\ d # 0
  BY AllFacts, DcFacts DEF IInv
<1>1. /\ Without(t, Export(d)) \in Tables
      /\ \A s \in Sessions : \A q \in session[s] : q # Export(d) => q \in Without(t, Export(d))[s]
  BY <1>0, WithoutType
<1>2. /\ byDc' \in [All -> Dcs \union {0}] /\ byDc'[Import(d)] = d
      /\ \A q \in All \ {Export(d), Import(d)} : byDc'[q] = byDc[q]
  BY <1>0 DEF TypeOK
<1>3. session' \in Tables /\ \A s \in Sessions : \A q \in session[s] : q # Export(d) => q \in session'[s]
  BY <1>0, <1>1, SendType, SendKeeps
<1>4. \E s \in Sessions : Import(d) \in session'[s]
  BY <1>0, <1>2, SendPlaces
<1>5. handlers' = (handlers \ {Export(d)}) \union {Import(d)}
  OBVIOUS
<1>6. /\ UNCHANGED <<main, after, dependent, waiters, exportFor, badGuest, outcome, lost, broken, fatal,
                     errors, moves>>
      /\ delayed' = delayed \ {Import(d)}
  BY DEF NewOwn, authVars, historyVars
<1> HIDE DEF ExportDone
<1>7. TypeOK'
  <2>1. \A q \in handlers' : byDc'[q] # 0
    BY <1>0, <1>2, <1>5 DEF TypeOK, Registered
  <2> QED
    BY <1>0, <1>2, <1>3, <1>5, <1>6, <2>1 DEF TypeOK, Tables, Registered
<1>8. ASSUME NEW q \in handlers' PROVE q \in lost' \/ InPlace(q)'
  BY <1>3, <1>4, <1>5, <1>6 DEF IInv, Placed, InPlace
<1>9. AuthWorks'
  BY <1>5, <1>6, AllFacts DEF IInv, AuthWorks
<1>10. Promise' /\ LostBreaks'
  BY <1>0, <1>2, <1>5, <1>6, AllFacts DEF IInv, Promise, LostBreaks, Registered
<1>11. Releasable' /\ Acyclic'
  BY <1>0, <1>2, <1>6, AllFacts, RequestsAssumption DEF IInv, Releasable, Acyclic, Registered, TypeOK
<1> QED
  BY <1>7, <1>8, <1>9, <1>10, <1>11 DEF IInv, Placed

\* The end of a request x of the instance itself: nobody but those that wait for d
\* stood where they do not stand any more.
AuthEnd(d, x) ==
  /\ handlers' = handlers \ {x} /\ UNCHANGED <<outcome, after, dependent, delayed>>
  /\ \A q \in All \ {x} : byDc[q] # 0 => byDc'[q] # 0
  /\ \A q \in Requests : byDc'[q] # 0 => byDc[q] # 0
  /\ lost \subseteq lost' /\ broken \subseteq broken'
  /\ \A e \in Dcs \ {d} : waiters'[e] = waiters[e]
  /\ waiters'[d] = {} \/ (d \in broken' /\ waiters'[d] = waiters[d])
  /\ \A s \in Sessions : \A q \in session[s] \ {x} : q \in lost' \/ InPlace(q)'
  /\ \A q \in waiters[d] \ {x} : q \in handlers => q \in lost' \/ InPlace(q)'

LEMMA AuthEndKeeps ==
  ASSUME IInv, TypeOK', LostBreaks', NEW d \in Dcs, NEW x \in {Export(d), Import(d)}, AuthEnd(d, x)
  PROVE  IInv'
<1> USE DEF AuthEnd
<1>1. x \in All \ Requests /\ \A e \in Dcs \ {d} : x # Export(e) /\ x # Import(e)
  BY AllFacts
<1>2. ASSUME NEW q \in handlers' PROVE q \in lost' \/ InPlace(q)'
  <2>1. q \in handlers /\ q # x
    BY <1>2
  <2>2. CASE q \in lost
    BY <2>2
  <2>3. CASE \E s \in Sessions : q \in session[s]
    BY <2>1, <2>3
  <2>4. CASE q \in delayed \/ (q \in Requests /\ dependent[q] # None)
    BY <2>4 DEF InPlace
  <2>5. CASE \E e \in Dcs : q \in waiters[e]
    BY <2>1, <2>5 DEF InPlace
  <2> QED
    BY <2>1, <2>2, <2>3, <2>4, <2>5 DEF IInv, Placed, InPlace
<1>3. Promise'
  BY <1>1 DEF IInv, Promise, Registered
<1>4. AuthWorks'
  BY <1>1 DEF IInv, AuthWorks
<1>5. Releasable' /\ Acyclic'
  <2>1. ASSUME NEW q \in Requests, dependent'[q] # None PROVE byDc'[dependent'[q]] # 0
    <3>1. dependent[q] \in Requests /\ byDc[dependent[q]] # 0
      BY <2>1 DEF IInv, TypeOK, Releasable, Registered
    <3> QED
      BY <1>1, <3>1, AllFacts
  <2> QED
    BY <2>1, OrderKept
<1> QED
  BY <1>2, <1>3, <1>4, <1>5 DEF IInv, Placed

LEMMA ExportFailKeeps ==
  ASSUME IInv, NEW d \in Dcs, NEW t \in Sessions, ExportFail(d, t) PROVE IInv'
<1> USE DEF ExportFail, LeftWaiting
<1>0. TypeOK /\ errors' \in 0..MaxErrors /\ Export(d) \in All \ Requests
  BY ErrorCount, AllFacts DEF IInv
<1>1. session' \in Tables /\ \A s \in Sessions : \A q \in session[s] : q # Export(d) => q \in session'[s]
  BY <1>0, WithoutType
<1>2. /\ byDc' \in [All -> Dcs \union {0}] /\ \A q \in All \ {Export(d)} : byDc'[q] = byDc[q]
      /\ byDc'[Export(d)] = 0
  BY <1>0 DEF TypeOK
<1>3. /\ waiters' \in [Dcs -> SUBSET All] /\ waiters'[d] = {}
      /\ \A e \in Dcs \ {d} : waiters'[e] = waiters[e]
      /\ lost' = lost \union waiters[d] /\ waiters[d] \subseteq All /\ broken' = BrokenBy(waiters[d])
  BY <1>0 DEF TypeOK
<1>4. TypeOK'
  <2>1. \A q \in handlers' : byDc'[q] # 0
    BY <1>0, <1>2 DEF TypeOK, Registered
  <2> QED
    BY <1>0, <1>1, <1>2, <1>3, <2>1 DEF TypeOK, Tables, Registered, waitVars, BrokenBy
<1>5. LostBreaks' /\ broken \subseteq broken'
  BY <1>3 DEF IInv, LostBreaks, BrokenBy
<1>6. handlers' = handlers \ {Export(d)} /\ UNCHANGED <<outcome, after, dependent, delayed>>
  BY DEF waitVars
<1>7. /\ \A q \in All \ {Export(d)} : byDc[q] # 0 => byDc'[q] # 0
      /\ \A q \in Requests : byDc'[q] # 0 => byDc[q] # 0
  BY <1>0, <1>2, AllFacts
<1>8. /\ \A s \in Sessions : \A q \in session[s] \ {Export(d)} : q \in lost' \/ InPlace(q)'
      /\ \A q \in waiters[d] \ {Export(d)} : q \in handlers => q \in lost' \/ InPlace(q)'
  BY <1>1, <1>3 DEF InPlace
<1>9. Export(d) \in {Export(d), Import(d)} /\ lost \subseteq lost'
  BY <1>3
<1> HIDE DEF ExportFail, LeftWaiting
<1>10. AuthEnd(d, Export(d))
  BY <1>3, <1>5, <1>6, <1>7, <1>8, <1>9 DEF AuthEnd
<1> QED
  BY <1>4, <1>5, <1>9, <1>10, AuthEndKeeps

LEMMA ImportFailKeeps ==
  ASSUME IInv, NEW d \in Dcs, NEW t \in Sessions, ImportFail(d, t) PROVE IInv'
<1> USE DEF ImportFail
<1>0. TypeOK /\ errors' \in 0..MaxErrors /\ Import(d) \in All \ Requests
  BY ErrorCount, AllFacts DEF IInv
<1>1. session' \in Tables /\ \A s \in Sessions : \A q \in session[s] : q # Import(d) => q \in session'[s]
  BY <1>0, WithoutType
<1>2. /\ byDc' \in [All -> Dcs \union {0}] /\ \A q \in All \ {Import(d)} : byDc'[q] = byDc[q]
      /\ byDc'[Import(d)] = 0
  BY <1>0 DEF TypeOK
<1>4. TypeOK'
  <2>1. \A q \in handlers' : byDc'[q] # 0
    BY <1>0, <1>2 DEF TypeOK, Registered
  <2> QED
    BY <1>0, <1>1, <1>2, <2>1 DEF TypeOK, Tables, Registered, waitVars, authVars
<1>5. LostBreaks' /\ broken \subseteq broken'
  BY DEF IInv, LostBreaks
<1>6. AuthEnd(d, Import(d))
  BY <1>0, <1>1, <1>2, <1>5, AllFacts DEF AuthEnd, InPlace, waitVars, authVars
<1> QED
  BY <1>4, <1>5, <1>6, AuthEndKeeps

LEMMA ImportDoneKeeps ==
  ASSUME IInv, NEW d \in Dcs, NEW t \in Sessions, ImportDone(d, t) PROVE IInv'
<1> DEFINE i == Import(d)
           W == {w \in waiters[d] : Registered(w) /\ w # i}
           dcs == [w \in W |-> SentTo(w, d)]
           to == IF \E w \in W : ToMain(w) THEN d ELSE main
<1> USE DEF ImportDone, NoWaiters
<1>0. /\ TypeOK /\ LostBreaks /\ i \in All \ Requests /\ W \in SUBSET All /\ to \in Dcs /\ d # 0
      /\ SetMain(to, Without(t, i), W, dcs)
  BY AllFacts, DcFacts DEF IInv, TypeOK
<1>1. /\ Without(t, i) \in Tables
      /\ \A s \in Sessions : \A q \in session[s] : q # i => q \in Without(t, i)[s]
  BY <1>0, WithoutType
<1>2. /\ main' \in Dcs /\ session' \in Tables /\ lost' \subseteq All /\ broken' \subseteq Dcs
      /\ lost \subseteq lost' /\ broken \subseteq broken' /\ LostBreaks'
      /\ \A s \in Sessions : \A q \in Without(t, i)[s] : q \in lost' \/ q \in session'[s]
      /\ \A q \in W : dcs[q] \in Dcs \union {Nowhere} => \E s \in Sessions : q \in session'[s]
  <2> HIDE DEF ImportDone, W, dcs, to
  <2> QED
    BY <1>0, <1>1, SetMainStep
<1>3. \A q \in W : \E s \in Sessions : q \in session'[s]
  <2>1. \A q \in W : dcs[q] \in Dcs \union {Nowhere}
    BY DEF SentTo
  <2> QED
    BY <1>2, <2>1
<1>4. /\ byDc' \in [All -> Dcs \union {0}] /\ byDc'[i] = 0
      /\ \A q \in All \ {i} : byDc[q] # 0 <=> byDc'[q] # 0
  BY <1>0 DEF TypeOK, Registered
<1>5. /\ waiters' \in [Dcs -> SUBSET All] /\ waiters'[d] = {}
      /\ \A e \in Dcs \ {d} : waiters'[e] = waiters[e]
  BY <1>0 DEF TypeOK
<1>6. handlers' = handlers \ {i} /\ UNCHANGED <<delayed, after, dependent, exportFor, badGuest, outcome, fatal,
                                                errors, moves>>
  BY DEF waitVars
<1>7. \A q \in waiters[d] \ {i} : q \in handlers => q \in W
  BY <1>0 DEF TypeOK
<1> HIDE DEF ImportDone, NoWaiters, W, dcs, to
<1>8. TypeOK'
  <2>1. \A q \in handlers' : byDc'[q] # 0
    BY <1>0, <1>4, <1>6 DEF TypeOK, Registered
  <2> QED
    BY <1>0, <1>2, <1>4, <1>5, <1>6, <2>1 DEF TypeOK, Tables, Registered
<1>9. \A s \in Sessions : \A q \in session[s] \ {i} : q \in lost' \/ InPlace(q)'
  BY <1>1, <1>2 DEF InPlace
<1>10. \A q \in waiters[d] \ {i} : q \in handlers => q \in lost' \/ InPlace(q)'
  BY <1>3, <1>7 DEF InPlace
<1>11. \A q \in Requests : byDc'[q] # 0 => byDc[q] # 0
  BY <1>0, <1>4, AllFacts
<1>12. i \in {Export(d), Import(d)} /\ \A q \in All \ {i} : byDc[q] # 0 => byDc'[q] # 0
  BY <1>4
<1>13. UNCHANGED <<outcome, after, dependent, delayed>>
  BY <1>6
<1>14. handlers' = handlers \ {i}
  BY <1>6
<1> HIDE DEF i
<1>15. AuthEnd(d, i)
  BY <1>2, <1>5, <1>9, <1>10, <1>11, <1>12, <1>13, <1>14 DEF AuthEnd
<1> QED
  BY <1>2, <1>8, <1>12, <1>15, AuthEndKeeps

-----------------------------------------------------------------------------
(* The invariant, and what follows from it *)

LEMMA InitIInv == Init => IInv
<1> SUFFICES ASSUME Init PROVE IInv
  OBVIOUS
<1>1. TypeOK
  BY DcsAssumption, BoundsAssumption DEF Init, TypeOK
<1>2. Promise /\ Placed /\ AuthWorks /\ LostBreaks
  BY AllFacts DEF Init, Promise, Placed, AuthWorks, LostBreaks, Registered
<1>3. Releasable /\ Acyclic
  BY RequestsAssumption DEF Init, Releasable, Acyclic
<1> QED
  BY <1>1, <1>2, <1>3 DEF IInv

LEMMA StepIInv == IInv /\ [Next]_vars => IInv'
<1> SUFFICES ASSUME IInv, [Next]_vars PROVE IInv'
  OBVIOUS
<1>1. CASE UNCHANGED vars
  BY <1>1 DEF vars, tableVars, waitVars, authVars, historyVars, IInv, TypeOK, Promise, Placed, InPlace,
              AuthWorks, LostBreaks, Releasable, Acyclic, Registered
<1>2. ASSUME NEW r \in Requests, SendRequest(r) \/ CancelRequest(r) PROVE IInv'
  BY <1>2, SendRequestKeeps, CancelRequestKeeps
<1>3. ASSUME NEW r \in All, CheckDelayedRequests(r) PROVE IInv'
  BY <1>3, CheckDelayedKeeps
<1>4. ASSUME NEW r \in All, NEW t \in Sessions, Answer(r, t) PROVE IInv'
  <2>1. CASE AnswerDropped(r, t) \/ Done(r, t) \/ Fail(r, t)
    BY <2>1, EndKeeps
  <2>2. CASE FailLater(r, t) \/ FailFatal(r, t) \/ WaitFailed(r, t)
    BY <2>2, FailLaterKeeps, FailFatalKeeps, WaitFailedKeeps
  <2>7. CASE NotInited(r, t)
    BY <2>7, NotInitedKeeps
  <2>3. ASSUME NEW d \in Dcs, Migrate(r, t, d) PROVE IInv'
    BY <2>3, MigrateKeeps
  <2>4. ASSUME NEW d \in Dcs, ExportDone(d, t) \/ ExportFail(d, t) PROVE IInv'
    BY <2>4, ExportDoneKeeps, ExportFailKeeps
  <2>5. ASSUME NEW d \in Dcs, ImportDone(d, t) \/ ImportFail(d, t) PROVE IInv'
    BY <2>5, ImportDoneKeeps, ImportFailKeeps
  <2>6. ASSUME NEW bad \in BOOLEAN, Unauthorized(r, t, bad) PROVE IInv'
    BY <2>6, UnauthorizedKeeps
  <2> QED
    BY <1>4, <2>1, <2>2, <2>3, <2>4, <2>5, <2>6, <2>7 DEF Answer
<1>5. ASSUME NEW d \in Dcs, LoginElsewhere(d) \/ KillSession(d) PROVE IInv'
  BY <1>5, LoginElsewhereKeeps, KillSessionKeeps
<1> QED
  BY <1>1, <1>2, <1>3, <1>4, <1>5 DEF Next

THEOREM InstanceInvariant == Spec => []IInv
  BY InitIInv, StepIInv, PTL DEF Spec

\* Every variable keeps its type, and a handler is only kept for a registered request
\* (_parserMap and _requestsByDc).
THEOREM InstanceTypes == Spec => []TypeOK
<1>1. IInv => TypeOK
  BY DEF IInv
<1> QED
  BY <1>1, InstanceInvariant, PTL

LEMMA PlaceOf == ASSUME NEW r, InPlace(r) PROVE Places(r) # {}
<1>1. CASE \E s \in Sessions : r \in session[s]
  BY <1>1 DEF Places, Has
<1>2. CASE r \in delayed
  BY <1>2 DEF Places
<1>3. CASE \E d \in Dcs : r \in waiters[d]
  BY <1>3 DEF Places
<1>4. CASE r \in Requests /\ dependent[r] # None
  BY <1>4 DEF Places
<1> QED
  BY <1>1, <1>2, <1>3, <1>4 DEF InPlace

\* Whatever errors are answered, data centers change and authorizations fail: a request
\* whose handler waits is in a session or in one of the lists (_delayedRequests,
\* _authWaiters, _dependentRequests), unless setMainDcId or killSession destroyed its
\* session or exportFail dropped it.  It says where the request is, not that it leaves:
\* who waits for an import that failed, or is in the session Nowhere, has a place as well.
THEOREM NothingLost == Spec => []NoLostRequest
<1>1. ASSUME IInv, NEW r \in handlers, r \notin lost PROVE Places(r) # {}
  BY <1>1, PlaceOf DEF IInv, Placed
<1>2. IInv => NoLostRequest
  BY <1>1 DEF NoLostRequest
<1> QED
  BY <1>2, InstanceInvariant, PTL

\* Requests never wait for each other in a circle, nor for one that will not release
\* them any more (_dependentRequests).
THEOREM NoCircle == Spec => []DependentIsReleased
<1>1. IInv => DependentIsReleased
  BY DEF IInv, Releasable, Acyclic, DependentIsReleased
<1> QED
  BY <1>1, InstanceInvariant, PTL

\* While requests wait for an authorization its export or its import is on its way, or
\* one of them was lost or failed (_authWaiters).
THEOREM AuthIsWorkedOn == Spec => []WaitersAreServed
<1>1. ASSUME IInv, NEW d \in Dcs, waiters[d] # {}, d \notin broken
      PROVE  Places(Export(d)) # {} \/ Places(Import(d)) # {}
  <2>1. PICK x \in {Export(d), Import(d)} : x \in handlers
    BY <1>1 DEF IInv, AuthWorks
  <2>2. InPlace(x)
    BY <1>1, <2>1 DEF IInv, Placed, LostBreaks
  <2> QED
    BY <2>1, <2>2, PlaceOf
<1>2. IInv => WaitersAreServed
  BY <1>1 DEF WaitersAreServed
<1> QED
  BY <1>2, InstanceInvariant, PTL

-----------------------------------------------------------------------------
(* The promise of module Handlers *)

\* A step of Instance sends one request, ends one, or does nothing that Handlers sees.
LEMMA StepPromise == IInv /\ [Next]_vars => [Contract!Next]_outcome
<1> SUFFICES ASSUME IInv, [Next]_vars, outcome' # outcome PROVE Contract!Next
  OBVIOUS
<1> USE DEF Contract!Next, Contract!Send, Contract!Finish
<1>0. TypeOK /\ Promise
  BY DEF IInv
<1>1. CASE \E r \in Requests : SendRequest(r)
  BY <1>1 DEF SendRequest
<1>2. CASE \E r \in Requests : CancelRequest(r)
  BY <1>2 DEF CancelRequest
<1>3. ASSUME NEW r \in All, NEW t \in Sessions, Done(r, t) \/ Fail(r, t) PROVE Contract!Next
  <2>1. r \in Requests /\ r \in handlers
    BY <1>3 DEF Done, Fail, Answerable
  <2>2. PICK o \in {"done", "failed"} : Finish(r, o)
    BY <1>3 DEF Done, Fail
  <2>3. outcome[r] = "wanted"
    BY <1>0, <2>1 DEF Promise
  <2>4. outcome' = [outcome EXCEPT ![r] = o]
    BY <1>0, <2>1, <2>2 DEF Finish, TypeOK
  <2>5. Contract!Finish(r)
    BY <2>3, <2>4
  <2> QED
    BY <2>1, <2>5
<1>4. ASSUME NEW r \in All, NEW t \in Sessions, Answer(r, t) PROVE Done(r, t) \/ Fail(r, t)
  BY <1>4 DEF Answer, AnswerDropped, FailLater, FailFatal, NotInited, WaitFailed, Migrate, ExportDone,
              ExportFail, ImportDone, ImportFail, Unauthorized, historyVars
<1>5. \A r \in All : ~CheckDelayedRequests(r)
  BY DEF CheckDelayedRequests, historyVars
<1>6. \A d \in Dcs : ~LoginElsewhere(d) /\ ~KillSession(d)
  BY DEF LoginElsewhere, KillSession
<1>7. ~UNCHANGED vars
  BY DEF vars, historyVars
<1> QED
  BY <1>1, <1>2, <1>3, <1>4, <1>5, <1>6, <1>7 DEF Next

\* For any requests and data centers, whatever errors cross: a handler is called at most
\* once, and not after its request was cancelled (_parserMap).
THEOREM PromiseKeptByInstance == Spec => HandlersKeepPromise
<1>1. Init => Contract!Init
  BY DEF Init, Contract!Init
<1> QED
  BY <1>1, InstanceInvariant, StepPromise, PTL DEF Spec, HandlersKeepPromise, Contract!Spec
=============================================================================
