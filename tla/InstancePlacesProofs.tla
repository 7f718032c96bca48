------------------------ MODULE InstancePlacesProofs ------------------------
(***************************************************************************)
(* InOnePlace of module Instance, for any requests and data centers: no    *)
(* error, delay, export or release makes two copies of a request whose     *)
(* handler waits, except after a fatal bad_msg_notification (`fatal`), of   *)
(* which nothing is shown.  What leaves a place was nowhere else (Alone), and what  *)
(* is sent for the first time, or again under an identifier of its own     *)
(* (an export or an import), is nowhere (Homeless).                        *)
(***************************************************************************)
EXTENDS InstanceProofs, FiniteSetTheorems

Waits(r) == \E d \in Dcs : r \in waiters[d]
Depends(r) == r \in Requests /\ dependent[r] # None
InSession(r) == \E s \in Sessions : r \in session[s]

\* A request is in one place at most, in the form that a step preserves.
Alone(r) ==
  /\ \A s, u \in Sessions : r \in session[s] /\ r \in session[u] => s = u
  /\ \A d, e \in Dcs : r \in waiters[d] /\ r \in waiters[e] => d = e
  /\ InSession(r) => r \notin delayed /\ ~Waits(r) /\ ~Depends(r)
  /\ r \in delayed => ~Waits(r) /\ ~Depends(r)
  /\ Waits(r) => ~Depends(r)

Homeless(r) == ~InSession(r) /\ r \notin delayed /\ ~Waits(r) /\ ~Depends(r)

Own == Exports \union Imports

\* Of a data center, one of the export and the import is under way, while somebody waits.
OneAtATime ==
  \A d \in Dcs : /\ ~(Export(d) \in handlers /\ Import(d) \in handlers)
                 /\ Export(d) \in handlers \/ Import(d) \in handlers => waiters[d] # {}

PInv ==
  /\ \A r \in handlers \ fatal : Alone(r)
  /\ \A r \in Requests : outcome[r] = "none" => Homeless(r)
  /\ \A r \in Own \ (handlers \union fatal) : Homeless(r)
  /\ OneAtATime

-----------------------------------------------------------------------------
(* What a step leaves of the places of a request *)

Kept(q) ==
  /\ \A s \in Sessions : q \in session'[s] => q \in session[s]
  /\ q \in delayed' => q \in delayed
  /\ \A d \in Dcs : q \in waiters'[d] => q \in waiters[d]
  /\ q \in Requests /\ dependent'[q] # None => dependent[q] # None

LEMMA KeptIsAlone == ASSUME NEW q, Kept(q), Alone(q) PROVE Alone(q)'
  BY DEF Kept, Alone, Waits, Depends, InSession

LEMMA KeptIsHomeless == ASSUME NEW q, Kept(q), Homeless(q) PROVE Homeless(q)'
  BY DEF Kept, Homeless, Waits, Depends, InSession

LEMMA HomelessIsAlone == ASSUME NEW q, Homeless(q) PROVE Alone(q)
  BY DEF Homeless, Alone, InSession, Waits

\* All requests but those of M keep their places, or lose them.
LEMMA Carry ==
  ASSUME PInv, NEW M, handlers' \subseteq All, fatal \subseteq fatal',
         \A q \in All \ M : Kept(q),
         \A q \in handlers' \ M : q \in handlers,
         \A q \in M : q \in handlers' \ fatal' => Alone(q)',
         \A q \in M \intersect Own : q \in handlers' \union fatal' \/ Homeless(q)',
         \A q \in Own \ M : q \in handlers => q \in handlers',
         \A r \in Requests : outcome'[r] = "none" => outcome[r] = "none" /\ r \notin M,
         OneAtATime'
  PROVE  PInv'
<1>1. ASSUME NEW r \in handlers' \ fatal' PROVE Alone(r)'
  BY KeptIsAlone DEF PInv
<1>2. ASSUME NEW r \in Requests, outcome'[r] = "none" PROVE Homeless(r)'
  BY <1>2, AllFacts, KeptIsHomeless DEF PInv
<1>3. ASSUME NEW r \in Own \ (handlers' \union fatal') PROVE Homeless(r)'
  BY AllFacts, KeptIsHomeless DEF PInv, Own
<1> QED
  BY <1>1, <1>2, <1>3 DEF PInv

LEMMA SendAdds ==
  ASSUME NEW from, NEW R, NEW dcs, NEW s \in Sessions, NEW q \in SendPrepared(from, R, dcs)[s]
  PROVE  q \in from[s] \/ (q \in R /\ s = SessionOf(q, dcs[q]))
  BY DEF SendPrepared

LEMMA WithoutLess ==
  ASSUME TypeOK, NEW t \in Sessions, NEW r, NEW s \in Sessions, NEW q \in Without(t, r)[s]
  PROVE  q \in session[s] /\ (q = r => s # t)
  BY DEF TypeOK, Without

\* What is taken out of its session is nowhere else.
LEMMA Taken ==
  ASSUME TypeOK, PInv, NEW r \in handlers \ fatal, NEW t \in Sessions, Has(t, r)
  PROVE  /\ \A s \in Sessions : r \notin Without(t, r)[s]
         /\ r \notin delayed /\ ~Waits(r) /\ ~Depends(r)
<1>1. Alone(r)
  BY DEF PInv
<1> QED
  BY <1>1, WithoutLess DEF Alone, InSession, Has

\* Sent to one session and nowhere else.
LEMMA SentIsAlone ==
  ASSUME NEW r, NEW s0, \A s \in Sessions : r \in session'[s] => s = s0,
         r \notin delayed', ~Waits(r)', ~Depends(r)'
  PROVE  Alone(r)'
  BY DEF Alone, Waits

LEMMA ResentIsAlone ==
  ASSUME NEW r, NEW from, \A s \in Sessions : r \notin from[s],
         NEW R, NEW dcs, session' = SendPrepared(from, R, dcs),
         r \notin delayed', ~Waits(r)', ~Depends(r)'
  PROVE  Alone(r)'
<1>1. \A s \in Sessions : r \in session'[s] => s = SessionOf(r, dcs[r])
  BY SendAdds
<1> QED
  BY <1>1, SentIsAlone

\* Taken back, to wait in one way.
LEMMA TakenIsAlone ==
  ASSUME NEW r, \A s \in Sessions : r \notin session'[s], ~Waits(r)',
         ~(r \in delayed' /\ Depends(r)')
  PROVE  Alone(r)'
<1>1. ~InSession(r)'
  BY DEF InSession
<1> QED
  BY <1>1 DEF Alone, InSession, Waits

-----------------------------------------------------------------------------
(* Actions *)

OutcomeKept(M) == \A r \in Requests : outcome'[r] = "none" => outcome[r] = "none" /\ r \notin M

\* Who has a handler was sent, and no request of the application is an own one.
LEMMA Wanted ==
  ASSUME IInv, NEW r \in handlers
  PROVE  /\ r \in All /\ (r \in Requests => outcome[r] # "none" /\ r \notin Own)
         /\ byDc[r] \in Dcs /\ (r \notin Requests => r \in Own)
  BY RequestsAssumption DEF IInv, TypeOK, Promise, Registered, Own, All

\* One request with a handler changes its place, or loses it.
LEMMA OneMoves ==
  ASSUME IInv, PInv, NEW r \in All, r \in handlers \ fatal' => Alone(r)',
         UNCHANGED <<handlers, outcome>>, fatal \subseteq fatal',
         r \notin handlers => ~Homeless(r),
         \A q \in All \ {r} : Kept(q), \A d \in Dcs : waiters[d] # {} => waiters'[d] # {}
  PROVE  PInv'
<1>1. OneAtATime'
  BY DEF PInv, OneAtATime
<1>2. handlers' \subseteq All
  BY DEF IInv, TypeOK
<1>3. r \in Own => r \in handlers \union fatal
  BY DEF PInv
<1>4. r \in Requests => outcome[r] # "none"
  BY Wanted DEF PInv
<1>5. handlers' = handlers /\ outcome' = outcome
  OBVIOUS
<1>6. /\ \A q \in handlers' \ {r} : q \in handlers
      /\ \A q \in {r} : q \in handlers' \ fatal' => Alone(q)'
      /\ \A q \in {r} \intersect Own : q \in handlers' \union fatal' \/ Homeless(q)'
      /\ \A q \in Own \ {r} : q \in handlers => q \in handlers'
      /\ \A x \in Requests : outcome'[x] = "none" => outcome[x] = "none" /\ x \notin {r}
  BY <1>3, <1>4, <1>5
<1> QED
  BY <1>1, <1>2, <1>6, Carry

LEMMA FailFatalPlaces ==
  ASSUME IInv, PInv, NEW r \in All, NEW t \in Sessions, FailFatal(r, t) PROVE PInv'
<1> USE DEF FailFatal, tableVars, authVars
<1>1. r \in handlers /\ r \in fatal' /\ fatal \subseteq fatal'
  BY DEF Answerable
<1>2. \A q \in All \ {r} : Kept(q)
  BY DEF Kept
<1>3. UNCHANGED <<handlers, outcome, waiters>>
  OBVIOUS
<1> HIDE DEF FailFatal
<1> QED
  BY <1>1, <1>2, <1>3, OneMoves

LEMMA FailLaterPlaces ==
  ASSUME IInv, PInv, NEW r \in All, NEW t \in Sessions, FailLater(r, t) PROVE PInv'
<1> USE DEF FailLater, tableVars, authVars, historyVars
<1>0. r \in handlers /\ TypeOK /\ fatal' = fatal
  BY DEF Answerable, IInv
<1>1. ASSUME r \notin fatal
      PROVE  (\A s \in Sessions : r \notin session'[s]) /\ ~Waits(r) /\ ~Depends(r)
  BY <1>0, <1>1, Taken DEF Answerable
<1>2. r \notin fatal => Alone(r)'
  BY <1>1, TakenIsAlone DEF Waits, Depends
<1>3. \A q \in All \ {r} : Kept(q)
  BY <1>0, WithoutLess DEF Kept
<1> QED
  BY <1>0, <1>2, <1>3, OneMoves

LEMMA NotInitedPlaces ==
  ASSUME IInv, PInv, NEW r \in All, NEW t \in Sessions, NotInited(r, t) PROVE PInv'
<1> USE DEF NotInited, tableVars, waitVars, authVars, historyVars
<1>0. r \in handlers /\ TypeOK /\ fatal' = fatal
  BY DEF Answerable, IInv
<1>1. ASSUME r \notin fatal
      PROVE  /\ \A s \in Sessions : r \notin Without(t, r)[s]
             /\ r \notin delayed /\ ~Waits(r) /\ ~Depends(r)
  BY <1>0, <1>1, Taken DEF Answerable
<1>2. r \notin fatal => Alone(r)'
  BY <1>1, ResentIsAlone DEF Waits, Depends
<1>3. \A q \in All \ {r} : Kept(q)
  BY <1>0, SendAdds, WithoutLess DEF Kept
<1> QED
  BY <1>0, <1>2, <1>3, OneMoves

LEMMA WaitFailedPlaces ==
  ASSUME IInv, PInv, NEW r \in All, NEW t \in Sessions, WaitFailed(r, t) PROVE PInv'
<1> USE DEF WaitFailed, tableVars, authVars, historyVars
<1>0. r \in handlers /\ TypeOK /\ fatal' = fatal
  BY DEF Answerable, IInv
<1>1. ASSUME r \notin fatal
      PROVE  /\ \A s \in Sessions : r \notin Without(t, r)[s]
             /\ r \notin delayed /\ ~Waits(r) /\ ~Depends(r)
  BY <1>0, <1>1, Taken DEF Answerable
<1>2. CASE StillBefore(r)
  <2>1. \A q \in Requests \ {r} : dependent'[q] = dependent[q]
    BY <1>0, <1>2 DEF TypeOK
  <2>2. ASSUME r \notin fatal PROVE Alone(r)'
    <3>1. \A s \in Sessions : r \notin session'[s]
      BY <1>1, <1>2, <2>2
    <3> QED
      BY <1>1, <2>2, <3>1, TakenIsAlone DEF Waits
  <2>3. \A q \in All \ {r} : Kept(q)
    BY <1>0, <1>2, <2>1, WithoutLess DEF Kept
  <2> QED
    BY <1>0, <2>2, <2>3, OneMoves
<1>3. CASE ~StillBefore(r)
  <2>1. session' = SendPrepared(Without(t, r), {r}, byDc) /\ UNCHANGED dependent
    BY <1>3
  <2>2. r \notin fatal => Alone(r)'
    BY <1>1, <2>1, ResentIsAlone DEF Waits, Depends
  <2>3. \A q \in All \ {r} : Kept(q)
    BY <1>0, <2>1, SendAdds, WithoutLess DEF Kept
  <2> QED
    BY <1>0, <2>2, <2>3, OneMoves
<1> QED
  BY <1>2, <1>3

LEMMA CheckDelayedPlaces ==
  ASSUME IInv, PInv, NEW r \in All, CheckDelayedRequests(r) PROVE PInv'
<1> USE DEF CheckDelayedRequests, tableVars, authVars, historyVars
<1>0. UNCHANGED <<handlers, outcome, waiters, fatal>> /\ (r \notin handlers => ~Homeless(r))
  BY DEF Homeless
<1>1. CASE r \in handlers \ fatal
  <2>1. r \in delayed /\ Alone(r) /\ session' = SendPrepared(session, {r}, byDc)
    BY <1>1 DEF PInv, IInv, TypeOK, GiveDelayed
  <2>2. \A s \in Sessions : r \notin session[s]
    BY <2>1 DEF Alone, InSession
  <2>3. r \notin delayed' /\ ~Waits(r)' /\ ~Depends(r)'
    BY <2>1 DEF Alone, Waits, Depends
  <2>5. Alone(r)'
    BY <2>1, <2>2, <2>3, ResentIsAlone
  <2>4. \A q \in All \ {r} : Kept(q)
    BY <2>1, SendAdds DEF Kept
  <2> QED
    BY <1>0, <1>1, <2>4, <2>5, OneMoves
<1>2. CASE r \notin handlers \ fatal
  <2>1. \A q \in All \ {r} : Kept(q)
    BY SendAdds DEF Kept, GiveDelayed
  <2> HIDE DEF CheckDelayedRequests
  <2> QED
    BY <1>0, <1>2, <2>1, OneMoves
<1> QED
  BY <1>1, <1>2

-----------------------------------------------------------------------------
(* Releasing *)

\* Whoever is released waits for one of the released, or for r.
LEMMA ReleasedWait ==
  ASSUME NEW r, NEW q \in Released(r) PROVE dependent[q] \in Released(r) \union {r}
<1> DEFINE S == (Released(r) \union {r}) \ {q}
<1> SUFFICES ASSUME dependent[q] \notin Released(r) \union {r} PROVE FALSE
  OBVIOUS
<1>1. q \in Requests \ {r} /\ Released(r) \subseteq Requests
  BY DEF Released
<1>2. S \in SUBSET (Requests \union {r}) /\ r \in S
  BY <1>1
<1>3. ASSUME NEW x \in Requests, dependent[x] \in S PROVE x \in S
  BY <1>3, ReleasedIsClosed
<1> HIDE DEF S
<1>4. q \in S
  BY <1>2, <1>3 DEF Released
<1> QED
  BY <1>4 DEF S

LEMMA UnregisterPlaces ==
  ASSUME IInv, PInv, NEW r \in All, NEW from, Unregister(r, from),
         \A s \in Sessions : \A q \in from[s] : q \in session[s],
         handlers' = handlers \ {r}, UNCHANGED <<delayed, waiters, fatal>>,
         r \in Requests \/ (r \in fatal /\ r \notin handlers),
         r \in Requests => outcome[r] # "none" /\ outcome'[r] # "none",
         \A q \in Requests \ {r} : outcome'[q] = outcome[q]
  PROVE  PInv'
<1> DEFINE L == Released(r)
<1>1. \A q \in L : q \in Requests \ {r} /\ dependent[q] \in L \union {r}
  BY ReleasedWait DEF Released
<1>2. \A q \in L : dependent[q] # None /\ ~Homeless(q) /\ Depends(q)
  BY <1>1, AllFacts DEF Homeless, Depends
<1>3. /\ session' = SendPrepared(from, L, byDc')
      /\ \A q \in Requests : dependent'[q] # None => dependent[q] # None
      /\ \A q \in L : dependent'[q] = None
  BY <1>1 DEF Unregister
<1> HIDE DEF L
<1>4. \A q \in All \ ({r} \union L) : Kept(q)
  BY <1>3, SendAdds DEF Kept
<1>5. ASSUME NEW q \in L, q \in handlers' \ fatal' PROVE Alone(q)'
  <2>1. Alone(q)
    BY <1>5 DEF PInv
  <2>2. (\A s \in Sessions : q \notin session[s]) /\ q \notin delayed /\ ~Waits(q)
    BY <1>2, <2>1 DEF Alone, InSession
  <2>3. (\A s \in Sessions : q \notin from[s]) /\ q \notin delayed' /\ ~Waits(q)'
    BY <2>2 DEF Waits
  <2>4. ~Depends(q)'
    BY <1>3 DEF Depends
  <2> QED
    BY <1>3, <2>3, <2>4, ResentIsAlone
<1>6. handlers' \subseteq All
  BY DEF IInv, TypeOK
<1>7. /\ \A q \in ({r} \union L) \intersect Own : q \in fatal'
      /\ \A q \in Own \ ({r} \union L) : q \in handlers => q \in handlers'
  BY <1>1, RequestsAssumption DEF Own
<1>8. \A x \in Requests : outcome'[x] = "none" => outcome[x] = "none" /\ x \notin {r} \union L
  BY <1>2 DEF PInv
<1>9. OneAtATime'
  <2>1. \A d \in Dcs : /\ Export(d) \in handlers' <=> Export(d) \in handlers
                       /\ Import(d) \in handlers' <=> Import(d) \in handlers
    BY AllFacts
  <2> QED
    BY <2>1 DEF PInv, OneAtATime
<1> QED
  BY <1>4, <1>5, <1>6, <1>7, <1>8, <1>9, Carry

LEMMA EndPlaces ==
  ASSUME IInv, PInv, NEW r \in All, NEW t \in Sessions,
         AnswerDropped(r, t) \/ Done(r, t) \/ Fail(r, t)
  PROVE  PInv'
<1>1. TypeOK /\ Has(t, r) /\ Unregister(r, Without(t, r))
      /\ UNCHANGED <<delayed, waiters, fatal>>
  BY DEF IInv, AnswerDropped, Done, Fail, Answerable, authVars, historyVars
<1>2. /\ r \in Requests \/ (r \in fatal /\ r \notin handlers)
      /\ r \in Requests => outcome[r] # "none"
  <2>1. CASE r \in handlers
    BY <2>1, Wanted DEF AnswerDropped, Done, Fail
  <2>2. CASE r \notin handlers
    <3>1. ~Homeless(r)
      BY <1>1 DEF Homeless, InSession, Has
    <3> QED
      BY <2>2, <3>1 DEF PInv, Own, All
  <2> QED
    BY <2>1, <2>2
<1>3. handlers' = handlers \ {r} /\ (r \in Requests => outcome'[r] # "none")
  BY <1>2 DEF AnswerDropped, Done, Fail, Finish, historyVars
<1>4. \A q \in Requests \ {r} : outcome'[q] = outcome[q]
  BY DEF AnswerDropped, Done, Fail, Finish, historyVars
<1>5. \A s \in Sessions : \A q \in Without(t, r)[s] : q \in session[s]
  BY <1>1, WithoutLess
<1> QED
  BY <1>1, <1>2, <1>3, <1>4, <1>5, UnregisterPlaces

LEMMA CancelRequestPlaces ==
  ASSUME IInv, PInv, NEW r \in Requests, CancelRequest(r) PROVE PInv'
<1> USE DEF CancelRequest
<1>0. TypeOK /\ r \in handlers /\ r \in All
  BY AllFacts DEF IInv, Promise
<1>1. PICK from \in {session, Without(SessionOf(r, byDc[r]), r)} : Unregister(r, from)
  OBVIOUS
<1>2. SessionOf(r, byDc[r]) \in Sessions
  BY <1>0, Wanted, SessionOfIn
<1>3. \A s \in Sessions : \A q \in from[s] : q \in session[s]
  BY <1>0, <1>2, WithoutLess
<1>4. /\ handlers' = handlers \ {r} /\ UNCHANGED <<delayed, waiters, fatal>>
      /\ outcome[r] # "none" /\ outcome'[r] # "none"
      /\ \A q \in Requests \ {r} : outcome'[q] = outcome[q]
  BY <1>0 DEF TypeOK, authVars
<1> HIDE DEF CancelRequest
<1> QED
  BY <1>0, <1>1, <1>3, <1>4, UnregisterPlaces

-----------------------------------------------------------------------------
(* Sending, and sessions that are destroyed *)

LEMMA SendRequestPlaces ==
  ASSUME IInv, PInv, NEW r \in Requests, SendRequest(r) PROVE PInv'
<1> USE DEF SendRequest
<1>0. TypeOK /\ Homeless(r) /\ r \in All /\ r \notin Own
  BY AllFacts, RequestsAssumption DEF IInv, PInv, Own
<1>1. UNCHANGED <<delayed, waiters, fatal>> /\ r \notin delayed /\ ~Waits(r)
      /\ \A s \in Sessions : r \notin session[s]
  BY <1>0 DEF Homeless, InSession, authVars
<1>2. session' = session \/ (session' = SendPrepared(session, {r}, byDc') /\ UNCHANGED dependent)
  OBVIOUS
<1>3. Alone(r)'
  <2>1. r \notin delayed' /\ ~Waits(r)'
    BY <1>1 DEF Waits
  <2>2. CASE session' = session
    BY <1>1, <2>1, <2>2, TakenIsAlone
  <2>3. CASE session' = SendPrepared(session, {r}, byDc') /\ UNCHANGED dependent
    <3>1. ~Depends(r)'
      BY <1>0, <2>3 DEF Homeless, Depends
    <3> QED
      BY <1>1, <2>1, <2>3, <3>1, ResentIsAlone
  <2> QED
    BY <1>2, <2>2, <2>3
<1>4. \A q \in Requests \ {r} : dependent'[q] = dependent[q]
  BY <1>0 DEF TypeOK
<1>5. \A q \in All \ {r} : Kept(q)
  BY <1>1, <1>2, <1>4, SendAdds DEF Kept
<1>6. \A x \in Requests : outcome'[x] = "none" => outcome[x] = "none" /\ x \notin {r}
  BY <1>0 DEF TypeOK
<1>7. OneAtATime' /\ handlers' = handlers \union {r} /\ handlers' \subseteq All
  BY <1>0, <1>1, AllFacts DEF PInv, OneAtATime, TypeOK
<1> HIDE DEF SendRequest
<1>8. /\ fatal \subseteq fatal' /\ \A q \in handlers' \ {r} : q \in handlers
      /\ \A q \in Own \ {r} : q \in handlers => q \in handlers'
      /\ {r} \intersect Own = {} /\ \A q \in {r} : Alone(q)'
  BY <1>0, <1>1, <1>3, <1>7
<1> QED
  BY <1>5, <1>6, <1>7, <1>8, Carry

LEMMA SetMainAdds ==
  ASSUME NEW d, NEW from, NEW R, NEW dcs, SetMain(d, from, R, dcs)
  PROVE  /\ session' = SendPrepared(DestroyFor(d, from), R, dcs)
         /\ \A s \in Sessions : \A q \in DestroyFor(d, from)[s] : q \in from[s]
         /\ \A s \in Sessions : \A q \in session'[s] : q \in from[s] \/ q \in R
<1>1. \A s \in Sessions : \A q \in DestroyFor(d, from)[s] : q \in from[s]
  BY DEF DestroyFor
<1> QED
  BY <1>1, SendAdds DEF SetMain

LEMMA DestroyPlaces ==
  ASSUME IInv, PInv, NEW d \in Dcs, LoginElsewhere(d) \/ KillSession(d) PROVE PInv'
<1>1. \A s \in Sessions : \A q \in session'[s] : q \in session[s]
  <2>1. CASE LoginElsewhere(d)
    BY <2>1, SetMainAdds DEF LoginElsewhere
  <2>2. CASE KillSession(d)
    BY <2>2 DEF KillSession, IInv, TypeOK
  <2> QED
    BY <2>1, <2>2
<1>2. UNCHANGED <<handlers, outcome, delayed, dependent, waiters, fatal>>
  BY DEF LoginElsewhere, KillSession, tableVars, waitVars, authVars
<1>3. \A q : Kept(q)
  BY <1>1, <1>2 DEF Kept
<1>4. \A q \in handlers' \ fatal' : Alone(q)'
  BY <1>2, <1>3, KeptIsAlone DEF PInv
<1>5. \A q \in Requests : outcome'[q] = "none" => Homeless(q)'
  BY <1>2, <1>3, KeptIsHomeless DEF PInv
<1>6. \A q \in Own \ (handlers' \union fatal') : Homeless(q)'
  BY <1>2, <1>3, KeptIsHomeless DEF PInv
<1>7. OneAtATime'
  BY <1>2 DEF PInv, OneAtATime
<1> QED
  BY <1>4, <1>5, <1>6, <1>7 DEF PInv

LEMMA MigratePlaces ==
  ASSUME IInv, PInv, NEW r \in All, NEW t \in Sessions, NEW d \in Dcs, Migrate(r, t, d) PROVE PInv'
<1> USE DEF Migrate
<1>0. r \in handlers /\ TypeOK /\ fatal' = fatal
  BY DEF Answerable, IInv
<1>1. ASSUME r \notin fatal
      PROVE  /\ \A s \in Sessions : r \notin Without(t, r)[s]
             /\ r \notin delayed /\ ~Waits(r) /\ ~Depends(r)
  BY <1>0, <1>1, Taken DEF Answerable
<1>2. UNCHANGED <<handlers, outcome, delayed, dependent, waiters>>
  BY DEF waitVars, authVars
<1>3. PICK from :
        /\ session' = SendPrepared(from, {r}, byDc')
        /\ \A s \in Sessions : \A q \in from[s] : q \in Without(t, r)[s]
  <2>1. CASE r \in MainBound
    <3>1. SetMain(d, Without(t, r), {r}, byDc')
      BY <2>1
    <3> QED
      BY <3>1, SetMainAdds
  <2>2. CASE r \notin MainBound
    BY <2>2
  <2> QED
    BY <2>1, <2>2
<1>4. ASSUME r \notin fatal PROVE Alone(r)'
  <2>1. (\A s \in Sessions : r \notin from[s]) /\ r \notin delayed' /\ ~Waits(r)' /\ ~Depends(r)'
    BY <1>0, <1>1, <1>2, <1>3, <1>4 DEF Waits, Depends
  <2> QED
    BY <1>3, <2>1, ResentIsAlone
<1>5. \A q \in All \ {r} : Kept(q)
  BY <1>0, <1>2, <1>3, SendAdds, WithoutLess DEF Kept
<1> HIDE DEF Migrate
<1> QED
  BY <1>0, <1>2, <1>4, <1>5, OneMoves

-----------------------------------------------------------------------------
(* Authorization *)

\* What is in one list of waiters and nowhere else.
LEMMA WaitsIsAlone ==
  ASSUME NEW r, NEW d, \A s \in Sessions : r \notin session'[s], r \notin delayed', ~Depends(r)',
         \A e \in Dcs : r \in waiters'[e] => e = d
  PROVE  Alone(r)'
  BY DEF Alone, InSession

\* An export or an import that ended.
LEMMA OwnGone ==
  ASSUME NEW q, q \notin Requests, \A s \in Sessions : q \notin session'[s],
         q \notin delayed', ~Waits(q)'
  PROVE  Homeless(q)'
  BY DEF Homeless, InSession, Depends

LEMMA UnauthorizedPlaces ==
  ASSUME IInv, PInv, NEW r \in All, NEW t \in Sessions, NEW bad, Unauthorized(r, t, bad)
  PROVE  PInv'
<1> SUFFICES ASSUME NEW d, d = byDc[r] PROVE PInv'
  OBVIOUS
<1> DEFINE x == Export(d)
<1> USE DEF Unauthorized
<1>0. r \in handlers /\ TypeOK /\ fatal' = fatal
  BY DEF Answerable, IInv
<1>1. ASSUME r \notin fatal
      PROVE  /\ \A s \in Sessions : r \notin Without(t, r)[s]
             /\ r \notin delayed /\ ~Waits(r) /\ ~Depends(r)
  BY <1>0, <1>1, Taken DEF Answerable
<1>2. d \in Dcs
  BY <1>0, Wanted
<1>3. /\ waiters' \in [Dcs -> SUBSET All] /\ waiters'[d] = waiters[d] \union {r}
      /\ \A e \in Dcs \ {d} : waiters'[e] = waiters[e]
      /\ UNCHANGED <<dependent, outcome>> /\ \A q \in delayed' : q \in delayed
  BY <1>0, <1>2 DEF TypeOK, NewOwn
<1>4. CASE waiters[d] # {}
  <2>1. session' = Without(t, r) /\ UNCHANGED handlers
    BY <1>4
  <2>2. ASSUME r \notin fatal
        PROVE  /\ \A s \in Sessions : r \notin session'[s]
               /\ r \notin delayed' /\ ~Depends(r)' /\ \A e \in Dcs : r \in waiters'[e] => e = d
    BY <1>1, <1>3, <2>1, <2>2 DEF Waits, Depends
  <2>3. r \notin fatal => Alone(r)'
    BY <2>2, WaitsIsAlone
  <2>4. \A q \in All \ {r} : Kept(q)
    BY <1>0, <1>3, <2>1, WithoutLess DEF Kept
  <2>5. \A e \in Dcs : waiters[e] # {} => waiters'[e] # {}
    BY <1>3
  <2> QED
    BY <1>0, <1>3, <2>1, <2>3, <2>4, <2>5, OneMoves
<1>5. CASE waiters[d] = {}
  <2>1. handlers' = handlers \union {x} /\ session' = SendPrepared(Without(t, r), {x}, byDc')
    BY <1>5
  <2>2. x \notin handlers /\ Import(d) \notin handlers /\ x \in All \ Requests /\ x \in Own /\ x # r
    BY <1>0, <1>2, <1>5, AllFacts DEF PInv, OneAtATime, Own, Exports
  <2> HIDE DEF x, Unauthorized
  <2>3. x \notin fatal => Homeless(x)
    BY <2>2 DEF PInv
  <2>4. ASSUME r \notin fatal PROVE Alone(r)'
    <3>1. (\A s \in Sessions : r \notin session'[s]) /\ r \notin delayed' /\ ~Depends(r)'
          /\ \A e \in Dcs : r \in waiters'[e] => e = d
      BY <1>1, <1>3, <2>1, <2>2, <2>4, SendAdds DEF Waits, Depends
    <3> QED
      BY <3>1, WaitsIsAlone
  <2>5. ASSUME x \notin fatal PROVE Alone(x)'
    <3>1. (\A s \in Sessions : x \notin Without(t, r)[s]) /\ x \notin delayed' /\ ~Depends(x)'
      BY <1>0, <1>3, <2>2, <2>3, <2>5, WithoutLess DEF Homeless, Depends, InSession
    <3>2. ~Waits(x)'
      BY <1>3, <2>2, <2>3, <2>5 DEF Homeless, Waits
    <3> QED
      BY <2>1, <3>1, <3>2, ResentIsAlone
  <2>6. \A q \in All \ {r, x} : Kept(q)
    BY <1>0, <1>3, <2>1, SendAdds, WithoutLess DEF Kept
  <2>7. OneAtATime'
    <3>1. \A e \in Dcs : /\ Import(e) \in handlers' => Import(e) \in handlers
                         /\ e # d => (Export(e) \in handlers' => Export(e) \in handlers)
                         /\ waiters[e] # {} => waiters'[e] # {}
      BY <1>2, <1>3, <2>1, AllFacts DEF x
    <3> QED
      BY <1>2, <1>3, <2>2, <3>1 DEF PInv, OneAtATime
  <2>8. handlers' \subseteq All
    BY <1>0, <2>1, <2>2 DEF TypeOK
  <2>9. \A y \in Requests : outcome'[y] = "none" => outcome[y] = "none" /\ y \notin {r, x}
    BY <1>0, <1>3, <2>2, Wanted
  <2>10. /\ \A q \in {r, x} : q \in handlers' /\ (q \notin fatal' => Alone(q)')
         /\ \A q \in handlers' \ {r, x} : q \in handlers
         /\ \A q \in Own \ {r, x} : q \in handlers => q \in handlers'
    BY <1>0, <2>1, <2>4, <2>5
  <2> QED
    BY <1>0, <2>6, <2>7, <2>8, <2>9, <2>10, Carry
<1> QED
  BY <1>4, <1>5

\* An own request q ends; the others of M, which are not new, are sent or start.
Ends(q, M) ==
  /\ q \in Own /\ q \in M /\ q \notin handlers' /\ handlers' \subseteq All
  /\ \A w \in M \ {q} : /\ w \in handlers' \ fatal' => Alone(w)'
                        /\ w \in Own => w \in handlers' \union fatal'
                        /\ w \in Requests => ~Homeless(w)
  /\ \A w \in All \ M : Kept(w) /\ (w \in handlers' <=> w \in handlers)
  /\ UNCHANGED <<outcome, fatal>>

LEMMA OwnEnds ==
  ASSUME PInv, NEW q, NEW M, Ends(q, M), q \notin fatal => Homeless(q)', OneAtATime'
  PROVE  PInv'
<1> USE AllFacts DEF Ends, Own
<1>1. \A w \in M : w \in handlers' \ fatal' => Alone(w)'
  OBVIOUS
<1>2. \A w \in M \intersect Own : w \in handlers' \union fatal' \/ Homeless(w)'
  OBVIOUS
<1>3. \A w \in Own \ M : w \in handlers => w \in handlers'
  OBVIOUS
<1>4. \A x \in Requests : outcome'[x] = "none" => outcome[x] = "none" /\ x \notin M
  BY RequestsAssumption DEF PInv
<1>5. \A w \in handlers' \ M : w \in handlers
  OBVIOUS
<1> QED
  BY <1>1, <1>2, <1>3, <1>4, <1>5, Carry

LEMMA ExportDonePlaces ==
  ASSUME IInv, PInv, NEW d \in Dcs, NEW t \in Sessions, ExportDone(d, t) PROVE PInv'
<1> DEFINE x == Export(d)  i == Import(d)
<1>1. /\ handlers' = (handlers \ {x}) \union {i} /\ Answerable(x, t)
      /\ session' = SendPrepared(Without(t, x), {i}, byDc')
      /\ UNCHANGED <<dependent, waiters, outcome, fatal>> /\ \A q \in delayed' : q \in delayed
  BY DEF ExportDone, NewOwn, authVars, historyVars
<1>2. /\ x \in All \ Requests /\ i \in All \ Requests /\ x \in Own /\ i \in Own /\ x # i
      /\ \A e \in Dcs : Export(e) # i /\ Import(e) # x /\ (Import(e) = i => e = d)
  BY AllFacts DEF Own, Exports, Imports
<1>3. x \in handlers /\ i \notin handlers /\ waiters[d] # {}
  BY <1>1 DEF PInv, OneAtATime, Answerable
<1> HIDE DEF x, i
<1>4. /\ x \notin fatal => /\ \A s \in Sessions : x \notin Without(t, x)[s]
                          /\ x \notin delayed /\ ~Waits(x)
      /\ i \notin fatal => Homeless(i)
      /\ TypeOK
  BY <1>1, <1>2, <1>3, Taken DEF Answerable, IInv, PInv
<1>5. ASSUME x \notin fatal PROVE Homeless(x)'
  <2>1. (\A s \in Sessions : x \notin session'[s]) /\ x \notin delayed' /\ ~Waits(x)'
    BY <1>1, <1>2, <1>4, <1>5, SendAdds DEF Waits, x
  <2> QED
    BY <1>2, <2>1, OwnGone DEF x
<1>6. ASSUME i \notin fatal PROVE Alone(i)'
  <2>1. (\A s \in Sessions : i \notin Without(t, x)[s]) /\ i \notin delayed' /\ ~Waits(i)' /\ ~Depends(i)'
    BY <1>1, <1>2, <1>4, <1>6, WithoutLess DEF Homeless, Waits, Depends, InSession, i
  <2> QED
    BY <1>1, <2>1, ResentIsAlone DEF i
<1>7. \A q \in All \ {x, i} : Kept(q)
  BY <1>1, <1>4, SendAdds, WithoutLess DEF Kept
<1>8. OneAtATime'
  <2>1. \A e \in Dcs : /\ Export(e) \in handlers' => Export(e) \in handlers /\ Export(e) # x
                       /\ Import(e) \in handlers' => Import(e) \in handlers \/ e = d
    BY <1>1, <1>2
  <2> QED
    BY <1>1, <1>3, <2>1 DEF PInv, OneAtATime, x
<1>9. handlers' \subseteq All /\ x \notin handlers' /\ i \in handlers'
  BY <1>1, <1>2, <1>4 DEF TypeOK
<1>10. Ends(x, {x, i})
  BY <1>1, <1>2, <1>6, <1>7, <1>9 DEF Ends
<1> QED
  BY <1>5, <1>8, <1>10, OwnEnds DEF x

LEMMA OwnFailPlaces ==
  ASSUME IInv, PInv, NEW d \in Dcs, NEW t \in Sessions, ExportFail(d, t) \/ ImportFail(d, t)
  PROVE  PInv'
<1>1. PICK q \in {Export(d), Import(d)} :
        /\ Answerable(q, t) /\ handlers' = handlers \ {q} /\ session' = Without(t, q)
        /\ q = Export(d) \/ UNCHANGED waiters
  BY DEF ExportFail, ImportFail, authVars
<1>2. UNCHANGED <<delayed, dependent, outcome, fatal>>
  BY DEF ExportFail, ImportFail, waitVars
<1>3. q \in Own /\ q \in All \ Requests
  BY AllFacts DEF Own, Exports, Imports
<1>4. /\ q \notin fatal => (\A s \in Sessions : q \notin session'[s]) /\ q \notin delayed /\ ~Waits(q)
      /\ q \in handlers /\ TypeOK
  BY <1>1, Taken DEF Answerable, IInv
<1>5. \A e \in Dcs : waiters'[e] \subseteq waiters[e] /\ (e # d => waiters'[e] = waiters[e])
  BY <1>4 DEF ExportFail, ImportFail, LeftWaiting, TypeOK, authVars
<1>6. ASSUME q \notin fatal PROVE Homeless(q)'
  <2>1. ~Waits(q)'
    BY <1>4, <1>5, <1>6 DEF Waits
  <2> QED
    BY <1>2, <1>3, <1>4, <1>6, <2>1, OwnGone
<1>7. \A w \in All \ {q} : Kept(w)
  BY <1>1, <1>2, <1>4, <1>5, WithoutLess DEF Kept
<1>8. OneAtATime'
  <2>1. \A e \in Dcs \ {d} : waiters'[e] = waiters[e]
    BY <1>5
  <2>2. Export(d) \notin handlers' /\ Import(d) \notin handlers'
    BY <1>1, <1>4 DEF PInv, OneAtATime
  <2> QED
    BY <1>1, <2>1, <2>2 DEF PInv, OneAtATime
<1>9. Ends(q, {q})
  BY <1>1, <1>2, <1>3, <1>4, <1>7 DEF Ends, TypeOK
<1> QED
  BY <1>6, <1>8, <1>9, OwnEnds

LEMMA ImportDonePlaces ==
  ASSUME IInv, PInv, NEW d \in Dcs, NEW t \in Sessions, ImportDone(d, t) PROVE PInv'
<1> DEFINE i == Import(d)
           W == {w \in waiters[d] : Registered(w) /\ w # i}
           D == IF \E w \in W : ToMain(w) THEN d ELSE main
           dcs == [w \in W |-> SentTo(w, d)]
<1>1. /\ Answerable(i, t) /\ handlers' = handlers \ {i} /\ waiters' = NoWaiters(d)
      /\ SetMain(D, Without(t, i), W, dcs) /\ UNCHANGED <<delayed, dependent, outcome, fatal>>
  BY DEF ImportDone, waitVars
<1>2. i \in Own /\ i \in All \ Requests
  BY AllFacts DEF Own, Imports
<1>3. /\ i \notin fatal => /\ \A s \in Sessions : i \notin Without(t, i)[s]
                          /\ i \notin delayed /\ ~Waits(i)
      /\ i \in handlers /\ TypeOK
  BY <1>1, <1>2, Taken DEF Answerable, IInv
<1>4. /\ waiters'[d] = {} /\ \A e \in Dcs \ {d} : waiters'[e] = waiters[e]
      /\ \A e \in Dcs : waiters'[e] \subseteq waiters[e]
  BY <1>1, <1>3 DEF NoWaiters, TypeOK
<1>5. \A w \in W : w \in waiters[d] /\ Waits(w) /\ w # i /\ ~Homeless(w) /\ w \in All
  BY <1>3 DEF Waits, Homeless, TypeOK
<1> DEFINE from == DestroyFor(D, Without(t, i))
<1>6. /\ session' = SendPrepared(from, W, dcs)
      /\ \A s \in Sessions : \A q \in from[s] : q \in Without(t, i)[s]
  BY <1>1, SetMainAdds
<1>7. i = Import(d) /\ i \notin W
  BY <1>5
<1> HIDE DEF i, W, D, dcs, from
<1>8. ASSUME i \notin fatal PROVE Homeless(i)'
  <2>1. (\A s \in Sessions : i \notin session'[s]) /\ i \notin delayed' /\ ~Waits(i)'
    BY <1>1, <1>3, <1>4, <1>6, <1>7, <1>8, SendAdds DEF Waits, i
  <2> QED
    BY <1>2, <2>1, OwnGone DEF i
<1>9. ASSUME NEW w \in W, w \in handlers' \ fatal' PROVE Alone(w)'
  <2>1. Alone(w)
    BY <1>1, <1>9 DEF PInv
  <2>2. (\A s \in Sessions : w \notin session[s]) /\ w \notin delayed /\ ~Depends(w)
    BY <1>5, <2>1 DEF Alone, InSession
  <2>3. \A s \in Sessions : w \notin from[s]
    BY <1>3, <1>6, <2>2, WithoutLess
  <2>4. ~Waits(w)'
    BY <1>4, <1>5, <2>1 DEF Alone, Waits
  <2>5. w \notin delayed' /\ ~Depends(w)'
    BY <1>1, <2>2 DEF Depends
  <2> QED
    BY <1>6, <2>3, <2>4, <2>5, ResentIsAlone
<1>10. ASSUME NEW w \in W, w \in Own PROVE w \in handlers' \union fatal'
  BY <1>1, <1>5, <1>10 DEF PInv
<1> DEFINE M == {i} \union W
<1>11. \A q \in All \ M : Kept(q)
  BY <1>1, <1>3, <1>4, <1>6, SendAdds, WithoutLess DEF Kept
<1>12. OneAtATime'
  <2>1. Export(d) \notin handlers' /\ Import(d) \notin handlers'
    BY <1>1, <1>3 DEF PInv, OneAtATime, i
  <2> QED
    BY <1>1, <1>4, <2>1 DEF PInv, OneAtATime
<1>13. Ends(i, M)
  BY <1>1, <1>2, <1>3, <1>5, <1>9, <1>10, <1>11 DEF Ends, TypeOK
<1> HIDE DEF M
<1> QED
  BY <1>8, <1>12, <1>13, OwnEnds DEF i

-----------------------------------------------------------------------------
(* The invariant *)

LEMMA InitPInv == Init => PInv
  BY AllFacts DEF Init, PInv, Homeless, InSession, Waits, Depends, OneAtATime

LEMMA StepPInv == IInv /\ PInv /\ [Next]_vars => PInv'
<1> SUFFICES ASSUME IInv, PInv, [Next]_vars PROVE PInv'
  OBVIOUS
<1>1. CASE UNCHANGED vars
  BY <1>1 DEF vars, tableVars, waitVars, authVars, historyVars, PInv, Alone, Homeless, InSession,
              Waits, Depends, OneAtATime
<1>2. ASSUME NEW r \in Requests, SendRequest(r) \/ CancelRequest(r) PROVE PInv'
  BY <1>2, SendRequestPlaces, CancelRequestPlaces
<1>3. ASSUME NEW r \in All, CheckDelayedRequests(r) PROVE PInv'
  BY <1>3, CheckDelayedPlaces
<1>4. ASSUME NEW r \in All, NEW t \in Sessions, Answer(r, t) PROVE PInv'
  <2>1. CASE AnswerDropped(r, t) \/ Done(r, t) \/ Fail(r, t)
    BY <2>1, EndPlaces
  <2>2. CASE FailLater(r, t) \/ FailFatal(r, t) \/ WaitFailed(r, t) \/ NotInited(r, t)
    BY <2>2, FailLaterPlaces, FailFatalPlaces, WaitFailedPlaces, NotInitedPlaces
  <2>3. ASSUME NEW d \in Dcs, Migrate(r, t, d) PROVE PInv'
    BY <2>3, MigratePlaces
  <2>4. ASSUME NEW d \in Dcs, ExportDone(d, t) \/ ExportFail(d, t) PROVE PInv'
    BY <2>4, ExportDonePlaces, OwnFailPlaces
  <2>5. ASSUME NEW d \in Dcs, ImportDone(d, t) \/ ImportFail(d, t) PROVE PInv'
    BY <2>5, ImportDonePlaces, OwnFailPlaces
  <2>6. ASSUME NEW bad \in BOOLEAN, Unauthorized(r, t, bad) PROVE PInv'
    BY <2>6, UnauthorizedPlaces
  <2> QED
    BY <1>4, <2>1, <2>2, <2>3, <2>4, <2>5, <2>6 DEF Answer
<1>5. ASSUME NEW d \in Dcs, LoginElsewhere(d) \/ KillSession(d) PROVE PInv'
  BY <1>5, DestroyPlaces
<1> QED
  BY <1>1, <1>2, <1>3, <1>4, <1>5 DEF Next

LEMMA AloneIsOnePlace == ASSUME NEW r, Alone(r) PROVE Cardinality(Places(r)) =< 1
<1>1. CASE Places(r) = {}
  BY <1>1, FS_EmptySet
<1>2. CASE Places(r) # {}
  <2>1. PICK p : p \in Places(r)
    BY <1>2
  <2>2. \A q \in Places(r) : q = p
    BY <2>1 DEF Places, Has, Alone, InSession, Waits, Depends
  <2>3. Places(r) = {p}
    BY <2>1, <2>2
  <2> QED
    BY <2>3, FS_Singleton
<1> QED
  BY <1>1, <1>2

\* Whatever errors, delays, exports, migrations and releases do: a request whose handler
\* waits is in one session, one list or one wait at most, so the instance never sends a
\* second copy of it to the server (_delayedRequests, _authWaiters, _dependentRequests),
\* unless a fatal bad_msg_notification delayed it while its session kept it.
THEOREM NeverInTwoPlaces == Spec => []InOnePlace
<1>1. PInv => InOnePlace
  BY AloneIsOnePlace DEF PInv, InOnePlace
<1>2. Init => PInv
  BY InitPInv
<1>3. IInv /\ PInv /\ [Next]_vars => PInv'
  BY StepPInv
<1> QED
  BY <1>1, <1>2, <1>3, InstanceInvariant, PTL DEF Spec

=============================================================================
