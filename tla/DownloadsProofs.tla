--------------------------- MODULE DownloadsProofs --------------------------
(***************************************************************************)
(* What holds of Downloads for any files, sessions, amounts and faults.    *)
(*                                                                         *)
(* A step of the manager is a chain of loops (sending, cancelling, sending *)
(* elsewhere) over the record d, so the proofs are about operators of that *)
(* record and not about actions.  Each operator has an Effect lemma: it    *)
(* keeps Fine, and changes no more than it says.  A loop is a function     *)
(* whose entries are related one to the next (LoopExists), its invariant   *)
(* goes from entry to entry (LoopStays), and that it has nothing left to   *)
(* do at its end follows from what it has left going down at every entry.  *)
(* The actions come last and are short: the effects, one after another.    *)
(***************************************************************************)
EXTENDS Downloads, TLAPS, FiniteSetTheorems, SequenceTheorems, WellFoundedInduction

(* The inductive invariant *)

SessionData == [requested : Nat, successes : 0..MaxSuccesses, maxWaited : 1..MaxWaited]
Entries == [task : Tasks, priority : -1..1]
PartsAsked == [task : Tasks, offset : Nat, session : Nat, old : BOOLEAN, amount : Nat,
               state : {"sent", "refreshing", "failed"}]
Managers ==
  [queue : Seq(Entries), sent : SUBSET PartsAsked, sessions : Seq(SessionData), total : Nat,
   wanted : [Tasks -> SUBSET Nat], timeouts : 0..RemoveAfter - 1, removeIndex : Nat,
   removeTimes : 0..MaxRemoves, removed : BOOLEAN, late : Seq(Nat), killing : BOOLEAN,
   running : BOOLEAN]

\* The parts in flight in the sessions at the places J.
PartsOf(m, J) == {r \in m.sent : r.session \in J}

\* The fields have their types and the queue its order.
Typed(m) ==
  /\ m \in Managers
  /\ Len(m.sessions) \in 1..MaxSessions
  /\ \A t \in Tasks : m.wanted[t] \subseteq Offsets(t)
  /\ \A r \in m.sent : r.offset \in Offsets(r.task)
  /\ \A i, j \in DOMAIN m.queue : i < j =>
       m.queue[i].priority >= m.queue[j].priority /\ m.queue[i].task # m.queue[j].task

\* PartsAreCounted, of any manager.
Counted(m) ==
  /\ IsFiniteSet(m.sent) /\ m.total = Cardinality(m.sent)
  /\ \A i \in DOMAIN m.sessions : m.sessions[i].requested = Cardinality(PartsOf(m, {i}))
  /\ \A r \in m.sent : /\ r.session \in DOMAIN m.sessions /\ IsQueued(m, r.task)
                       /\ r.offset \notin m.wanted[r.task]
  /\ \A r, s \in m.sent : r.task = s.task /\ r.offset = s.offset => r = s

\* IdleSessionsAreStopped, of any manager.
Idle(m) == /\ m.killing = (m.running /\ m.sent = {})
           /\ m.sent # {} => m.running

\* A session that counted a success, or has a part in flight that will count, has no more
\* in flight than it may.  What removeSession sends to a session beyond that does not count
\* (Overloaded), and the successes of all sessions start again; so when every session
\* counted enough for one to be added, none is beyond its maxWaited.
Fits(m) ==
  \A i \in DOMAIN m.sessions :
    m.sessions[i].successes > 0 \/ (\E r \in m.sent : r.session = i /\ ~Overloaded(m, r))
      => m.sessions[i].requested =< m.sessions[i].maxWaited

\* Any of the sessions have together no more parts in flight than they, and the sessions
\* that are not there, may have: removeSession fills the ones that stay with no more than
\* the one that goes had, and one is added only when each has its own room again (Fits).
\* Of all sessions together this says total =< Big: a session that seems to have Big parts
\* more than it has is not the least requested while there is another.
Bounded(m) ==
  \A J \in SUBSET DOMAIN m.sessions :
    Cardinality(PartsOf(m, J))
      =< MaxWaited * (MaxSessions - Len(m.sessions) + Cardinality(J))

\* The types of the variables besides the manager.
Rest == /\ status \in [Files -> {"new", "front", "loading", "over", "gone"}]
        /\ priority \in [Streams -> 0..1] /\ refreshing \subseteq Tasks /\ untold \in BOOLEAN
        /\ signals \in 0..MaxSignals /\ errors \in 0..MaxErrors /\ loads \in 0..MaxLoads

\* What each single change of the counts keeps, and what each loop of them keeps.
Good(m) == Typed(m) /\ Counted(m) /\ Idle(m)
Fine(m) == Good(m) /\ Fits(m) /\ Bounded(m)

\* The inductive invariant.
IInv == Fine(d) /\ Rest /\ RoomIsUsed

-----------------------------------------------------------------------------
(* Loops *)

LEMMA LeastNumber ==
  ASSUME NEW T \in SUBSET Nat, T # {}
  PROVE  \E n \in T : \A k \in T : n =< k
<1>1. PICK n \in T : \A k \in T : ~(<<k, n>> \in OpToRel(<, Nat))
  BY NatLessThanWellFounded, WFMin
<1>2. \A k \in T : ~(k < n)
  BY <1>1 DEF OpToRel
<1> QED
  BY <1>2

LEMMA Induction ==
  ASSUME NEW T \in SUBSET Nat, 0 \in T, \A n \in T : n + 1 \in T
  PROVE  T = Nat
<1> SUFFICES ASSUME Nat \ T # {} PROVE FALSE
  OBVIOUS
<1>1. PICK n \in Nat \ T : \A k \in Nat \ T : n =< k
  BY LeastNumber, Nat \ T \in SUBSET Nat
<1>2. n # 0 /\ n - 1 \in Nat
  OBVIOUS
<1>3. n - 1 \in T
  BY <1>1, <1>2
<1>4. n - 1 + 1 \in T
  BY <1>3
<1> QED
  BY <1>2, <1>4

\* g goes from m, n times through F.
LoopOf(F, m, n, g) == g[0] = m /\ \A k \in 1..n : g[k] = F[g[k - 1]]

LEMMA LoopExists ==
  ASSUME NEW S, NEW F \in [S -> S], NEW m \in S, NEW n \in Nat
  PROVE  \E g \in [0..n -> S] : LoopOf(F, m, n, g)
<1> DEFINE T == {k \in Nat : \E g \in [0..k -> S] : LoopOf(F, m, k, g)}
<1>1. 0 \in T
  <2> DEFINE g == [j \in 0..0 |-> m]
  <2>1. g \in [0..0 -> S] /\ LoopOf(F, m, 0, g)
    BY DEF LoopOf
  <2> HIDE DEF g
  <2> QED
    BY <2>1
<1>2. ASSUME NEW k \in T PROVE k + 1 \in T
  <2>1. PICK g \in [0..k -> S] : LoopOf(F, m, k, g)
    OBVIOUS
  <2> DEFINE h == [j \in 0..k + 1 |-> IF j = k + 1 THEN F[g[k]] ELSE g[j]]
  <2>2. k \in Nat
    OBVIOUS
  <2>3. h \in [0..k + 1 -> S]
    BY <2>1, <2>2
  <2>4. h[0] = m
    BY <2>1, <2>2 DEF LoopOf
  <2>5. ASSUME NEW j \in 1..k + 1 PROVE h[j] = F[h[j - 1]]
    <3>1. CASE j = k + 1
      BY <2>2, <3>1
    <3>2. CASE j # k + 1
      BY <2>1, <2>2, <3>2 DEF LoopOf
    <3> QED
      BY <3>1, <3>2
  <2> HIDE DEF h
  <2>6. LoopOf(F, m, k + 1, h)
    BY <2>4, <2>5 DEF LoopOf
  <2> QED
    BY <2>2, <2>3, <2>6
<1>3. T \in SUBSET Nat
  OBVIOUS
<1> HIDE DEF T
<1>4. T = Nat
  BY <1>1, <1>2, <1>3, Induction
<1> QED
  BY <1>4 DEF T

LEMMA LoopStays ==
  ASSUME NEW S, NEW n \in Nat, NEW g, g[0] \in S,
         \A k \in 1..n : g[k - 1] \in S => g[k] \in S
  PROVE  \A k \in 0..n : g[k] \in S
<1> DEFINE T == {k \in Nat : k =< n => g[k] \in S}
<1>1. 0 \in T
  OBVIOUS
<1>2. ASSUME NEW k \in T PROVE k + 1 \in T
  <2>1. CASE k + 1 =< n
    <3>1. k + 1 \in 1..n /\ (k + 1) - 1 = k /\ g[k] \in S
      BY <2>1
    <3> QED
      BY <3>1
  <2> QED
    BY <2>1
<1>3. T \in SUBSET Nat
  OBVIOUS
<1> HIDE DEF T
<1>4. T = Nat
  BY <1>1, <1>2, <1>3, Induction
<1> QED
  BY <1>4 DEF T

\* checkSendNext, as a run of parts sent.
SendsFrom(m, n, g) ==
  /\ g[0] = m /\ Checked(m) = g[n]
  /\ \A k \in 1..n : g[k] = IF CanSend(g[k - 1]) THEN PartSent(g[k - 1]) ELSE g[k - 1]

LEMMA CheckedLoop ==
  ASSUME NEW S, NEW m \in S, \A k \in S : CanSend(k) => PartSent(k) \in S,
         NEW n \in Nat, n = Cardinality(UNION {{t} \X m.wanted[t] : t \in Tasks})
  PROVE  \E g \in [0..n -> S] : SendsFrom(m, n, g)
<1> DEFINE SendOne(k) == IF CanSend(k) THEN PartSent(k) ELSE k
           F == [k \in S |-> SendOne(k)]
           At(g) == g = [k \in 0..n |-> IF k = 0 THEN m ELSE SendOne(g[k - 1])]
           after == CHOOSE g : At(g)
<1>1. Checked(m) = after[n]
  BY DEF Checked, Repeated
<1>2. F \in [S -> S]
  OBVIOUS
<1>3. PICK g \in [0..n -> S] : LoopOf(F, m, n, g)
  <2> HIDE DEF F
  <2> QED
    BY <1>2, LoopExists
<1>4. At(g)
  <2> DEFINE h == [k \in 0..n |-> IF k = 0 THEN m ELSE SendOne(g[k - 1])]
  <2>1. \A k \in 0..n : k # 0 => k \in 1..n /\ g[k - 1] \in S
    OBVIOUS
  <2>2. \A x \in S : F[x] = SendOne(x)
    <3> HIDE DEF SendOne
    <3> QED
      OBVIOUS
  <2>3. \A k \in 0..n : g[k] = IF k = 0 THEN m ELSE SendOne(g[k - 1])
    <3> HIDE DEF SendOne, F
    <3> QED
      BY <1>3, <2>1, <2>2 DEF LoopOf
  <2>4. \A k \in 0..n : g[k] = h[k]
    <3> HIDE DEF SendOne
    <3> QED
      BY <2>3
  <2>5. h = [k \in 0..n |-> h[k]] /\ g = [k \in 0..n |-> g[k]]
    OBVIOUS
  <2>6. g = h
    <3> HIDE DEF h
    <3> QED
      BY <2>4, <2>5
  <2> QED
    BY <2>6
<1>5. At(after)
  <2> HIDE DEF At
  <2> QED
    BY <1>4
<1>6. /\ after = [k \in 0..n |-> after[k]] /\ after[0] = m
      /\ \A k \in 1..n : after[k] = SendOne(after[k - 1])
  <2> HIDE DEF SendOne, after
  <2> DEFINE h == [k \in 0..n |-> IF k = 0 THEN m ELSE SendOne(after[k - 1])]
  <2>1. after = h
    BY <1>5
  <2>2. h = [k \in 0..n |-> h[k]]
    OBVIOUS
  <2>3. h[0] = m /\ \A k \in 1..n : h[k] = SendOne(after[k - 1])
    OBVIOUS
  <2> HIDE DEF h
  <2> QED
    BY <2>1, <2>2, <2>3
<1>7. \A k \in 0..n : after[k] \in S
  <2>1. \A k \in S : SendOne(k) \in S
    OBVIOUS
  <2> HIDE DEF SendOne, after
  <2>2. after[0] \in S /\ \A k \in 1..n : after[k - 1] \in S => after[k] \in S
    BY <1>6, <2>1
  <2> QED
    BY <2>2, LoopStays
<1>8. after \in [0..n -> S]
  <2> HIDE DEF after
  <2> QED
    BY <1>6, <1>7
<1> HIDE DEF after
<1> QED
  BY <1>1, <1>6, <1>8 DEF SendsFrom

-----------------------------------------------------------------------------
(* Parts that are finished and placed *)

LEMMA Sizes ==
  /\ MaxWaited \in Nat /\ MaxWaited > 0 /\ MaxSessions \in Nat /\ MaxSessions > 0
  /\ RemoveAfter \in Nat /\ RemoveAfter > 0 /\ RetrySuccesses \in Nat /\ RetrySuccesses > 0
  /\ MaxRemoves \in Nat /\ MaxRemoves > 0 /\ StartWaited \in 1..MaxWaited
  /\ MaxSuccesses \in Nat
BY SizesAssumption DEF MaxSuccesses

LEMMA FieldsOfManager ==
  ASSUME NEW m \in Managers
  PROVE  /\ m.queue \in Seq(Entries) /\ m.sent \subseteq PartsAsked
         /\ m.sessions \in Seq(SessionData) /\ m.total \in Nat
         /\ m.wanted \in [Tasks -> SUBSET Nat] /\ m.timeouts \in 0..RemoveAfter - 1
         /\ m.removeIndex \in Nat /\ m.removeTimes \in 0..MaxRemoves /\ m.removed \in BOOLEAN
         /\ m.late \in Seq(Nat) /\ m.killing \in BOOLEAN /\ m.running \in BOOLEAN
BY DEF Managers

LEMMA SessionsOf ==
  ASSUME NEW s \in Seq(SessionData)
  PROVE  /\ Len(s) \in Nat /\ DOMAIN s = 1..Len(s)
         /\ \A i \in DOMAIN s : /\ s[i] \in SessionData /\ s[i].requested \in Nat
                                /\ s[i].successes \in 0..MaxSuccesses
                                /\ s[i].maxWaited \in 1..MaxWaited
<1>1. \A x \in SessionData : /\ x.requested \in Nat /\ x.successes \in 0..MaxSuccesses
                             /\ x.maxWaited \in 1..MaxWaited
  BY DEF SessionData
<1>2. Len(s) \in Nat /\ DOMAIN s = 1..Len(s) /\ \A i \in DOMAIN s : s[i] \in SessionData
  OBVIOUS
<1> QED
  BY <1>1, <1>2

\* The sessions with another number of parts in flight in one of them.
WithRequested(s, i, x) == [s EXCEPT ![i].requested = x]

LEMMA SessionChanged ==
  ASSUME NEW s \in Seq(SessionData), NEW i \in DOMAIN s, NEW x \in Nat
  PROVE  LET n == WithRequested(s, i, x) IN
         /\ n \in Seq(SessionData) /\ Len(n) = Len(s) /\ DOMAIN n = DOMAIN s
         /\ \A j \in DOMAIN s : /\ n[j].requested = IF j = i THEN x ELSE s[j].requested
                                /\ n[j].successes = s[j].successes
                                /\ n[j].maxWaited = s[j].maxWaited
<1> DEFINE n == WithRequested(s, i, x)
<1>1. s[i] \in SessionData
  BY SessionsOf
<1>2. [s[i] EXCEPT !.requested = x] \in SessionData
  BY <1>1 DEF SessionData
<1>3. n = [s EXCEPT ![i] = [s[i] EXCEPT !.requested = x]]
  BY DEF WithRequested
<1>4. i \in 1..Len(s)
  OBVIOUS
<1>5. n \in Seq(SessionData) /\ Len(n) = Len(s)
  BY <1>2, <1>3, <1>4, ExceptSeq
<1>6. \A j \in DOMAIN s : /\ n[j].requested = IF j = i THEN x ELSE s[j].requested
                          /\ n[j].successes = s[j].successes
                          /\ n[j].maxWaited = s[j].maxWaited
  BY <1>1, SessionsOf DEF SessionData, WithRequested
<1> QED
  BY <1>5, <1>6, SessionsOf

\* What finishing changes.
LEMMA FinishedFields ==
  ASSUME NEW m \in Managers, NEW r \in m.sent, NEW i, i = r.session, i \in DOMAIN m.sessions,
         m.sessions[i].requested > 0, m.total > 0
  PROVE  LET n == Finished(m, r) IN
         /\ n \in Managers
         /\ n.sent = m.sent \ {r} /\ n.total = m.total - 1
         /\ n.sessions = WithRequested(m.sessions, i, m.sessions[i].requested - 1)
         /\ n.killing = (m.killing \/ \A j \in DOMAIN n.sessions : n.sessions[j].requested =< 0)
         /\ n.queue = m.queue /\ n.wanted = m.wanted /\ n.timeouts = m.timeouts
         /\ n.removeIndex = m.removeIndex /\ n.removeTimes = m.removeTimes
         /\ n.removed = m.removed /\ n.late = m.late /\ n.running = m.running
<1> DEFINE s == WithRequested(m.sessions, i, m.sessions[i].requested - 1)
           k == m.killing \/ \A j \in DOMAIN s : s[j].requested =< 0
           n == [m EXCEPT !.sessions = s, !.total = m.total - 1, !.sent = m.sent \ {r},
                          !.killing = k]
<1>1. Finished(m, r) = n
  BY FieldsOfManager, SessionsOf DEF Finished, WithRequested
<1>2. s \in Seq(SessionData)
  <2>1. m.sessions \in Seq(SessionData) /\ m.sessions[i].requested \in Nat
    BY FieldsOfManager, SessionsOf
  <2> QED
    BY <2>1, SessionChanged
<1>3. n.sent \subseteq PartsAsked /\ m.total - 1 \in Nat
  BY FieldsOfManager
<1>4. n \in Managers
  <2>1. k \in BOOLEAN
    OBVIOUS
  <2> HIDE DEF s, k
  <2> QED
    BY <1>2, <1>3, <2>1 DEF Managers
<1> QED
  BY <1>1, <1>4 DEF Managers

\* The part that Placed adds.
NewPart(m, t, o, i) ==
  [task |-> t, offset |-> o, session |-> i, old |-> FALSE,
   amount |-> m.sessions[i].requested + 1, state |-> "sent"]

\* What placing changes.
PlacedTo(m, t, o, i, n) ==
  /\ n \in Managers
  /\ n.sent = m.sent \union {NewPart(m, t, o, i)}
  /\ n.total = m.total + 1
  /\ n.sessions = WithRequested(m.sessions, i, m.sessions[i].requested + 1)
  /\ n.killing = FALSE /\ n.running = TRUE
  /\ n.queue = m.queue /\ n.wanted = m.wanted /\ n.timeouts = m.timeouts
  /\ n.removeIndex = m.removeIndex /\ n.removeTimes = m.removeTimes
  /\ n.removed = m.removed /\ n.late = m.late

LEMMA PlacedFields ==
  ASSUME NEW m \in Managers, NEW t \in Tasks, NEW o \in Nat, NEW i \in DOMAIN m.sessions
  PROVE  PlacedTo(m, t, o, i, Placed(m, t, o, i))
<1> DEFINE s == WithRequested(m.sessions, i, m.sessions[i].requested + 1)
           r == NewPart(m, t, o, i)
           n == [m EXCEPT !.sessions = s, !.total = m.total + 1, !.sent = m.sent \union {r},
                          !.running = TRUE, !.killing = FALSE]
<1>0. m.sessions \in Seq(SessionData) /\ m.sessions[i].requested \in Nat
  BY FieldsOfManager, SessionsOf
<1>1. Placed(m, t, o, i) = n
  BY <1>0 DEF Placed, WithRequested, NewPart
<1>2. s \in Seq(SessionData)
  BY <1>0, SessionChanged
<1>3. r \in PartsAsked /\ m.total + 1 \in Nat
  BY <1>0, FieldsOfManager, SessionsOf DEF PartsAsked, NewPart
<1>4. n \in Managers
  <2> HIDE DEF s, r
  <2> QED
    BY <1>2, <1>3 DEF Managers
<1> QED
  BY <1>1, <1>4 DEF Managers, PlacedTo

LEMMA PartsAreFinite ==
  ASSUME NEW m, IsFiniteSet(m.sent), NEW J
  PROVE  IsFiniteSet(PartsOf(m, J)) /\ Cardinality(PartsOf(m, J)) \in Nat
BY FS_Subset, FS_CardinalityType DEF PartsOf

LEMMA InFlight ==
  ASSUME NEW m, Good(m), NEW r \in m.sent
  PROVE  /\ r.session \in DOMAIN m.sessions /\ m.sessions[r.session].requested > 0
         /\ m.total > 0 /\ r.task \in Tasks /\ r.offset \in Nat /\ r.offset \in Offsets(r.task)
         /\ r \in PartsAsked /\ r.session \in Nat /\ r.old \in BOOLEAN /\ r.amount \in Nat
         /\ m.running /\ ~m.killing
<1>1. r.session \in DOMAIN m.sessions /\ r \in PartsAsked /\ r.offset \in Offsets(r.task)
  BY FieldsOfManager DEF Good, Typed, Counted
<1>2. m.running /\ ~m.killing
  BY FieldsOfManager DEF Good, Typed, Idle
<1> DEFINE P == PartsOf(m, {r.session})
<1>3. r \in P /\ IsFiniteSet(P) /\ Cardinality(P) \in Nat /\ IsFiniteSet(m.sent)
  BY PartsAreFinite DEF PartsOf, Good, Counted
<1>4. Cardinality(P) > 0
  BY <1>3, FS_EmptySet
<1>5. Cardinality(m.sent) > 0
  BY <1>3, FS_EmptySet, FS_CardinalityType
<1>6. m.sessions[r.session].requested > 0 /\ m.total > 0
  BY <1>1, <1>4, <1>5 DEF Good, Counted
<1> QED
  BY <1>1, <1>2, <1>6 DEF PartsAsked

\* Nothing is in flight when no session has a part in flight.
LEMMA NoneInFlight ==
  ASSUME NEW m, Counted(m)
  PROVE  (\A j \in DOMAIN m.sessions : m.sessions[j].requested =< 0) <=> m.sent = {}
<1>1. ASSUME NEW r \in m.sent PROVE ~(m.sessions[r.session].requested =< 0)
  <2> DEFINE P == PartsOf(m, {r.session})
  <2>1. r \in P /\ IsFiniteSet(P) /\ Cardinality(P) \in Nat
    BY PartsAreFinite DEF PartsOf, Counted
  <2>2. Cardinality(P) > 0
    BY <2>1, FS_EmptySet
  <2> QED
    BY <2>1, <2>2 DEF Counted
<1>2. ASSUME m.sent = {}, NEW j \in DOMAIN m.sessions PROVE m.sessions[j].requested =< 0
  <2>1. PartsOf(m, {j}) = {}
    BY <1>2 DEF PartsOf
  <2>2. m.sessions[j].requested = Cardinality(PartsOf(m, {j}))
    BY DEF Counted
  <2>3. m.sessions[j].requested = 0
    BY <2>1, <2>2, FS_EmptySet
  <2> QED
    BY <2>3
<1>3. \A r \in m.sent : r.session \in DOMAIN m.sessions
  BY DEF Counted
<1> QED
  BY <1>1, <1>2, <1>3

LEMMA FinishedCounted ==
  ASSUME NEW m, Good(m), NEW r \in m.sent
  PROVE  LET n == Finished(m, r) IN
         Typed(n) /\ Counted(n)
<1> DEFINE n == Finished(m, r)
           i == r.session
<1>0. /\ m \in Managers /\ i \in DOMAIN m.sessions /\ m.sessions[i].requested > 0 /\ m.total > 0
      /\ m.sessions \in Seq(SessionData)
  BY InFlight, FieldsOfManager DEF Good, Typed
<1>1. /\ n \in Managers /\ n.sent = m.sent \ {r} /\ n.total = m.total - 1
      /\ n.sessions = WithRequested(m.sessions, i, m.sessions[i].requested - 1)
      /\ n.queue = m.queue /\ n.wanted = m.wanted
  BY <1>0, FinishedFields
<1>2. m.sessions[i].requested - 1 \in Nat
  BY <1>0, SessionsOf
<1>3. /\ Len(n.sessions) = Len(m.sessions) /\ DOMAIN n.sessions = DOMAIN m.sessions
      /\ \A j \in DOMAIN m.sessions :
           n.sessions[j].requested = IF j = i THEN m.sessions[i].requested - 1
                                     ELSE m.sessions[j].requested
  BY <1>0, <1>1, <1>2, SessionChanged
<1> HIDE DEF n
<1>4. Typed(n)
  BY <1>1, <1>3 DEF Typed, Good
<1>5. IsFiniteSet(m.sent) /\ m.total = Cardinality(m.sent) /\ Cardinality(m.sent) \in Nat
  BY FS_CardinalityType DEF Good, Counted
<1>6. IsFiniteSet(n.sent) /\ n.total = Cardinality(n.sent)
  BY <1>1, <1>5, FS_RemoveElement
<1>7. ASSUME NEW j \in DOMAIN n.sessions
      PROVE  n.sessions[j].requested = Cardinality(PartsOf(n, {j}))
  <2>1. m.sessions[j].requested = Cardinality(PartsOf(m, {j}))
    BY <1>3 DEF Good, Counted
  <2>2. IsFiniteSet(PartsOf(m, {j})) /\ Cardinality(PartsOf(m, {j})) \in Nat
    BY <1>5, PartsAreFinite
  <2>3. CASE j = i
    <3>1. PartsOf(n, {j}) = PartsOf(m, {j}) \ {r} /\ r \in PartsOf(m, {j})
      BY <1>1, <2>3 DEF PartsOf
    <3>2. Cardinality(PartsOf(n, {j})) = Cardinality(PartsOf(m, {j})) - 1
      BY <2>2, <3>1, FS_RemoveElement
    <3> QED
      BY <1>3, <2>1, <2>3, <3>2
  <2>4. CASE j # i
    <3>1. PartsOf(n, {j}) = PartsOf(m, {j})
      BY <1>1, <2>4 DEF PartsOf
    <3> QED
      BY <1>3, <2>1, <2>4, <3>1
  <2> QED
    BY <2>3, <2>4
<1>8. Counted(n)
  BY <1>1, <1>3, <1>6, <1>7 DEF Counted, Good, IsQueued
<1> QED
  BY <1>4, <1>8 DEF n

\* Finishing a part keeps the counts.
LEMMA FinishedGood ==
  ASSUME NEW m, Good(m), NEW r \in m.sent
  PROVE  Good(Finished(m, r))
<1> DEFINE n == Finished(m, r)
<1>1. Typed(n) /\ Counted(n)
  BY FinishedCounted
<1>2. /\ n.killing = (m.killing \/ \A j \in DOMAIN n.sessions : n.sessions[j].requested =< 0)
      /\ n.running = m.running
  BY InFlight, FinishedFields DEF Good, Typed
<1>3. m.running /\ ~m.killing
  BY InFlight
<1>4. (\A j \in DOMAIN n.sessions : n.sessions[j].requested =< 0) <=> n.sent = {}
  BY <1>1, NoneInFlight
<1> HIDE DEF n
<1>5. Idle(n)
  BY <1>2, <1>3, <1>4 DEF Idle
<1> QED
  BY <1>1, <1>5 DEF Good, n

LEMMA OffsetsAre ==
  ASSUME NEW t \in Tasks
  PROVE  Offsets(t) \subseteq Nat /\ IsFiniteSet(Offsets(t))
<1>1. Parts[t] \in Nat
  BY SizesAssumption
<1> QED
  BY <1>1, FS_Interval DEF Offsets

LEMMA PlacedGood ==
  ASSUME NEW m, Good(m), NEW t \in Tasks, NEW o \in Offsets(t), NEW i \in DOMAIN m.sessions,
         IsQueued(m, t), o \notin m.wanted[t], \A r \in m.sent : ~(r.task = t /\ r.offset = o)
  PROVE  Good(Placed(m, t, o, i))
<1> DEFINE n == Placed(m, t, o, i)
           r == NewPart(m, t, o, i)
<1>0. m \in Managers /\ m.sessions \in Seq(SessionData) /\ o \in Nat
  BY FieldsOfManager, OffsetsAre DEF Good, Typed
<1>1. /\ n \in Managers /\ n.sent = m.sent \union {r} /\ n.total = m.total + 1
      /\ n.sessions = WithRequested(m.sessions, i, m.sessions[i].requested + 1)
      /\ n.queue = m.queue /\ n.wanted = m.wanted /\ n.killing = FALSE /\ n.running = TRUE
  <2>1. PlacedTo(m, t, o, i, n)
    BY <1>0, PlacedFields
  <2> HIDE DEF n
  <2> QED
    BY <2>1 DEF PlacedTo
<1>2. m.sessions[i].requested + 1 \in Nat
  BY <1>0, SessionsOf
<1>3. /\ Len(n.sessions) = Len(m.sessions) /\ DOMAIN n.sessions = DOMAIN m.sessions
      /\ \A j \in DOMAIN m.sessions :
           n.sessions[j].requested = IF j = i THEN m.sessions[i].requested + 1
                                     ELSE m.sessions[j].requested
  BY <1>0, <1>1, <1>2, SessionChanged
<1>4. r.task = t /\ r.offset = o /\ r.session = i /\ r \notin m.sent
  BY DEF NewPart
<1> HIDE DEF n, r
<1>5. Typed(n)
  BY <1>1, <1>3, <1>4 DEF Typed, Good
<1>6. IsFiniteSet(m.sent) /\ m.total = Cardinality(m.sent) /\ Cardinality(m.sent) \in Nat
  BY FS_CardinalityType DEF Good, Counted
<1>7. IsFiniteSet(n.sent) /\ n.total = Cardinality(n.sent)
  <2>1. /\ IsFiniteSet(m.sent \union {r})
        /\ Cardinality(m.sent \union {r}) = Cardinality(m.sent) + 1
    BY <1>4, <1>6, FS_AddElement
  <2> QED
    BY <1>1, <1>6, <2>1
<1>8. ASSUME NEW j \in DOMAIN n.sessions
      PROVE  n.sessions[j].requested = Cardinality(PartsOf(n, {j}))
  <2>1. m.sessions[j].requested = Cardinality(PartsOf(m, {j}))
    BY <1>3 DEF Good, Counted
  <2>2. IsFiniteSet(PartsOf(m, {j})) /\ Cardinality(PartsOf(m, {j})) \in Nat
    BY <1>6, PartsAreFinite
  <2>3. CASE j = i
    <3>1. PartsOf(n, {j}) = PartsOf(m, {j}) \union {r} /\ r \notin PartsOf(m, {j})
      BY <1>1, <1>4, <2>3 DEF PartsOf
    <3>2. Cardinality(PartsOf(n, {j})) = Cardinality(PartsOf(m, {j})) + 1
      BY <2>2, <3>1, FS_AddElement
    <3> QED
      BY <1>3, <2>1, <2>3, <3>2
  <2>4. CASE j # i
    <3>1. PartsOf(n, {j}) = PartsOf(m, {j})
      BY <1>1, <1>4, <2>4 DEF PartsOf
    <3> QED
      BY <1>3, <2>1, <2>4, <3>1
  <2> QED
    BY <2>3, <2>4
<1>9. \A x \in n.sent : /\ x.session \in DOMAIN n.sessions /\ IsQueued(n, x.task)
                        /\ x.offset \notin n.wanted[x.task]
  BY <1>1, <1>3, <1>4 DEF Counted, Good, IsQueued
<1>10. \A x, y \in n.sent : x.task = y.task /\ x.offset = y.offset => x = y
  BY <1>1, <1>4 DEF Counted, Good
<1>11. Counted(n)
  BY <1>7, <1>8, <1>9, <1>10 DEF Counted
<1>12. Idle(n)
  BY <1>1 DEF Idle
<1> QED
  BY <1>5, <1>11, <1>12 DEF Good, n

\* What no part in flight is about.
SameElsewhere(m, n) ==
  /\ n.queue = m.queue /\ n.wanted = m.wanted /\ n.timeouts = m.timeouts
  /\ n.removeIndex = m.removeIndex /\ n.removeTimes = m.removeTimes
  /\ n.removed = m.removed /\ n.late = m.late

\* The same sessions, but that the one at place i has x parts in flight.
SessionsLike(m, n, i, x) ==
  /\ Len(n.sessions) = Len(m.sessions) /\ DOMAIN n.sessions = DOMAIN m.sessions
  /\ \A j \in DOMAIN m.sessions :
       /\ n.sessions[j].requested = IF j = i THEN x ELSE m.sessions[j].requested
       /\ n.sessions[j].successes = m.sessions[j].successes
       /\ n.sessions[j].maxWaited = m.sessions[j].maxWaited

\* n is m without the part r, and with the part of task t at offset o, for each session.
FinishedTo(m, r, n) ==
  /\ n.sent = m.sent \ {r} /\ n.total = m.total - 1
  /\ SessionsLike(m, n, r.session, m.sessions[r.session].requested - 1)
  /\ SameElsewhere(m, n) /\ n.running = m.running

LEMMA FinishedEffect ==
  ASSUME NEW m, Good(m), NEW r \in m.sent
  PROVE  Good(Finished(m, r)) /\ FinishedTo(m, r, Finished(m, r))
<1> DEFINE n == Finished(m, r)
           i == r.session
<1>0. /\ m \in Managers /\ i \in DOMAIN m.sessions /\ m.sessions[i].requested > 0 /\ m.total > 0
      /\ m.sessions \in Seq(SessionData)
  BY InFlight, FieldsOfManager DEF Good, Typed
<1>1. /\ n.sent = m.sent \ {r} /\ n.total = m.total - 1
      /\ n.sessions = WithRequested(m.sessions, i, m.sessions[i].requested - 1)
      /\ SameElsewhere(m, n) /\ n.running = m.running
  BY <1>0, FinishedFields DEF SameElsewhere
<1>2. m.sessions[i].requested - 1 \in Nat
  BY <1>0, SessionsOf
<1> HIDE DEF n
<1>3. SessionsLike(m, n, i, m.sessions[i].requested - 1)
  BY <1>0, <1>1, <1>2, SessionChanged DEF SessionsLike
<1> QED
  BY <1>1, <1>3, FinishedGood DEF FinishedTo, n

PlacedAt(m, t, o, i, n) ==
  /\ n.sent = m.sent \union {NewPart(m, t, o, i)} /\ n.total = m.total + 1
  /\ SessionsLike(m, n, i, m.sessions[i].requested + 1)
  /\ SameElsewhere(m, n)

\* A part that can be placed in a session.
Placeable(m, t, o, i) ==
  /\ t \in Tasks /\ o \in Offsets(t) /\ i \in DOMAIN m.sessions /\ IsQueued(m, t)
  /\ o \notin m.wanted[t] /\ \A r \in m.sent : ~(r.task = t /\ r.offset = o)

LEMMA PlacedEffect ==
  ASSUME NEW m, Good(m), NEW t, NEW o, NEW i, Placeable(m, t, o, i)
  PROVE  Good(Placed(m, t, o, i)) /\ PlacedAt(m, t, o, i, Placed(m, t, o, i))
<1> DEFINE n == Placed(m, t, o, i)
<1>0. m \in Managers /\ m.sessions \in Seq(SessionData) /\ o \in Nat /\ t \in Tasks
      /\ i \in DOMAIN m.sessions
  BY FieldsOfManager, OffsetsAre DEF Good, Typed, Placeable
<1>1. PlacedTo(m, t, o, i, n)
  BY <1>0, PlacedFields
<1>2. m.sessions[i].requested + 1 \in Nat
  BY <1>0, SessionsOf
<1>3. Good(n)
  BY PlacedGood DEF Placeable
<1> HIDE DEF n
<1>4. n.sessions = WithRequested(m.sessions, i, m.sessions[i].requested + 1)
  BY <1>1 DEF PlacedTo
<1>5. SessionsLike(m, n, i, m.sessions[i].requested + 1)
  BY <1>0, <1>2, <1>4, SessionChanged DEF SessionsLike
<1>6. PlacedAt(m, t, o, i, n)
  BY <1>1, <1>5 DEF PlacedTo, PlacedAt, SameElsewhere
<1> QED
  BY <1>3, <1>6 DEF n

-----------------------------------------------------------------------------
(* What sessions have room for *)

LEMMA FinishedFits ==
  ASSUME NEW m, Good(m), Fits(m), NEW r \in m.sent
  PROVE  Fits(Finished(m, r))
<1> DEFINE n == Finished(m, r)
<1>1. FinishedTo(m, r, n)
  BY FinishedEffect
<1>2. m.sessions \in Seq(SessionData)
  BY FieldsOfManager DEF Good, Typed
<1> HIDE DEF n
<1>3. ASSUME NEW j \in DOMAIN n.sessions,
             n.sessions[j].successes > 0 \/ \E x \in n.sent : x.session = j /\ ~Overloaded(n, x)
      PROVE  n.sessions[j].requested =< n.sessions[j].maxWaited
  <2>1. /\ j \in DOMAIN m.sessions /\ n.sessions[j].successes = m.sessions[j].successes
        /\ n.sessions[j].maxWaited = m.sessions[j].maxWaited
        /\ n.sessions[j].requested =< m.sessions[j].requested
        /\ m.sessions[j].requested \in Nat /\ m.sessions[j].maxWaited \in Nat
        /\ n.sessions[j].requested \in Int
    BY <1>1, <1>2, <1>3, SessionsOf DEF FinishedTo, SessionsLike
  <2>2. m.sessions[j].successes > 0 \/ \E x \in m.sent : x.session = j /\ ~Overloaded(m, x)
    <3>1. \A x \in n.sent : x \in m.sent
      BY <1>1 DEF FinishedTo
    <3>2. \A x \in n.sent : x.session = j /\ ~Overloaded(n, x) => ~Overloaded(m, x)
      BY <2>1 DEF Overloaded
    <3> QED
      BY <1>3, <2>1, <3>1, <3>2
  <2>3. m.sessions[j].requested =< m.sessions[j].maxWaited
    BY <2>1, <2>2 DEF Fits
  <2> QED
    BY <2>1, <2>3
<1> QED
  BY <1>3 DEF Fits, n

LEMMA FinishedBounded ==
  ASSUME NEW m, Good(m), Bounded(m), NEW r \in m.sent
  PROVE  Bounded(Finished(m, r))
<1> DEFINE n == Finished(m, r)
<1>1. FinishedTo(m, r, n) /\ Good(n)
  BY FinishedEffect
<1> HIDE DEF n
<1>2. /\ n.sent \subseteq m.sent /\ DOMAIN n.sessions = DOMAIN m.sessions
      /\ Len(n.sessions) = Len(m.sessions)
  BY <1>1 DEF FinishedTo, SessionsLike
<1>3. ASSUME NEW J \in SUBSET DOMAIN n.sessions
      PROVE  Cardinality(PartsOf(n, J))
               =< MaxWaited * (MaxSessions - Len(n.sessions) + Cardinality(J))
  <2>1. PartsOf(n, J) \subseteq PartsOf(m, J) /\ IsFiniteSet(PartsOf(m, J))
        /\ Cardinality(PartsOf(m, J)) \in Nat
    BY <1>2, PartsAreFinite DEF PartsOf, Good, Counted
  <2>2. Cardinality(PartsOf(n, J)) =< Cardinality(PartsOf(m, J))
    BY <2>1, FS_Subset
  <2>3. Cardinality(PartsOf(n, J)) \in Nat
    BY <1>1, PartsAreFinite DEF Good, Counted
  <2> DEFINE B == MaxWaited * (MaxSessions - Len(m.sessions) + Cardinality(J))
  <2>4. Cardinality(PartsOf(m, J)) =< B
    BY <1>2 DEF Bounded
  <2>5. B \in Int
    <3>1. Len(m.sessions) \in Nat /\ Cardinality(J) \in Nat
      <4>1. m.sessions \in Seq(SessionData)
        BY FieldsOfManager DEF Good, Typed
      <4>2. IsFiniteSet(DOMAIN m.sessions) /\ Len(m.sessions) \in Nat
        BY <4>1, SessionsOf, FS_Interval
      <4> QED
        BY <1>2, <4>2, FS_Subset, FS_CardinalityType
    <3> QED
      BY <3>1, Sizes
  <2> HIDE DEF B
  <2>6. Cardinality(PartsOf(n, J)) =< B
    BY <2>1, <2>2, <2>3, <2>4, <2>5
  <2> QED
    BY <1>2, <2>6 DEF B
<1> QED
  BY <1>3 DEF Bounded, n

LEMMA MinOf ==
  ASSUME NEW T \in SUBSET Nat, T # {}
  PROVE  Min(T) \in T /\ \A k \in T : Min(T) =< k
BY LeastNumber DEF Min

LEMMA FirstLeastOf ==
  ASSUME NEW n \in Nat, n > 0, NEW f \in [1..n -> Nat]
  PROVE  FirstLeast(f) \in 1..n /\ \A j \in 1..n : f[FirstLeast(f)] =< f[j]
<1> DEFINE V == {f[i] : i \in 1..n}
<1>1. PICK v \in V : \A w \in V : v =< w
  <2>1. f[1] \in V /\ V \in SUBSET Nat
    OBVIOUS
  <2> HIDE DEF V
  <2> QED
    BY <2>1, LeastNumber
<1> DEFINE I == {i \in 1..n : f[i] = v}
<1>2. PICK i \in I : \A j \in I : i =< j
  <2>1. I \in SUBSET Nat /\ I # {}
    OBVIOUS
  <2> HIDE DEF I
  <2> QED
    BY <2>1, LeastNumber
<1>3. i \in 1..n /\ f[i] = v
  OBVIOUS
<1>4. \A j \in 1..n : f[i] < f[j] \/ (f[i] = f[j] /\ i =< j)
  <2> SUFFICES ASSUME NEW j \in 1..n PROVE f[i] < f[j] \/ (f[i] = f[j] /\ i =< j)
    OBVIOUS
  <2>1. v =< f[j] /\ f[j] \in Nat /\ v \in Nat
    BY <1>1
  <2>2. f[j] = v => i =< j
    BY <1>2
  <2> QED
    BY <1>3, <2>1, <2>2
<1>5. DOMAIN f = 1..n
  OBVIOUS
<1>6. /\ FirstLeast(f) \in 1..n
      /\ \A j \in 1..n : f[FirstLeast(f)] < f[j] \/ (f[FirstLeast(f)] = f[j] /\ FirstLeast(f) =< j)
  <2> HIDE DEF I, V
  <2> QED
    BY <1>3, <1>4, <1>5 DEF FirstLeast
<1> QED
  BY <1>6

\* trySendNextPart finds a session with room when there is one.
LEMMA BestHasRoom ==
  ASSUME NEW m, Good(m)
  PROVE  /\ Best(m) \in DOMAIN m.sessions
         /\ HasRoom(m) <=> \E i \in DOMAIN m.sessions :
                             m.sessions[i].requested < m.sessions[i].maxWaited
<1> DEFINE S == m.sessions
           f == [i \in DOMAIN S |-> IF S[i].requested < S[i].maxWaited THEN S[i].requested
                                    ELSE MaxWaited]
           b == Best(m)
<1>1. S \in Seq(SessionData) /\ Len(S) \in Nat /\ Len(S) > 0 /\ DOMAIN S = 1..Len(S)
  BY FieldsOfManager, SessionsOf, Sizes DEF Good, Typed
<1>2. \A i \in DOMAIN S : S[i].requested \in Nat /\ S[i].maxWaited \in 1..MaxWaited
  BY <1>1, SessionsOf
<1>3. f \in [1..Len(S) -> Nat]
  BY <1>1, <1>2, Sizes
<1>4. b = FirstLeast(f)
  BY DEF Best
<1>5. b \in 1..Len(S) /\ \A j \in 1..Len(S) : f[b] =< f[j]
  <2> HIDE DEF f, b, S
  <2> QED
    BY <1>1, <1>3, <1>4, FirstLeastOf
<1>6. ASSUME NEW i \in DOMAIN S, S[i].requested < S[i].maxWaited
      PROVE  S[b].requested + 1 =< S[b].maxWaited
  <2>1. f[i] = S[i].requested /\ f[i] < MaxWaited
    BY <1>2, <1>6, Sizes
  <2>2. f[b] < MaxWaited
    <3>1. f[b] =< f[i] /\ f[b] \in Nat /\ f[i] \in Nat
      BY <1>1, <1>3, <1>5
    <3> HIDE DEF f, b, S
    <3> QED
      BY <2>1, <3>1, Sizes
  <2>3. S[b].requested < S[b].maxWaited
    BY <1>1, <1>5, <2>2, Sizes
  <2> QED
    BY <1>1, <1>2, <1>5, <2>3
<1>7. HasRoom(m) <=> S[b].requested + 1 =< S[b].maxWaited
  BY DEF HasRoom
<1>8. HasRoom(m) => S[b].requested < S[b].maxWaited
  <2>1. b \in DOMAIN S /\ S[b].requested \in Nat /\ S[b].maxWaited \in Nat
    BY <1>1, <1>2, <1>5, Sizes
  <2> HIDE DEF b, S
  <2> QED
    BY <1>7, <2>1
<1> QED
  BY <1>1, <1>5, <1>6, <1>7, <1>8

\* The next parts a task wants, when they are others.
WantedTo(m, t, x, n) ==
  /\ n \in Managers
  /\ n.wanted = [m.wanted EXCEPT ![t] = x]
  /\ n.sent = m.sent /\ n.total = m.total /\ n.sessions = m.sessions /\ n.queue = m.queue
  /\ n.killing = m.killing /\ n.running = m.running /\ n.timeouts = m.timeouts
  /\ n.removeIndex = m.removeIndex /\ n.removeTimes = m.removeTimes
  /\ n.removed = m.removed /\ n.late = m.late

\* The same manager but for what a task wants.
WithWanted(m, t, x) == [m EXCEPT !.wanted[t] = x]

LEMMA WantedEffect ==
  ASSUME NEW m, Good(m), NEW t \in Tasks, NEW x \in SUBSET Offsets(t),
         \A r \in m.sent : r.task = t => r.offset \notin x
  PROVE  LET n == WithWanted(m, t, x) IN
         /\ WantedTo(m, t, x, n) /\ Good(n)
         /\ Fits(m) => Fits(n)
         /\ Bounded(m) => Bounded(n)
<1> DEFINE w == [m.wanted EXCEPT ![t] = x]
           n == [m EXCEPT !.wanted = w]
<1>1. m \in Managers /\ m.wanted \in [Tasks -> SUBSET Nat]
  BY FieldsOfManager DEF Good, Typed
<1>2. WithWanted(m, t, x) = n
  BY <1>1 DEF WithWanted
<1>3. w \in [Tasks -> SUBSET Nat] /\ \A u \in Tasks : w[u] = IF u = t THEN x ELSE m.wanted[u]
  BY <1>1, OffsetsAre
<1>4. WantedTo(m, t, x, n)
  <2> HIDE DEF w
  <2>1. n \in Managers
    BY <1>1, <1>3 DEF Managers
  <2> QED
    BY <1>1, <2>1 DEF Managers, WantedTo, w
<1> HIDE DEF n
<1>5. Typed(n)
  BY <1>3, <1>4 DEF WantedTo, Typed, Good
<1>6. Counted(n)
  <2>1. \A r \in n.sent : r.task \in Tasks /\ r.offset \notin n.wanted[r.task]
    BY <1>3, <1>4, InFlight DEF WantedTo, Counted, Good
  <2> QED
    BY <1>4, <2>1 DEF WantedTo, Counted, Good, PartsOf, IsQueued
<1>7. Idle(n)
  BY <1>4 DEF WantedTo, Idle, Good
<1>8. Fits(m) => Fits(n)
  BY <1>4 DEF WantedTo, Fits, Overloaded
<1>9. Bounded(m) => Bounded(n)
  BY <1>4 DEF WantedTo, Bounded, PartsOf
<1> QED
  BY <1>2, <1>4, <1>5, <1>6, <1>7, <1>8, <1>9 DEF Good

-----------------------------------------------------------------------------
(* checkSendNext *)

\* What placing a part in a session with room keeps.
LEMMA PlacedFits ==
  ASSUME NEW m, Good(m), Fits(m), NEW t, NEW o, NEW i, Placeable(m, t, o, i),
         m.sessions[i].requested + 1 =< m.sessions[i].maxWaited
  PROVE  Fits(Placed(m, t, o, i))
<1> DEFINE n == Placed(m, t, o, i)
           r == NewPart(m, t, o, i)
<1>1. PlacedAt(m, t, o, i, n)
  BY PlacedEffect
<1>2. m.sessions \in Seq(SessionData)
  BY FieldsOfManager DEF Good, Typed
<1> HIDE DEF n
<1>3. ASSUME NEW j \in DOMAIN n.sessions,
             n.sessions[j].successes > 0 \/ \E x \in n.sent : x.session = j /\ ~Overloaded(n, x)
      PROVE  n.sessions[j].requested =< n.sessions[j].maxWaited
  <2>1. /\ j \in DOMAIN m.sessions /\ n.sessions[j].successes = m.sessions[j].successes
        /\ n.sessions[j].maxWaited = m.sessions[j].maxWaited
        /\ n.sessions[j].requested = IF j = i THEN m.sessions[i].requested + 1
                                     ELSE m.sessions[j].requested
    BY <1>1, <1>3 DEF PlacedAt, SessionsLike
  <2>2. CASE j = i
    BY <2>1, <2>2
  <2>3. CASE j # i
    <3>1. r.session = i
      BY DEF NewPart
    <3>2. \A x \in n.sent : x.session = j => x \in m.sent
      BY <1>1, <2>3, <3>1 DEF PlacedAt
    <3>3. \A x \in n.sent : x.session = j /\ ~Overloaded(n, x) => ~Overloaded(m, x)
      BY <2>1 DEF Overloaded
    <3>4. m.sessions[j].successes > 0 \/ \E x \in m.sent : x.session = j /\ ~Overloaded(m, x)
      BY <1>3, <2>1, <3>2, <3>3
    <3> QED
      BY <2>1, <2>3, <3>4 DEF Fits
  <2> QED
    BY <2>2, <2>3
<1> QED
  BY <1>3 DEF Fits, n

LEMMA PlacesAre ==
  ASSUME NEW m, Good(m)
  PROVE  /\ Len(m.sessions) \in Nat /\ DOMAIN m.sessions = 1..Len(m.sessions)
         /\ IsFiniteSet(DOMAIN m.sessions) /\ IsFiniteSet(m.sent)
         /\ \A J \in SUBSET DOMAIN m.sessions : IsFiniteSet(J) /\ Cardinality(J) \in Nat
         /\ \A J : IsFiniteSet(PartsOf(m, J)) /\ Cardinality(PartsOf(m, J)) \in Nat
<1>1. m.sessions \in Seq(SessionData) /\ IsFiniteSet(m.sent)
  BY FieldsOfManager DEF Good, Typed, Counted
<1>2. Len(m.sessions) \in Nat /\ DOMAIN m.sessions = 1..Len(m.sessions)
  BY <1>1
<1>3. IsFiniteSet(DOMAIN m.sessions)
  BY <1>2, FS_Interval
<1>4. \A J \in SUBSET DOMAIN m.sessions : IsFiniteSet(J) /\ Cardinality(J) \in Nat
  BY <1>3, FS_Subset, FS_CardinalityType
<1> QED
  BY <1>1, <1>2, <1>3, <1>4, PartsAreFinite

\* What so many sessions have room for, one by one.
LEMMA RoomIsAdded == \A x \in Int : MaxWaited * (x - 1) + MaxWaited = MaxWaited * x
BY Sizes

LEMMA PlacedBounded ==
  ASSUME NEW m, Good(m), Bounded(m), NEW t, NEW o, NEW i, Placeable(m, t, o, i),
         m.sessions[i].requested + 1 =< m.sessions[i].maxWaited
  PROVE  Bounded(Placed(m, t, o, i))
<1> DEFINE n == Placed(m, t, o, i)
           r == NewPart(m, t, o, i)
           B(J) == MaxWaited * (MaxSessions - Len(m.sessions) + Cardinality(J))
<1>1. PlacedAt(m, t, o, i, n)
  BY PlacedEffect
<1>2. m.sessions \in Seq(SessionData) /\ i \in DOMAIN m.sessions
  BY FieldsOfManager DEF Good, Typed, Placeable
<1>3. r.session = i
  BY DEF NewPart
<1> HIDE DEF n, r
<1>4. /\ n.sent = m.sent \union {r} /\ DOMAIN n.sessions = DOMAIN m.sessions
      /\ Len(n.sessions) = Len(m.sessions)
  BY <1>1 DEF PlacedAt, SessionsLike, r
<1>5. ASSUME NEW J \in SUBSET DOMAIN m.sessions
      PROVE  Cardinality(PartsOf(n, J)) =< B(J)
  <2>1. CASE i \notin J
    <3>1. PartsOf(n, J) = PartsOf(m, J)
      BY <1>3, <1>4, <2>1 DEF PartsOf
    <3> QED
      BY <3>1 DEF Bounded
  <2>2. CASE i \in J
    <3> DEFINE K == J \ {i}
               P == PartsOf(m, K)
               Q == PartsOf(m, {i}) \union {r}
    <3>1. PartsOf(n, J) = P \union Q
      BY <1>3, <1>4, <2>2 DEF PartsOf
    <3>2. /\ IsFiniteSet(P) /\ Cardinality(P) \in Nat /\ IsFiniteSet(PartsOf(m, {i}))
          /\ Cardinality(PartsOf(m, {i})) = m.sessions[i].requested
          /\ m.sessions[i].requested \in Nat /\ m.sessions[i].maxWaited \in 1..MaxWaited
          /\ Len(m.sessions) \in Nat /\ Cardinality(J) \in Nat /\ IsFiniteSet(J)
      <4>1. Cardinality(PartsOf(m, {i})) = m.sessions[i].requested
        BY <1>2 DEF Good, Counted
      <4> QED
        BY <1>2, <4>1, PlacesAre, SessionsOf
    <3>3. IsFiniteSet(Q) /\ Cardinality(Q) \in Nat /\ Cardinality(Q) =< MaxWaited
      <4>1. /\ IsFiniteSet(Q)
            /\ Cardinality(Q) = IF r \in PartsOf(m, {i}) THEN Cardinality(PartsOf(m, {i}))
                                ELSE Cardinality(PartsOf(m, {i})) + 1
        BY <3>2, FS_AddElement
      <4> DEFINE c == Cardinality(Q)
                 a == Cardinality(PartsOf(m, {i}))
                 w == m.sessions[i].maxWaited
      <4>2. /\ IsFiniteSet(Q) /\ (c = a \/ c = a + 1)
            /\ a \in Nat /\ w \in 1..MaxWaited /\ a + 1 =< w
        <5> HIDE DEF Q
        <5> QED
          BY <3>2, <4>1
      <4> HIDE DEF Q, a, c, w
      <4>3. c \in Nat /\ c =< MaxWaited
        BY <4>2, Sizes
      <4> QED
        BY <4>2, <4>3 DEF c
    <3>4. Cardinality(P) =< B(K)
      <4>1. K \in SUBSET DOMAIN m.sessions
        OBVIOUS
      <4> HIDE DEF K
      <4> QED
        BY <4>1 DEF Bounded
    <3>5. Cardinality(K) = Cardinality(J) - 1
      BY <2>2, <3>2, FS_RemoveElement
    <3>6. B(K) + MaxWaited = B(J) /\ B(K) \in Int /\ B(J) \in Int
      <4> DEFINE x == MaxSessions - Len(m.sessions) + Cardinality(J)
      <4> HIDE DEF K
      <4>0. Len(m.sessions) \in Nat /\ Cardinality(J) \in Nat
        BY <3>2
      <4>1. x \in Int /\ MaxSessions - Len(m.sessions) + Cardinality(K) = x - 1
        <5>1. \A a, b, c \in Int : a - b + c \in Int /\ a - b + (c - 1) = a - b + c - 1
          OBVIOUS
        <5> QED
          BY <3>5, <4>0, <5>1, Sizes
      <4> HIDE DEF x
      <4>2. MaxWaited * (x - 1) + MaxWaited = MaxWaited * x
        BY <4>1, RoomIsAdded
      <4>3. B(K) = MaxWaited * (x - 1) /\ B(J) = MaxWaited * x
        BY <4>1 DEF x
      <4> QED
        BY <4>1, <4>2, <4>3, Sizes
    <3>7. Cardinality(P \union Q) =< Cardinality(P) + Cardinality(Q)
      <4>0. IsFiniteSet(P) /\ IsFiniteSet(Q)
        BY <3>2, <3>3
      <4> HIDE DEF P, Q
      <4>1. IsFiniteSet(P \cap Q) /\ Cardinality(P \cap Q) \in Nat
        BY <4>0, FS_Intersection, FS_CardinalityType
      <4>2. Cardinality(P \union Q) = Cardinality(P) + Cardinality(Q) - Cardinality(P \cap Q)
        BY <4>0, FS_Union
      <4> QED
        BY <3>2, <3>3, <4>1, <4>2
    <3>8. Cardinality(P \union Q) \in Nat
      BY <3>2, <3>3, FS_Union, FS_CardinalityType
    <3> HIDE DEF P, Q, B, K
    <3> QED
      BY <3>1, <3>2, <3>3, <3>4, <3>6, <3>7, <3>8, Sizes
  <2> QED
    BY <2>1, <2>2
<1> QED
  BY <1>4, <1>5 DEF Bounded, n

LEMMA ReadyAre ==
  ASSUME NEW m, Good(m)
  PROVE  /\ Ready(m) \subseteq DOMAIN m.queue /\ Ready(m) \in SUBSET Nat
         /\ \A k \in DOMAIN m.queue : m.queue[k].task \in Tasks /\ m.queue[k].priority \in -1..1
         /\ \A k \in Ready(m) : m.wanted[m.queue[k].task] # {}
<1>1. m.queue \in Seq(Entries)
  BY FieldsOfManager DEF Good, Typed
<1>2. DOMAIN m.queue = 1..Len(m.queue) /\ Len(m.queue) \in Nat
      /\ \A k \in DOMAIN m.queue : m.queue[k] \in Entries
  BY <1>1
<1>3. \A e \in Entries : e.task \in Tasks /\ e.priority \in -1..1
  BY DEF Entries
<1>4. \A k \in DOMAIN m.queue : k \in Nat
  BY <1>2
<1> QED
  BY <1>2, <1>3, <1>4 DEF Ready

\* What checkSendNext could send.
WantedParts(m) == UNION {{t} \X m.wanted[t] : t \in Tasks}

LEMMA WantedAreFinite ==
  ASSUME NEW m, Good(m)
  PROVE  IsFiniteSet(WantedParts(m)) /\ Cardinality(WantedParts(m)) \in Nat
<1> DEFINE T == {{t} \X m.wanted[t] : t \in Tasks}
           f == [t \in Tasks |-> {t} \X m.wanted[t]]
<1>1. IsFiniteSet(Tasks)
  BY SizesAssumption, FS_Union DEF Tasks
<1>2. f \in Surjection(Tasks, T)
  BY DEF Surjection
<1>3. IsFiniteSet(T)
  <2> HIDE DEF f, T
  <2> QED
    BY <1>1, <1>2, FS_Surjection
<1>4. ASSUME NEW t \in Tasks PROVE IsFiniteSet({t} \X m.wanted[t])
  <2>1. IsFiniteSet(m.wanted[t]) /\ IsFiniteSet({t})
    BY OffsetsAre, FS_Subset, FS_Singleton DEF Good, Typed
  <2> QED
    BY <2>1, FS_Product
<1>5. IsFiniteSet(UNION T)
  <2>1. \A x \in T : IsFiniteSet(x)
    BY <1>4
  <2> HIDE DEF T
  <2> QED
    BY <1>3, <2>1, FS_UNION
<1> QED
  BY <1>5, FS_CardinalityType DEF WantedParts

\* A part that is sent is one that was wanted, in a session with room.
LEMMA PartSentEffect ==
  ASSUME NEW m, Fine(m), CanSend(m)
  PROVE  /\ Fine(PartSent(m))
         /\ Cardinality(WantedParts(m)) > 0
         /\ Cardinality(WantedParts(PartSent(m))) = Cardinality(WantedParts(m)) - 1
<1> DEFINE q == Min(Ready(m))
           t == m.queue[q].task
           o == Min(m.wanted[t])
           i == Best(m)
           x == m.wanted[t] \ {o}
           m1 == WithWanted(m, t, x)
           n == PartSent(m)
<1>1. Good(m) /\ Fits(m) /\ Bounded(m) /\ HasRoom(m) /\ Ready(m) # {}
  BY DEF Fine, CanSend
<1>2. q \in Ready(m) /\ q \in DOMAIN m.queue
  BY <1>1, ReadyAre, MinOf
<1>3. t \in Tasks /\ m.wanted[t] # {} /\ IsQueued(m, t)
  BY <1>1, <1>2, ReadyAre DEF IsQueued
<1>4. m.wanted[t] \subseteq Offsets(t) /\ m.wanted[t] \in SUBSET Nat
  BY <1>1, <1>3, OffsetsAre DEF Good, Typed
<1>5. o \in m.wanted[t] /\ o \in Offsets(t)
  BY <1>3, <1>4, MinOf
<1>6. i \in DOMAIN m.sessions /\ m.sessions[i].requested + 1 =< m.sessions[i].maxWaited
  BY <1>1, BestHasRoom DEF HasRoom
<1>7. n = Placed(m1, t, o, i)
  BY DEF PartSent, WithWanted
<1> HIDE DEF q, t, o, i, m1, n
<1>8. x \in SUBSET Offsets(t) /\ \A r \in m.sent : r.task = t => r.offset \notin x
  BY <1>1, <1>4 DEF Good, Counted
<1>9. WantedTo(m, t, x, m1) /\ Good(m1) /\ Fits(m1) /\ Bounded(m1)
  <2> HIDE DEF x
  <2> QED
    BY <1>1, <1>3, <1>8, WantedEffect DEF m1
<1>10. m.wanted \in [Tasks -> SUBSET Nat]
  BY <1>1, FieldsOfManager DEF Good, Typed
<1>11. \A r \in m.sent : ~(r.task = t /\ r.offset = o)
  BY <1>1, <1>5 DEF Good, Counted
<1>12. Placeable(m1, t, o, i)
  <2>1. o \notin m1.wanted[t]
    BY <1>3, <1>9, <1>10 DEF WantedTo
  <2> QED
    BY <1>3, <1>5, <1>6, <1>9, <1>11, <2>1 DEF Placeable, WantedTo, IsQueued
<1>13. m1.sessions[i].requested + 1 =< m1.sessions[i].maxWaited
  BY <1>6, <1>9 DEF WantedTo
<1>14. Fine(n)
  BY <1>7, <1>9, <1>12, <1>13, PlacedEffect, PlacedFits, PlacedBounded DEF Fine
<1>15. PlacedAt(m1, t, o, i, n)
  BY <1>7, <1>9, <1>12, PlacedEffect
<1>16. n.wanted = [m.wanted EXCEPT ![t] = m.wanted[t] \ {o}]
  BY <1>9, <1>15 DEF PlacedAt, SameElsewhere, WantedTo
<1>17. \A u \in Tasks : n.wanted[u] = IF u = t THEN m.wanted[t] \ {o} ELSE m.wanted[u]
  BY <1>10, <1>16
<1>18. WantedParts(n) = WantedParts(m) \ {<<t, o>>} /\ <<t, o>> \in WantedParts(m)
  <2>1. <<t, o>> \in WantedParts(m)
    BY <1>3, <1>5 DEF WantedParts
  <2>2. \A p : p \in WantedParts(n) <=> \E u \in Tasks : \E y \in n.wanted[u] : p = <<u, y>>
    BY DEF WantedParts
  <2>3. \A p : p \in WantedParts(m) <=> \E u \in Tasks : \E y \in m.wanted[u] : p = <<u, y>>
    BY DEF WantedParts
  <2>4. ASSUME NEW p PROVE p \in WantedParts(n) <=> p \in WantedParts(m) /\ p # <<t, o>>
    BY <1>17, <2>2, <2>3
  <2> QED
    BY <2>1, <2>4
<1>19. IsFiniteSet(WantedParts(m)) /\ Cardinality(WantedParts(m)) \in Nat
  BY <1>1, WantedAreFinite
<1>20. Cardinality(WantedParts(m)) > 0
  BY <1>18, <1>19, FS_EmptySet
<1>21. Cardinality(WantedParts(n)) = Cardinality(WantedParts(m)) - 1
  BY <1>18, <1>19, FS_RemoveElement
<1> QED
  BY <1>14, <1>20, <1>21 DEF n

\* checkSendNext sends until nothing can be sent.
LEMMA CheckedEffect ==
  ASSUME NEW m, Fine(m)
  PROVE  Fine(Checked(m)) /\ ~CanSend(Checked(m))
<1> DEFINE S == {k \in Managers : Fine(k)}
           n == Cardinality(WantedParts(m))
<1>1. m \in S /\ n \in Nat
  BY WantedAreFinite DEF Fine, Good, Typed
<1>2. ASSUME NEW k \in S, CanSend(k) PROVE PartSent(k) \in S
  BY <1>2, PartSentEffect DEF Fine, Good, Typed
<1>3. n = Cardinality(UNION {{t} \X m.wanted[t] : t \in Tasks})
  BY DEF WantedParts
<1>4. PICK g \in [0..n -> S] : SendsFrom(m, n, g)
  <2> HIDE DEF S, n
  <2> QED
    BY <1>1, <1>2, <1>3, CheckedLoop
<1> DEFINE T == {k \in Nat : k =< n /\ CanSend(g[k]) => Cardinality(WantedParts(g[k])) =< n - k}
<1> HIDE DEF n
<1>5. 0 \in T
  BY <1>1, <1>4 DEF n, SendsFrom
<1>6. ASSUME NEW k \in T PROVE k + 1 \in T
  <2>1. SUFFICES ASSUME k + 1 =< n, CanSend(g[k + 1])
                 PROVE  Cardinality(WantedParts(g[k + 1])) =< n - (k + 1)
    OBVIOUS
  <2>2. k \in Nat /\ k \in 0..n /\ k + 1 \in 1..n /\ (k + 1) - 1 = k /\ g[k] \in S
    BY <1>1, <2>1
  <2>3. g[k + 1] = IF CanSend(g[k]) THEN PartSent(g[k]) ELSE g[k]
    BY <1>4, <2>2 DEF SendsFrom
  <2>4. CanSend(g[k])
    BY <2>1, <2>3
  <2>5. Cardinality(WantedParts(g[k])) =< n - k
    BY <2>2, <2>4
  <2>6. /\ Cardinality(WantedParts(g[k + 1])) = Cardinality(WantedParts(g[k])) - 1
        /\ Cardinality(WantedParts(g[k])) \in Nat
    BY <2>2, <2>3, <2>4, PartSentEffect, WantedAreFinite DEF Fine
  <2> QED
    BY <1>1, <2>2, <2>5, <2>6
<1>7. T = Nat
  <2>1. T \in SUBSET Nat
    OBVIOUS
  <2> HIDE DEF T
  <2> QED
    BY <1>5, <1>6, <2>1, Induction
<1>8. Fine(g[n])
  BY <1>1
<1>9. ~CanSend(g[n])
  <2> SUFFICES ASSUME CanSend(g[n]) PROVE FALSE
    OBVIOUS
  <2>1. Cardinality(WantedParts(g[n])) =< n - n
    BY <1>1, <1>7
  <2>2. Cardinality(WantedParts(g[n])) > 0 /\ Cardinality(WantedParts(g[n])) \in Nat
    BY <1>8, PartSentEffect, WantedAreFinite DEF Fine
  <2> QED
    BY <1>1, <2>1, <2>2
<1> QED
  BY <1>4, <1>8, <1>9 DEF SendsFrom

-----------------------------------------------------------------------------
(* The queue *)

\* The order of a queue, who is in it, and a manager with another queue.
Sorted(q) ==
  \A i, j \in DOMAIN q : i < j => q[i].priority >= q[j].priority /\ q[i].task # q[j].task

Queued(q, t) == \E i \in DOMAIN q : q[i].task = t

WithQueue(m, q) == [m EXCEPT !.queue = q]

QueueTo(m, q, n) ==
  /\ n \in Managers /\ n.queue = q
  /\ n.wanted = m.wanted /\ n.sent = m.sent /\ n.total = m.total /\ n.sessions = m.sessions
  /\ n.killing = m.killing /\ n.running = m.running /\ n.timeouts = m.timeouts
  /\ n.removeIndex = m.removeIndex /\ n.removeTimes = m.removeTimes
  /\ n.removed = m.removed /\ n.late = m.late

LEMMA QueueEffect ==
  ASSUME NEW m, Fine(m), NEW q \in Seq(Entries), Sorted(q), \A r \in m.sent : Queued(q, r.task)
  PROVE  QueueTo(m, q, WithQueue(m, q)) /\ Fine(WithQueue(m, q))
<1> DEFINE n == WithQueue(m, q)
<1>1. m \in Managers
  BY DEF Fine, Good, Typed
<1>2. QueueTo(m, q, n)
  BY <1>1 DEF WithQueue, QueueTo, Managers
<1> HIDE DEF n
<1>3. Typed(n)
  BY <1>2 DEF QueueTo, Typed, Fine, Good, Sorted
<1>4. Counted(n)
  <2>1. \A r \in n.sent : IsQueued(n, r.task)
    BY <1>2 DEF QueueTo, Queued, IsQueued
  <2> QED
    BY <1>2, <2>1 DEF QueueTo, Counted, Fine, Good, PartsOf
<1>5. Idle(n)
  BY <1>2 DEF QueueTo, Idle, Fine, Good
<1>6. Fits(n)
  BY <1>2 DEF QueueTo, Fits, Fine, Overloaded
<1>7. Bounded(n)
  BY <1>2 DEF QueueTo, Bounded, Fine, PartsOf
<1> QED
  BY <1>2, <1>3, <1>4, <1>5, <1>6, <1>7 DEF n, Fine, Good

LEMMA RemoveAtIs ==
  ASSUME NEW S, NEW s \in Seq(S), NEW i \in DOMAIN s
  PROVE  /\ RemoveAt(s, i) \in Seq(S) /\ Len(RemoveAt(s, i)) = Len(s) - 1
         /\ \A k \in 1..Len(s) - 1 : RemoveAt(s, i)[k] = IF k < i THEN s[k] ELSE s[k + 1]
<1> DEFINE a == SubSeq(s, 1, i - 1)
           b == SubSeq(s, i + 1, Len(s))
<1>0. Len(s) \in Nat /\ i \in 1..Len(s) /\ \A k \in 1..Len(s) : s[k] \in S
  OBVIOUS
<1>1. a \in Seq(S) /\ Len(a) = i - 1 /\ \A k \in 1..i - 1 : a[k] = s[k]
  <2>1. /\ a \in Seq(S) /\ Len(a) = IF 1 =< i - 1 THEN i - 1 - 1 + 1 ELSE 0
        /\ \A k \in 1..i - 1 - 1 + 1 : a[k] = s[1 + k - 1]
    BY <1>0, SubSeqProperties
  <2> HIDE DEF a
  <2> QED
    BY <1>0, <2>1
<1>2. b \in Seq(S) /\ Len(b) = Len(s) - i /\ \A k \in 1..Len(s) - i : b[k] = s[i + k]
  <2>1. /\ b \in Seq(S) /\ Len(b) = IF i + 1 =< Len(s) THEN Len(s) - (i + 1) + 1 ELSE 0
        /\ \A k \in 1..Len(s) - (i + 1) + 1 : b[k] = s[i + 1 + k - 1]
    BY <1>0, SubSeqProperties
  <2> HIDE DEF b
  <2> QED
    BY <1>0, <2>1
<1> HIDE DEF a, b
<1>3. RemoveAt(s, i) = a \o b
  BY DEF RemoveAt, a, b
<1>4. /\ a \o b \in Seq(S) /\ Len(a \o b) = Len(a) + Len(b)
      /\ \A k \in 1..Len(a) + Len(b) : (a \o b)[k] = IF k <= Len(a) THEN a[k] ELSE b[k - Len(a)]
  BY <1>1, <1>2, ConcatProperties
<1>5. ASSUME NEW k \in 1..Len(s) - 1
      PROVE  (a \o b)[k] = IF k < i THEN s[k] ELSE s[k + 1]
  <2>0. Len(a) = i - 1 /\ Len(a) + Len(b) = Len(s) - 1
    BY <1>0, <1>1, <1>2
  <2> DEFINE x == (a \o b)[k]
  <2>1. x = IF k <= i - 1 THEN a[k] ELSE b[k - (i - 1)]
    BY <1>4, <2>0
  <2> HIDE DEF x
  <2>2. ASSUME k < i PROVE x = s[k]
    BY <1>0, <1>1, <2>1, <2>2
  <2>3. ASSUME ~(k < i) PROVE x = s[k + 1]
    <3>1. k - (i - 1) \in 1..Len(s) - i /\ i + (k - (i - 1)) = k + 1
      BY <1>0, <2>3
    <3>2. b[k - (i - 1)] = s[i + (k - (i - 1))]
      BY <1>2, <3>1
    <3> QED
      BY <1>0, <2>1, <2>3, <3>1, <3>2
  <2> QED
    BY <2>2, <2>3 DEF x
<1>6. Len(a \o b) = Len(s) - 1
  BY <1>0, <1>1, <1>2, <1>4
<1> QED
  BY <1>3, <1>4, <1>5, <1>6

LEMMA InsertAtIs ==
  ASSUME NEW S, NEW s \in Seq(S), NEW i \in 1..Len(s) + 1, NEW e \in S
  PROVE  /\ InsertAt(s, i, e) \in Seq(S) /\ Len(InsertAt(s, i, e)) = Len(s) + 1
         /\ \A k \in 1..Len(s) + 1 :
              InsertAt(s, i, e)[k] = IF k < i THEN s[k] ELSE IF k = i THEN e ELSE s[k - 1]
<1> DEFINE a == SubSeq(s, 1, i - 1)
           b == SubSeq(s, i, Len(s))
           c == <<e>>
<1>0. Len(s) \in Nat /\ i \in Nat /\ i > 0 /\ i =< Len(s) + 1 /\ \A k \in 1..Len(s) : s[k] \in S
  OBVIOUS
<1>1. a \in Seq(S) /\ Len(a) = i - 1 /\ \A k \in 1..i - 1 : a[k] = s[k]
  <2>1. /\ a \in Seq(S) /\ Len(a) = IF 1 =< i - 1 THEN i - 1 - 1 + 1 ELSE 0
        /\ \A k \in 1..i - 1 - 1 + 1 : a[k] = s[1 + k - 1]
    BY <1>0, SubSeqProperties
  <2> HIDE DEF a
  <2> QED
    BY <1>0, <2>1
<1>2. /\ b \in Seq(S) /\ Len(b) = Len(s) + 1 - i
      /\ \A k \in 1..Len(s) + 1 - i : b[k] = s[i + k - 1]
  <2>1. /\ b \in Seq(S) /\ Len(b) = IF i =< Len(s) THEN Len(s) - i + 1 ELSE 0
        /\ \A k \in 1..Len(s) - i + 1 : b[k] = s[i + k - 1]
    BY <1>0, SubSeqProperties
  <2> HIDE DEF b
  <2> QED
    BY <1>0, <2>1
<1>3. c \in Seq(S) /\ Len(c) = 1 /\ c[1] = e
  OBVIOUS
<1> HIDE DEF a, b, c
<1>4. InsertAt(s, i, e) = a \o c \o b
  BY DEF InsertAt, a, b, c
<1> DEFINE ac == a \o c
<1>5. /\ ac \in Seq(S) /\ Len(ac) = i
      /\ \A k \in 1..i : ac[k] = IF k < i THEN s[k] ELSE e
  <2>1. /\ ac \in Seq(S) /\ Len(ac) = Len(a) + Len(c)
        /\ \A k \in 1..Len(a) + Len(c) : ac[k] = IF k <= Len(a) THEN a[k] ELSE c[k - Len(a)]
    BY <1>1, <1>3, ConcatProperties
  <2> HIDE DEF ac
  <2>2. Len(ac) = i
    BY <1>0, <1>1, <1>3, <2>1
  <2>3. ASSUME NEW k \in 1..i PROVE ac[k] = IF k < i THEN s[k] ELSE e
    <3>1. ac[k] = IF k <= i - 1 THEN a[k] ELSE c[k - (i - 1)]
      BY <1>0, <1>1, <1>3, <2>1
    <3>2. CASE k < i
      BY <1>0, <1>1, <3>1, <3>2
    <3>3. CASE k = i
      BY <1>0, <1>3, <3>1, <3>3
    <3> QED
      BY <1>0, <3>2, <3>3
  <2> QED
    BY <2>1, <2>2, <2>3
<1> HIDE DEF ac
<1>6. /\ ac \o b \in Seq(S) /\ Len(ac \o b) = Len(ac) + Len(b)
      /\ \A k \in 1..Len(ac) + Len(b) :
           (ac \o b)[k] = IF k <= Len(ac) THEN ac[k] ELSE b[k - Len(ac)]
  BY <1>2, <1>5, ConcatProperties
<1>7. ASSUME NEW k \in 1..Len(s) + 1
      PROVE  (ac \o b)[k] = IF k < i THEN s[k] ELSE IF k = i THEN e ELSE s[k - 1]
  <2>1. (ac \o b)[k] = IF k <= i THEN ac[k] ELSE b[k - i]
    BY <1>0, <1>2, <1>5, <1>6
  <2>2. CASE k =< i
    BY <1>0, <1>5, <2>1, <2>2
  <2>3. CASE ~(k =< i)
    <3>1. k - i \in 1..Len(s) + 1 - i /\ i + (k - i) - 1 = k - 1
      BY <1>0, <2>3
    <3>2. b[k - i] = s[i + (k - i) - 1]
      BY <1>2, <3>1
    <3> QED
      BY <1>0, <2>1, <2>3, <3>1, <3>2
  <2> QED
    BY <2>2, <2>3
<1>8. Len(ac \o b) = Len(s) + 1
  BY <1>0, <1>2, <1>5, <1>6
<1>9. InsertAt(s, i, e) = ac \o b
  BY <1>4 DEF ac
<1> QED
  BY <1>6, <1>7, <1>8, <1>9

\* A queue without a task, still in order.
LEMMA QueueWithout ==
  ASSUME NEW m \in Managers, Sorted(m.queue), NEW t
  PROVE  LET q == Dequeued(m, t).queue IN
         /\ q \in Seq(Entries) /\ Sorted(q)
         /\ \A u : Queued(q, u) <=> Queued(m.queue, u) /\ u # t
         /\ Dequeued(m, t) = WithQueue(m, q)
<1> DEFINE s == m.queue
           i == CHOOSE k \in DOMAIN s : s[k].task = t
           q == RemoveAt(s, i)
<1>0. s \in Seq(Entries) /\ DOMAIN s = 1..Len(s) /\ Len(s) \in Nat
  BY FieldsOfManager
<1>1. CASE ~IsQueued(m, t)
  <2>1. Dequeued(m, t) = m
    BY <1>1 DEF Dequeued
  <2>2. m = WithQueue(m, m.queue)
    BY DEF WithQueue, Managers
  <2> QED
    BY <1>0, <1>1, <2>1, <2>2 DEF Queued, IsQueued
<1>2. CASE IsQueued(m, t)
  <2>1. i \in DOMAIN s /\ s[i].task = t
    BY <1>2 DEF IsQueued
  <2>2. Dequeued(m, t) = WithQueue(m, q)
    BY <1>2 DEF Dequeued, WithQueue
  <2>3. Dequeued(m, t).queue = q
    BY <2>2 DEF WithQueue, Managers
  <2> HIDE DEF i, q
  <2>4. /\ q \in Seq(Entries) /\ Len(q) = Len(s) - 1
        /\ \A k \in 1..Len(s) - 1 : q[k] = IF k < i THEN s[k] ELSE s[k + 1]
    BY <1>0, <2>1, RemoveAtIs DEF q
  <2>5. DOMAIN q = 1..Len(s) - 1
    BY <2>4
  <2> HIDE DEF s
  <2>6. Sorted(q)
    <3> SUFFICES ASSUME NEW a \in DOMAIN q, NEW b \in DOMAIN q, a < b
                 PROVE  q[a].priority >= q[b].priority /\ q[a].task # q[b].task
      BY DEF Sorted
    <3> DEFINE x == IF a < i THEN a ELSE a + 1
               y == IF b < i THEN b ELSE b + 1
    <3>1. x \in DOMAIN s /\ y \in DOMAIN s /\ x < y
      BY <1>0, <2>1, <2>5
    <3>2. q[a] = s[x] /\ q[b] = s[y]
      BY <2>4, <2>5
    <3> HIDE DEF x, y
    <3> QED
      BY <3>1, <3>2 DEF Sorted, s
  <2>7. ASSUME NEW u PROVE Queued(q, u) <=> Queued(s, u) /\ u # t
    <3>1. ASSUME NEW k \in DOMAIN q, q[k].task = u PROVE Queued(s, u) /\ u # t
      <4> DEFINE x == IF k < i THEN k ELSE k + 1
      <4>1. x \in DOMAIN s /\ (x < i \/ i < x)
        BY <1>0, <2>1, <2>5
      <4>2. q[k] = s[x]
        BY <2>4, <2>5
      <4> HIDE DEF x
      <4>3. s[x].task # s[i].task
        BY <2>1, <4>1 DEF Sorted, s
      <4> QED
        BY <2>1, <3>1, <4>1, <4>2, <4>3 DEF Queued
    <3>2. ASSUME NEW k \in DOMAIN s, s[k].task = u, u # t PROVE Queued(q, u)
      <4> DEFINE x == IF k < i THEN k ELSE k - 1
      <4>1. k # i
        BY <2>1, <3>2
      <4>2. x \in DOMAIN q /\ x \in 1..Len(s) - 1 /\ k = IF x < i THEN x ELSE x + 1
        BY <1>0, <2>1, <2>5, <4>1
      <4>3. q[x] = s[k]
        <5> HIDE DEF x
        <5> QED
          BY <2>4, <4>2
      <4> HIDE DEF x
      <4> QED
        BY <3>2, <4>2, <4>3 DEF Queued
    <3> QED
      BY <3>1, <3>2 DEF Queued
  <2> QED
    BY <2>2, <2>3, <2>4, <2>6, <2>7 DEF s
<1> QED
  BY <1>1, <1>2

\* A queue with a task at its priority, in order.
LEMMA QueueWith ==
  ASSUME NEW m \in Managers, Sorted(m.queue), NEW t \in Tasks, NEW p \in -1..1
  PROVE  LET q == Enqueued(m, t, p).queue IN
         /\ q \in Seq(Entries) /\ Sorted(q)
         /\ \A u : Queued(q, u) <=> Queued(m.queue, u) \/ u = t
         /\ Enqueued(m, t, p) = WithQueue(m, q)
<1> DEFINE s == Dequeued(m, t).queue
           after == {i \in DOMAIN s : s[i].priority =< p}
           i == IF after = {} THEN Len(s) + 1 ELSE Min(after)
           e == [task |-> t, priority |-> p]
           q == InsertAt(s, i, e)
<1>1. /\ s \in Seq(Entries) /\ Sorted(s)
      /\ \A u : Queued(s, u) <=> Queued(m.queue, u) /\ u # t
  BY QueueWithout
<1>2. Enqueued(m, t, p) = WithQueue(m, q)
  BY DEF Enqueued, WithQueue
<1>3. Enqueued(m, t, p).queue = q
  BY <1>2 DEF WithQueue, Managers
<1>4. e \in Entries /\ e.task = t /\ e.priority = p
  BY DEF Entries
<1> HIDE DEF s, i, q, e
<1>5. DOMAIN s = 1..Len(s) /\ Len(s) \in Nat
  BY <1>1
<1>6. \A k \in DOMAIN s : s[k] \in Entries /\ s[k].priority \in -1..1
  <2>1. \A x \in Entries : x.priority \in -1..1
    BY DEF Entries
  <2> QED
    BY <1>1, <1>5, <2>1
<1>7. /\ i \in 1..Len(s) + 1
      /\ \A k \in DOMAIN s : k < i => s[k].priority > p
      /\ \A k \in DOMAIN s : k >= i => s[k].priority =< p
  <2>1. CASE after = {}
    <3>1. \A k \in DOMAIN s : ~(s[k].priority =< p)
      BY <2>1
    <3> QED
      BY <1>5, <1>6, <2>1, <3>1 DEF i
  <2>2. CASE after # {}
    <3>1. after \in SUBSET Nat
      BY <1>5
    <3> HIDE DEF after
    <3>2. i \in after /\ \A k \in after : i =< k
      BY <2>2, <3>1, MinOf DEF i
    <3>3. i \in DOMAIN s /\ s[i].priority =< p
      BY <3>2 DEF after
    <3>4. ASSUME NEW k \in DOMAIN s, k < i PROVE s[k].priority > p
      <4>1. k \notin after
        BY <1>5, <3>2, <3>3, <3>4
      <4> QED
        BY <1>6, <4>1 DEF after
    <3>5. ASSUME NEW k \in DOMAIN s, k >= i PROVE s[k].priority =< p
      <4>1. CASE k = i
        BY <3>3, <4>1
      <4>2. CASE i < k
        <5>1. s[i].priority >= s[k].priority
          BY <1>1, <3>3, <4>2 DEF Sorted
        <5> QED
          BY <1>6, <3>3, <5>1
      <4> QED
        BY <1>5, <3>3, <3>5, <4>1, <4>2
    <3> QED
      BY <1>5, <3>3, <3>4, <3>5
  <2> QED
    BY <2>1, <2>2
<1> HIDE DEF after
<1>8. /\ q \in Seq(Entries) /\ Len(q) = Len(s) + 1
      /\ \A k \in 1..Len(s) + 1 :
           q[k] = IF k < i THEN s[k] ELSE IF k = i THEN e ELSE s[k - 1]
  BY <1>1, <1>4, <1>7, InsertAtIs DEF q
<1>9. DOMAIN q = 1..Len(s) + 1
  BY <1>8
<1>10. \A k \in DOMAIN s : s[k].task # t
  BY <1>1 DEF Queued
<1>11. Sorted(q)
  <2> SUFFICES ASSUME NEW a \in DOMAIN q, NEW b \in DOMAIN q, a < b
               PROVE  q[a].priority >= q[b].priority /\ q[a].task # q[b].task
    BY DEF Sorted
  <2>1. a \in 1..Len(s) + 1 /\ b \in 1..Len(s) + 1
    BY <1>9
  <2>2. CASE a = i
    <3>1. q[a] = e /\ q[b] = s[b - 1] /\ b - 1 \in DOMAIN s /\ b - 1 >= i
      BY <1>5, <1>7, <1>8, <2>1, <2>2
    <3> QED
      BY <1>4, <1>6, <1>7, <1>10, <3>1
  <2>3. CASE b = i
    <3>1. q[b] = e /\ q[a] = s[a] /\ a \in DOMAIN s /\ a < i
      BY <1>5, <1>7, <1>8, <2>1, <2>3
    <3> QED
      BY <1>4, <1>6, <1>7, <1>10, <3>1
  <2>4. CASE a # i /\ b # i
    <3> DEFINE x == IF a < i THEN a ELSE a - 1
               y == IF b < i THEN b ELSE b - 1
    <3>1. x \in DOMAIN s /\ y \in DOMAIN s /\ x < y
      BY <1>5, <1>7, <2>1, <2>4
    <3>2. q[a] = s[x] /\ q[b] = s[y]
      BY <1>8, <2>1, <2>4
    <3> HIDE DEF x, y
    <3> QED
      BY <1>1, <3>1, <3>2 DEF Sorted
  <2> QED
    BY <2>2, <2>3, <2>4
<1>12. ASSUME NEW u PROVE Queued(q, u) <=> Queued(m.queue, u) \/ u = t
  <2>1. ASSUME NEW k \in DOMAIN q, q[k].task = u PROVE Queued(s, u) \/ u = t
    <3>1. CASE k = i
      BY <1>4, <1>7, <1>8, <2>1, <3>1
    <3>2. CASE k # i
      <4> DEFINE x == IF k < i THEN k ELSE k - 1
      <4>1. x \in DOMAIN s /\ q[k] = s[x]
        BY <1>5, <1>7, <1>8, <1>9, <3>2
      <4> HIDE DEF x
      <4> QED
        BY <2>1, <4>1 DEF Queued
    <3> QED
      BY <3>1, <3>2
  <2>2. ASSUME NEW k \in DOMAIN s, s[k].task = u PROVE Queued(q, u)
    <3> DEFINE x == IF k < i THEN k ELSE k + 1
    <3>1. x \in 1..Len(s) + 1
      BY <1>5, <1>7
    <3>2. q[x] = s[k]
      <4>1. q[x] = IF x < i THEN s[x] ELSE IF x = i THEN e ELSE s[x - 1]
        <5> HIDE DEF x
        <5> QED
          BY <1>8, <3>1
      <4> QED
        BY <1>5, <1>7, <4>1
    <3> HIDE DEF x
    <3> QED
      BY <1>9, <2>2, <3>1, <3>2 DEF Queued
  <2>3. Queued(q, t)
    <3>1. i \in DOMAIN q /\ q[i].task = t
      BY <1>4, <1>7, <1>8, <1>9
    <3> QED
      BY <3>1 DEF Queued
  <2> QED
    BY <1>1, <2>1, <2>2, <2>3 DEF Queued
<1> QED
  BY <1>2, <1>3, <1>8, <1>11, <1>12

LEMMA DequeuedEffect ==
  ASSUME NEW m, Fine(m), NEW t, \A r \in m.sent : r.task # t
  PROVE  LET n == Dequeued(m, t) IN
         Fine(n) /\ QueueTo(m, n.queue, n) /\ \A u : IsQueued(n, u) <=> IsQueued(m, u) /\ u # t
<1> DEFINE n == Dequeued(m, t)
           q == n.queue
<1>1. m \in Managers /\ Sorted(m.queue)
  BY DEF Fine, Good, Typed, Sorted
<1>2. /\ q \in Seq(Entries) /\ Sorted(q)
      /\ \A u : Queued(q, u) <=> Queued(m.queue, u) /\ u # t
      /\ n = WithQueue(m, q)
  BY <1>1, QueueWithout
<1> HIDE DEF n
<1>3. \A r \in m.sent : Queued(q, r.task)
  BY <1>2 DEF Fine, Good, Counted, IsQueued, Queued
<1>4. QueueTo(m, q, n) /\ Fine(n)
  BY <1>2, <1>3, QueueEffect
<1> QED
  BY <1>2, <1>4 DEF n, IsQueued, Queued

LEMMA EnqueuedEffect ==
  ASSUME NEW m, Fine(m), NEW t \in Tasks, NEW p \in -1..1
  PROVE  LET n == Enqueued(m, t, p) IN
         Fine(n) /\ QueueTo(m, n.queue, n) /\ \A u : IsQueued(n, u) <=> IsQueued(m, u) \/ u = t
<1> DEFINE n == Enqueued(m, t, p)
           q == n.queue
<1>1. m \in Managers /\ Sorted(m.queue)
  BY DEF Fine, Good, Typed, Sorted
<1>2. /\ q \in Seq(Entries) /\ Sorted(q)
      /\ \A u : Queued(q, u) <=> Queued(m.queue, u) \/ u = t
      /\ n = WithQueue(m, q)
  BY <1>1, QueueWith
<1> HIDE DEF n
<1>3. \A r \in m.sent : Queued(q, r.task)
  BY <1>2 DEF Fine, Good, Counted, IsQueued, Queued
<1>4. QueueTo(m, q, n) /\ Fine(n)
  BY <1>2, <1>3, QueueEffect
<1> QED
  BY <1>2, <1>4 DEF n, IsQueued, Queued

LEMMA JoinedEffect ==
  ASSUME NEW m, Fine(m), NEW t \in Tasks, NEW p \in -1..1
  PROVE  Fine(Joined(m, t, p)) /\ ~CanSend(Joined(m, t, p))
BY EnqueuedEffect, CheckedEffect DEF Joined

LEMMA LeftEffect ==
  ASSUME NEW m, Fine(m), NEW t, OfTask(m, t) = {}
  PROVE  Fine(Left(m, t)) /\ ~CanSend(Left(m, t))
<1>1. \A r \in m.sent : r.task # t
  BY DEF OfTask
<1> QED
  BY <1>1, DequeuedEffect, CheckedEffect DEF Left

-----------------------------------------------------------------------------
(* cancelAllRequests *)

\* The step of cancelAllRequests.
CancelOneOf(k, t) ==
  IF OfTask(k, t) = {} THEN k ELSE Finished(k, CHOOSE r \in OfTask(k, t) : TRUE)

\* cancelAllRequests, as a run of parts cancelled.
CancelsFrom(m, t, n, g) ==
  /\ g[0] = m /\ Cancelled(m, t) = g[n]
  /\ \A k \in 1..n : g[k] = CancelOneOf(g[k - 1], t)

LEMMA CancelledLoop ==
  ASSUME NEW t, NEW S, NEW m \in S, \A k \in S : CancelOneOf(k, t) \in S,
         NEW n \in Nat, n = Cardinality(OfTask(m, t))
  PROVE  \E g \in [0..n -> S] : CancelsFrom(m, t, n, g)
<1> DEFINE CancelOne(k) == CancelOneOf(k, t)
           F == [k \in S |-> CancelOne(k)]
           At(g) == g = [k \in 0..n |-> IF k = 0 THEN m ELSE CancelOne(g[k - 1])]
           after == CHOOSE g : At(g)
<1>1. Cancelled(m, t) = after[n]
  BY DEF Cancelled, Repeated, CancelOneOf
<1>2. F \in [S -> S]
  OBVIOUS
<1>3. PICK g \in [0..n -> S] : LoopOf(F, m, n, g)
  <2> HIDE DEF F
  <2> QED
    BY <1>2, LoopExists
<1>4. At(g)
  <2> DEFINE h == [k \in 0..n |-> IF k = 0 THEN m ELSE CancelOne(g[k - 1])]
  <2>1. \A k \in 0..n : k # 0 => k \in 1..n /\ g[k - 1] \in S
    OBVIOUS
  <2>2. \A x \in S : F[x] = CancelOne(x)
    <3> HIDE DEF CancelOne
    <3> QED
      OBVIOUS
  <2>3. \A k \in 0..n : g[k] = IF k = 0 THEN m ELSE CancelOne(g[k - 1])
    <3> HIDE DEF CancelOne, F
    <3> QED
      BY <1>3, <2>1, <2>2 DEF LoopOf
  <2>4. \A k \in 0..n : g[k] = h[k]
    <3> HIDE DEF CancelOne
    <3> QED
      BY <2>3
  <2>5. h = [k \in 0..n |-> h[k]] /\ g = [k \in 0..n |-> g[k]]
    OBVIOUS
  <2>6. g = h
    <3> HIDE DEF h
    <3> QED
      BY <2>4, <2>5
  <2> QED
    BY <2>6
<1>5. At(after)
  <2> HIDE DEF At
  <2> QED
    BY <1>4
<1>6. /\ after = [k \in 0..n |-> after[k]] /\ after[0] = m
      /\ \A k \in 1..n : after[k] = CancelOne(after[k - 1])
  <2> HIDE DEF CancelOne, after
  <2> DEFINE h == [k \in 0..n |-> IF k = 0 THEN m ELSE CancelOne(after[k - 1])]
  <2>1. after = h
    BY <1>5
  <2>2. h = [k \in 0..n |-> h[k]]
    OBVIOUS
  <2>3. h[0] = m /\ \A k \in 1..n : h[k] = CancelOne(after[k - 1])
    OBVIOUS
  <2> HIDE DEF h
  <2> QED
    BY <2>1, <2>2, <2>3
<1>7. \A k \in 0..n : after[k] \in S
  <2>1. \A k \in S : CancelOne(k) \in S
    OBVIOUS
  <2> HIDE DEF CancelOne, after
  <2>2. after[0] \in S /\ \A k \in 1..n : after[k - 1] \in S => after[k] \in S
    BY <1>6, <2>1
  <2> QED
    BY <2>2, LoopStays
<1>8. after \in [0..n -> S]
  <2> HIDE DEF after
  <2> QED
    BY <1>6, <1>7
<1> HIDE DEF after
<1> QED
  BY <1>1, <1>6, <1>8 DEF CancelsFrom

LEMMA FinishedFine ==
  ASSUME NEW m, Fine(m), NEW r \in m.sent
  PROVE  Fine(Finished(m, r)) /\ FinishedTo(m, r, Finished(m, r))
BY FinishedEffect, FinishedFits, FinishedBounded DEF Fine

\* cancelAllRequests leaves nothing of the task in flight, and the rest as it was.
LEMMA CancelledEffect ==
  ASSUME NEW m, Fine(m), NEW t
  PROVE  LET n == Cancelled(m, t) IN
         /\ Fine(n) /\ OfTask(n, t) = {} /\ n.queue = m.queue /\ n.wanted = m.wanted
         /\ OfTask(m, t) = {} => n = m
<1> DEFINE S == {k \in Managers : Fine(k) /\ k.queue = m.queue /\ k.wanted = m.wanted}
           n == Cardinality(OfTask(m, t))
<1>0. \A k : Fine(k) => IsFiniteSet(OfTask(k, t)) /\ Cardinality(OfTask(k, t)) \in Nat
  BY FS_Subset, FS_CardinalityType DEF Fine, Good, Counted, OfTask
<1>1. m \in S /\ n \in Nat
  BY <1>0 DEF Fine, Good, Typed
<1>2. ASSUME NEW k \in S, OfTask(k, t) # {}
      PROVE  /\ CancelOneOf(k, t) \in S
             /\ Cardinality(OfTask(CancelOneOf(k, t), t)) = Cardinality(OfTask(k, t)) - 1
  <2> DEFINE r == CHOOSE r \in OfTask(k, t) : TRUE
             c == Finished(k, r)
  <2>1. CancelOneOf(k, t) = c
    BY <1>2 DEF CancelOneOf
  <2>2. r \in OfTask(k, t) /\ r \in k.sent
    BY <1>2 DEF OfTask
  <2> HIDE DEF r, c
  <2>3. Fine(c) /\ FinishedTo(k, r, c)
    BY <2>2, FinishedFine DEF c
  <2>4. c \in S
    BY <2>3 DEF FinishedTo, SameElsewhere, Fine, Good, Typed
  <2>5. OfTask(c, t) = OfTask(k, t) \ {r}
    BY <2>3 DEF FinishedTo, OfTask
  <2>6. Cardinality(OfTask(c, t)) = Cardinality(OfTask(k, t)) - 1
    BY <1>0, <2>2, <2>5, FS_RemoveElement
  <2> QED
    BY <2>1, <2>4, <2>6
<1>3. \A k \in S : CancelOneOf(k, t) \in S
  BY <1>2 DEF CancelOneOf
<1>4. PICK g \in [0..n -> S] : CancelsFrom(m, t, n, g)
  <2> HIDE DEF S, n
  <2> QED
    BY <1>1, <1>3, CancelledLoop DEF n
<1> DEFINE T == {k \in Nat : k =< n => Cardinality(OfTask(g[k], t)) =< n - k}
<1> HIDE DEF n
<1>5. 0 \in T
  BY <1>1, <1>4 DEF n, CancelsFrom
<1>6. ASSUME NEW k \in T PROVE k + 1 \in T
  <2>1. SUFFICES ASSUME k + 1 =< n PROVE Cardinality(OfTask(g[k + 1], t)) =< n - (k + 1)
    OBVIOUS
  <2>2. k \in Nat /\ k \in 0..n /\ k + 1 \in 1..n /\ (k + 1) - 1 = k /\ g[k] \in S
    BY <1>1, <2>1
  <2>3. g[k + 1] = CancelOneOf(g[k], t)
    BY <1>4, <2>2 DEF CancelsFrom
  <2>4. Cardinality(OfTask(g[k], t)) =< n - k /\ Cardinality(OfTask(g[k], t)) \in Nat
    BY <1>0, <2>2
  <2>5. CASE OfTask(g[k], t) # {}
    <3>1. Cardinality(OfTask(g[k + 1], t)) = Cardinality(OfTask(g[k], t)) - 1
      BY <1>2, <2>2, <2>3, <2>5
    <3> QED
      BY <1>1, <2>2, <2>4, <3>1
  <2>6. CASE OfTask(g[k], t) = {}
    <3>1. Cardinality(OfTask(g[k + 1], t)) = 0
      BY <2>3, <2>6, FS_EmptySet DEF CancelOneOf
    <3> QED
      BY <1>1, <2>1, <2>2, <3>1
  <2> QED
    BY <2>5, <2>6
<1>7. T = Nat
  <2>1. T \in SUBSET Nat
    OBVIOUS
  <2> HIDE DEF T
  <2> QED
    BY <1>5, <1>6, <2>1, Induction
<1>8. g[n] \in S
  BY <1>1
<1>9. OfTask(g[n], t) = {}
  <2>1. Cardinality(OfTask(g[n], t)) =< 0
    BY <1>1, <1>7
  <2>2. IsFiniteSet(OfTask(g[n], t)) /\ Cardinality(OfTask(g[n], t)) \in Nat
    BY <1>0, <1>8
  <2>3. Cardinality(OfTask(g[n], t)) = 0
    BY <2>1, <2>2
  <2> QED
    BY <2>2, <2>3, FS_EmptySet
<1>10. OfTask(m, t) = {} => g[n] = m
  BY <1>4, FS_EmptySet DEF n, CancelsFrom
<1>11. Cancelled(m, t) = g[n]
  BY <1>4 DEF CancelsFrom
<1> QED
  BY <1>8, <1>9, <1>10, <1>11

\* The loader is gone: what it wants and has in flight is gone before it leaves.
LEMMA StoppedEffect ==
  ASSUME NEW m, Fine(m), NEW t \in Tasks
  PROVE  LET c == Cancelled(WithWanted(m, t, {}), t) IN
         /\ Fine(c) /\ OfTask(c, t) = {} /\ c.queue = m.queue
         /\ Fine(Left(c, t)) /\ ~CanSend(Left(c, t))
<1> DEFINE w == WithWanted(m, t, {})
           c == Cancelled(w, t)
<1>1. {} \in SUBSET Offsets(t) /\ \A r \in m.sent : r.task = t => r.offset \notin {}
  OBVIOUS
<1>2. WantedTo(m, t, {}, w) /\ Good(w) /\ (Fits(m) => Fits(w)) /\ (Bounded(m) => Bounded(w))
  BY <1>1, WantedEffect DEF Fine
<1> HIDE DEF w
<1>3. Fine(w) /\ w.queue = m.queue
  BY <1>2 DEF Fine, WantedTo
<1>4. Fine(c) /\ OfTask(c, t) = {} /\ c.queue = m.queue
  BY <1>3, CancelledEffect
<1> HIDE DEF c
<1>5. Fine(Left(c, t)) /\ ~CanSend(Left(c, t))
  BY <1>4, LeftEffect
<1> QED
  BY <1>4, <1>5 DEF c, w

-----------------------------------------------------------------------------
(* Parts that are asked again *)

\* As much is in flight in each session, and waits to be.
SameLoad(m, n) ==
  /\ n.total = m.total /\ n.queue = m.queue /\ n.wanted = m.wanted
  /\ Len(n.sessions) = Len(m.sessions) /\ DOMAIN n.sessions = DOMAIN m.sessions
  /\ \A j \in DOMAIN m.sessions : /\ n.sessions[j].requested = m.sessions[j].requested
                                  /\ n.sessions[j].maxWaited = m.sessions[j].maxWaited

LEMMA SameLoadSends ==
  ASSUME NEW m, NEW n, Good(m), Good(n), SameLoad(m, n)
  PROVE  CanSend(n) <=> CanSend(m)
<1>1. HasRoom(n) <=> HasRoom(m)
  BY BestHasRoom DEF SameLoad
<1>2. Ready(n) = Ready(m)
  BY DEF SameLoad, Ready
<1> QED
  BY <1>1, <1>2 DEF CanSend

LEMMA AgainEffect ==
  ASSUME NEW m, Fine(m), NEW r \in m.sent
  PROVE  Fine(Again(m, r)) /\ SameLoad(m, Again(m, r))
<1> DEFINE f == Finished(m, r)
           t == r.task
           o == r.offset
           i == r.session
           n == Placed(f, t, o, i)
           p == NewPart(f, t, o, i)
<1>1. Good(f) /\ FinishedTo(m, r, f) /\ Good(m) /\ Fits(m) /\ Bounded(m)
  BY FinishedEffect DEF Fine
<1>2. i \in DOMAIN m.sessions /\ t \in Tasks /\ o \in Offsets(t) /\ IsQueued(m, t)
      /\ o \notin m.wanted[t] /\ m.sessions[i].requested > 0
  BY <1>1, InFlight DEF Good, Counted
<1> HIDE DEF f
<1>3. m.sessions \in Seq(SessionData) /\ m.sessions[i].requested \in Nat
  BY <1>1, <1>2, FieldsOfManager, SessionsOf DEF Good, Typed
<1>4. Placeable(f, t, o, i)
  <2>1. \A x \in f.sent : ~(x.task = t /\ x.offset = o)
    BY <1>1 DEF FinishedTo, Good, Counted
  <2>2. i \in DOMAIN f.sessions /\ IsQueued(f, t) /\ o \notin f.wanted[t]
    BY <1>1, <1>2 DEF FinishedTo, SessionsLike, SameElsewhere, IsQueued
  <2> QED
    BY <1>2, <2>1, <2>2 DEF Placeable
<1>5. Good(n) /\ PlacedAt(f, t, o, i, n)
  BY <1>1, <1>4, PlacedEffect
<1>6. p.task = t /\ p.offset = o /\ p.session = i /\ p.amount = m.sessions[i].requested
      /\ p \notin f.sent
  <2>1. p.task = t /\ p.offset = o /\ p.session = i /\ p.amount = f.sessions[i].requested + 1
    BY DEF NewPart
  <2>2. f.sessions[i].requested = m.sessions[i].requested - 1
    BY <1>1, <1>2 DEF FinishedTo, SessionsLike
  <2> HIDE DEF p
  <2> QED
    BY <1>3, <1>4, <2>1, <2>2 DEF Placeable
<1> HIDE DEF n, p
<1>7. n.sent = (m.sent \ {r}) \union {p}
  BY <1>1, <1>5 DEF FinishedTo, PlacedAt, p
<1>8. /\ Len(n.sessions) = Len(m.sessions) /\ DOMAIN n.sessions = DOMAIN m.sessions
      /\ \A j \in DOMAIN m.sessions : /\ n.sessions[j].requested = m.sessions[j].requested
                                      /\ n.sessions[j].maxWaited = m.sessions[j].maxWaited
                                      /\ n.sessions[j].successes = m.sessions[j].successes
  <2>1. \A j \in DOMAIN m.sessions : m.sessions[j].requested \in Nat
    BY <1>3, SessionsOf
  <2> QED
    BY <1>1, <1>2, <1>5, <2>1 DEF FinishedTo, PlacedAt, SessionsLike
<1>9. SameLoad(m, n)
  <2>1. m.total \in Nat /\ f.total = m.total - 1 /\ n.total = f.total + 1
    BY <1>1, <1>5, FieldsOfManager DEF Good, Typed, FinishedTo, PlacedAt
  <2> QED
    BY <1>1, <1>5, <1>8, <2>1 DEF SameLoad, FinishedTo, PlacedAt, SameElsewhere
<1>10. Fits(n)
  <2> SUFFICES ASSUME NEW j \in DOMAIN n.sessions,
                      n.sessions[j].successes > 0
                        \/ \E x \in n.sent : x.session = j /\ ~Overloaded(n, x)
               PROVE  n.sessions[j].requested =< n.sessions[j].maxWaited
    BY DEF Fits
  <2>1. j \in DOMAIN m.sessions
    BY <1>8
  <2>2. CASE n.sessions[j].successes > 0
    BY <1>1, <1>8, <2>1, <2>2 DEF Fits
  <2>3. ASSUME NEW x \in n.sent, x.session = j, ~Overloaded(n, x)
        PROVE  n.sessions[j].requested =< n.sessions[j].maxWaited
    <3>1. CASE x = p
      <4>1. j = i /\ ~(p.amount > n.sessions[i].maxWaited)
        BY <1>6, <2>3, <3>1 DEF Overloaded
      <4>2. n.sessions[i].maxWaited \in Nat
        <5>1. m.sessions[i].maxWaited \in 1..MaxWaited
          BY <1>2, <1>3, SessionsOf
        <5> QED
          BY <1>2, <1>8, <5>1
      <4> QED
        BY <1>3, <1>6, <1>8, <2>1, <4>1, <4>2
    <3>2. CASE x # p
      <4>1. x \in m.sent /\ ~Overloaded(m, x)
        BY <1>7, <1>8, <2>1, <2>3, <3>2 DEF Overloaded
      <4> QED
        BY <1>1, <1>8, <2>1, <2>3, <4>1 DEF Fits
    <3> QED
      BY <3>1, <3>2
  <2> QED
    BY <2>2, <2>3
<1>11. Bounded(n)
  <2> SUFFICES ASSUME NEW J \in SUBSET DOMAIN m.sessions
               PROVE  Cardinality(PartsOf(n, J)) = Cardinality(PartsOf(m, J))
    BY <1>1, <1>8 DEF Bounded
  <2>1. IsFiniteSet(PartsOf(m, J)) /\ Cardinality(PartsOf(m, J)) \in Nat
    BY <1>1, PlacesAre
  <2>2. CASE i \notin J
    <3>1. PartsOf(n, J) = PartsOf(m, J)
      BY <1>6, <1>7, <2>2 DEF PartsOf
    <3> QED
      BY <3>1
  <2>3. CASE i \in J
    <3> DEFINE R == PartsOf(m, J) \ {r}
    <3>1. r \in PartsOf(m, J) /\ p \notin R /\ PartsOf(n, J) = R \union {p}
      BY <1>1, <1>6, <1>7, <2>3 DEF PartsOf, FinishedTo
    <3>2. IsFiniteSet(R) /\ Cardinality(R) = Cardinality(PartsOf(m, J)) - 1
      BY <2>1, <3>1, FS_RemoveElement
    <3> HIDE DEF R
    <3>3. Cardinality(R \union {p}) = Cardinality(R) + 1
      BY <3>1, <3>2, FS_AddElement
    <3> QED
      BY <2>1, <3>1, <3>2, <3>3
  <2> QED
    BY <2>2, <2>3
<1> QED
  BY <1>5, <1>9, <1>10, <1>11 DEF Fine, Again, n, f

\* The step of SentAgain.
SendOneOf(k, t) ==
  IF Waiting(k, t) = {} THEN k ELSE Again(k, CHOOSE r \in Waiting(k, t) : TRUE)

\* What waited for a file reference is sent again, one part after another.
ResendsFrom(m, t, n, g) ==
  /\ g[0] = m /\ SentAgain(m, t) = g[n]
  /\ \A k \in 1..n : g[k] = SendOneOf(g[k - 1], t)

LEMMA SentAgainLoop ==
  ASSUME NEW t, NEW S, NEW m \in S, \A k \in S : SendOneOf(k, t) \in S,
         NEW n \in Nat, n = Cardinality(Waiting(m, t))
  PROVE  \E g \in [0..n -> S] : ResendsFrom(m, t, n, g)
<1> DEFINE SendOne(k) == SendOneOf(k, t)
           F == [k \in S |-> SendOne(k)]
           At(g) == g = [k \in 0..n |-> IF k = 0 THEN m ELSE SendOne(g[k - 1])]
           after == CHOOSE g : At(g)
<1>1. SentAgain(m, t) = after[n]
  BY DEF SentAgain, Repeated, SendOneOf
<1>2. F \in [S -> S]
  OBVIOUS
<1>3. PICK g \in [0..n -> S] : LoopOf(F, m, n, g)
  <2> HIDE DEF F
  <2> QED
    BY <1>2, LoopExists
<1>4. At(g)
  <2> DEFINE h == [k \in 0..n |-> IF k = 0 THEN m ELSE SendOne(g[k - 1])]
  <2>1. \A k \in 0..n : k # 0 => k \in 1..n /\ g[k - 1] \in S
    OBVIOUS
  <2>2. \A x \in S : F[x] = SendOne(x)
    <3> HIDE DEF SendOne
    <3> QED
      OBVIOUS
  <2>3. \A k \in 0..n : g[k] = IF k = 0 THEN m ELSE SendOne(g[k - 1])
    <3> HIDE DEF SendOne, F
    <3> QED
      BY <1>3, <2>1, <2>2 DEF LoopOf
  <2>4. \A k \in 0..n : g[k] = h[k]
    <3> HIDE DEF SendOne
    <3> QED
      BY <2>3
  <2>5. h = [k \in 0..n |-> h[k]] /\ g = [k \in 0..n |-> g[k]]
    OBVIOUS
  <2>6. g = h
    <3> HIDE DEF h
    <3> QED
      BY <2>4, <2>5
  <2> QED
    BY <2>6
<1>5. At(after)
  <2> HIDE DEF At
  <2> QED
    BY <1>4
<1>6. /\ after = [k \in 0..n |-> after[k]] /\ after[0] = m
      /\ \A k \in 1..n : after[k] = SendOne(after[k - 1])
  <2> HIDE DEF SendOne, after
  <2> DEFINE h == [k \in 0..n |-> IF k = 0 THEN m ELSE SendOne(after[k - 1])]
  <2>1. after = h
    BY <1>5
  <2>2. h = [k \in 0..n |-> h[k]]
    OBVIOUS
  <2>3. h[0] = m /\ \A k \in 1..n : h[k] = SendOne(after[k - 1])
    OBVIOUS
  <2> HIDE DEF h
  <2> QED
    BY <2>1, <2>2, <2>3
<1>7. \A k \in 0..n : after[k] \in S
  <2>1. \A k \in S : SendOne(k) \in S
    OBVIOUS
  <2> HIDE DEF SendOne, after
  <2>2. after[0] \in S /\ \A k \in 1..n : after[k - 1] \in S => after[k] \in S
    BY <1>6, <2>1
  <2> QED
    BY <2>2, LoopStays
<1>8. after \in [0..n -> S]
  <2> HIDE DEF after
  <2> QED
    BY <1>6, <1>7
<1> HIDE DEF after
<1> QED
  BY <1>1, <1>6, <1>8 DEF ResendsFrom

\* Whatever waited, as much is in flight afterwards as before.
LEMMA SentAgainEffect ==
  ASSUME NEW m, Fine(m), NEW t
  PROVE  Fine(SentAgain(m, t)) /\ SameLoad(m, SentAgain(m, t))
<1> DEFINE S == {k \in Managers : Fine(k) /\ SameLoad(m, k)}
           n == Cardinality(Waiting(m, t))
<1>1. m \in S /\ n \in Nat
  BY FS_Subset, FS_CardinalityType DEF Fine, Good, Counted, Typed, OfTask, Waiting, SameLoad
<1>2. ASSUME NEW k \in S PROVE SendOneOf(k, t) \in S
  <2> DEFINE r == CHOOSE r \in Waiting(k, t) : TRUE
  <2>1. CASE Waiting(k, t) = {}
    BY <2>1 DEF SendOneOf
  <2>2. CASE Waiting(k, t) # {}
    <3>1. SendOneOf(k, t) = Again(k, r) /\ r \in k.sent
      BY <2>2 DEF SendOneOf, Waiting, OfTask
    <3> HIDE DEF r
    <3>2. Fine(Again(k, r)) /\ SameLoad(k, Again(k, r))
      BY <3>1, AgainEffect
    <3>3. SameLoad(m, Again(k, r))
      BY <3>2 DEF SameLoad
    <3> QED
      BY <3>1, <3>2, <3>3 DEF Fine, Good, Typed
  <2> QED
    BY <2>1, <2>2
<1>3. PICK g \in [0..n -> S] : ResendsFrom(m, t, n, g)
  <2> HIDE DEF S, n
  <2> QED
    BY <1>1, <1>2, SentAgainLoop DEF n
<1> HIDE DEF n
<1>4. g[n] \in S
  BY <1>1
<1> QED
  BY <1>3, <1>4 DEF ResendsFrom

-----------------------------------------------------------------------------
(* Sessions whose limits change *)

\* The same manager with other sessions.
WithSessions(m, s) == [m EXCEPT !.sessions = s]

\* The same manager but for the sessions.
SessionsTo(m, s, n) ==
  /\ n \in Managers /\ n.sessions = s
  /\ n.wanted = m.wanted /\ n.sent = m.sent /\ n.total = m.total /\ n.queue = m.queue
  /\ n.killing = m.killing /\ n.running = m.running /\ n.timeouts = m.timeouts
  /\ n.removeIndex = m.removeIndex /\ n.removeTimes = m.removeTimes
  /\ n.removed = m.removed /\ n.late = m.late

\* Sessions that carry as much as before, and new ones that carry nothing.
Carry(m, s) ==
  /\ s \in Seq(SessionData) /\ Len(s) \in 1..MaxSessions /\ Len(m.sessions) =< Len(s)
  /\ \A j \in DOMAIN s :
       s[j].requested = IF j \in DOMAIN m.sessions THEN m.sessions[j].requested ELSE 0

LEMMA SessionsEffect ==
  ASSUME NEW m, Good(m), NEW s, Carry(m, s)
  PROVE  /\ Good(WithSessions(m, s)) /\ SessionsTo(m, s, WithSessions(m, s))
         /\ DOMAIN m.sessions \subseteq DOMAIN s
         /\ Len(s) = Len(m.sessions) => DOMAIN s = DOMAIN m.sessions
         /\ Len(s) = Len(m.sessions) /\ Bounded(m) => Bounded(WithSessions(m, s))
<1> DEFINE n == WithSessions(m, s)
<1>0. m \in Managers /\ s \in Seq(SessionData)
  BY DEF Good, Typed, Carry
<1>1. SessionsTo(m, s, n)
  BY <1>0 DEF WithSessions, SessionsTo, Managers
<1> HIDE DEF n
<1>2. DOMAIN m.sessions \subseteq DOMAIN s /\ (Len(s) = Len(m.sessions) => DOMAIN s = DOMAIN m.sessions)
  <2>1. m.sessions \in Seq(SessionData)
    BY <1>0, FieldsOfManager
  <2>2. DOMAIN s = 1..Len(s) /\ DOMAIN m.sessions = 1..Len(m.sessions)
        /\ Len(s) \in Nat /\ Len(m.sessions) \in Nat
    BY <1>0, <2>1
  <2> QED
    BY <2>2 DEF Carry
<1>3. Typed(n)
  BY <1>1 DEF SessionsTo, Typed, Good, Carry
<1>4. Counted(n)
  <2>1. ASSUME NEW j \in DOMAIN s PROVE s[j].requested = Cardinality(PartsOf(n, {j}))
    <3>0. PartsOf(n, {j}) = PartsOf(m, {j})
      BY <1>1 DEF SessionsTo, PartsOf
    <3>1. CASE j \in DOMAIN m.sessions
      BY <3>0, <3>1 DEF Carry, Good, Counted
    <3>2. CASE j \notin DOMAIN m.sessions
      <4>1. PartsOf(m, {j}) = {}
        BY <3>2 DEF PartsOf, Good, Counted
      <4> QED
        BY <3>0, <3>2, <4>1, FS_EmptySet DEF Carry
    <3> QED
      BY <3>1, <3>2
  <2>2. \A r \in n.sent : r.session \in DOMAIN n.sessions
    BY <1>1, <1>2 DEF SessionsTo, Good, Counted
  <2> QED
    BY <1>1, <2>1, <2>2 DEF SessionsTo, Good, Counted, IsQueued
<1>5. Idle(n)
  BY <1>1 DEF SessionsTo, Idle, Good
<1>6. Len(s) = Len(m.sessions) /\ Bounded(m) => Bounded(n)
  BY <1>1, <1>2 DEF SessionsTo, Bounded, PartsOf
<1> QED
  BY <1>1, <1>2, <1>3, <1>4, <1>5, <1>6 DEF n, Good

\* The sessions with parts in flight that would count have room for what is in flight.
FitsAsked(m) ==
  \A i \in DOMAIN m.sessions :
    (\E r \in m.sent : r.session = i /\ ~Overloaded(m, r))
      => m.sessions[i].requested =< m.sessions[i].maxWaited

LEMMA NoSuccessesEffect ==
  ASSUME NEW m, Good(m), Bounded(m), FitsAsked(m)
  PROVE  Fine(NoSuccesses(m)) /\ SameLoad(m, NoSuccesses(m))
<1> DEFINE s == [i \in DOMAIN m.sessions |-> [m.sessions[i] EXCEPT !.successes = 0]]
           n == WithSessions(m, s)
<1>1. NoSuccesses(m) = n
  BY DEF NoSuccesses, WithSessions
<1>2. m.sessions \in Seq(SessionData) /\ Len(m.sessions) \in 1..MaxSessions
      /\ DOMAIN m.sessions = 1..Len(m.sessions) /\ Len(m.sessions) \in Nat
  BY FieldsOfManager, SessionsOf DEF Good, Typed
<1>3. \A x \in SessionData : /\ [x EXCEPT !.successes = 0] \in SessionData
                             /\ [x EXCEPT !.successes = 0].requested = x.requested
                             /\ [x EXCEPT !.successes = 0].maxWaited = x.maxWaited
                             /\ [x EXCEPT !.successes = 0].successes = 0
  BY Sizes DEF SessionData
<1>4. \A i \in DOMAIN m.sessions : /\ s[i] \in SessionData
                                   /\ s[i].requested = m.sessions[i].requested
                                   /\ s[i].maxWaited = m.sessions[i].maxWaited
                                   /\ s[i].successes = 0
  BY <1>2, <1>3, SessionsOf
<1>5. s \in Seq(SessionData) /\ Len(s) = Len(m.sessions) /\ DOMAIN s = DOMAIN m.sessions
  <2>1. s \in [1..Len(m.sessions) -> SessionData]
    BY <1>2, <1>4
  <2> HIDE DEF s
  <2>2. s \in Seq(SessionData)
    BY <1>2, <2>1, SeqDef
  <2> QED
    BY <1>2, <2>1, <2>2
<1> HIDE DEF s
<1>6. Carry(m, s)
  BY <1>2, <1>4, <1>5 DEF Carry
<1>7. Good(n) /\ SessionsTo(m, s, n) /\ Bounded(n)
  BY <1>5, <1>6, SessionsEffect
<1> HIDE DEF n
<1>8. Fits(n)
  <2> SUFFICES ASSUME NEW j \in DOMAIN n.sessions,
                      n.sessions[j].successes > 0
                        \/ \E x \in n.sent : x.session = j /\ ~Overloaded(n, x)
               PROVE  n.sessions[j].requested =< n.sessions[j].maxWaited
    BY DEF Fits
  <2>1. j \in DOMAIN m.sessions /\ n.sessions[j].successes = 0
    BY <1>4, <1>5, <1>7 DEF SessionsTo
  <2>2. PICK x \in n.sent : x.session = j /\ ~Overloaded(n, x)
    BY <2>1
  <2>3. x \in m.sent /\ ~Overloaded(m, x)
    BY <1>4, <1>7, <2>1, <2>2 DEF SessionsTo, Overloaded
  <2> QED
    BY <1>4, <1>7, <2>1, <2>2, <2>3 DEF FitsAsked, SessionsTo
<1>9. SameLoad(m, n)
  BY <1>4, <1>5, <1>7 DEF SessionsTo, SameLoad
<1> QED
  BY <1>1, <1>7, <1>8, <1>9 DEF Fine

LEMMA FitsIsAsked == ASSUME NEW m, Fits(m) PROVE FitsAsked(m)
BY DEF Fits, FitsAsked

\* What neither the parts, nor the queue nor the sessions know of.
OtherTo(m, n) ==
  /\ n \in Managers /\ n.sessions = m.sessions
  /\ n.wanted = m.wanted /\ n.sent = m.sent /\ n.total = m.total /\ n.queue = m.queue
  /\ n.killing = m.killing /\ n.running = m.running

LEMMA OtherEffect ==
  ASSUME NEW m, Fine(m), NEW n, OtherTo(m, n)
  PROVE  Fine(n) /\ SameLoad(m, n)
<1>1. Typed(n)
  BY DEF OtherTo, Fine, Good, Typed
<1>2. Counted(n)
  BY DEF OtherTo, Fine, Good, Counted, PartsOf, IsQueued
<1>3. Idle(n)
  BY DEF OtherTo, Fine, Good, Idle
<1>4. Fits(n) /\ Bounded(n)
  BY DEF OtherTo, Fine, Fits, Bounded, PartsOf, Overloaded
<1> QED
  BY <1>1, <1>2, <1>3, <1>4 DEF OtherTo, Fine, Good, SameLoad

LEMMA TimeoutsEffect ==
  ASSUME NEW m, Fine(m), NEW x \in 0..RemoveAfter - 1
  PROVE  /\ Fine([m EXCEPT !.timeouts = x]) /\ SameLoad(m, [m EXCEPT !.timeouts = x])
         /\ [m EXCEPT !.timeouts = x].sessions = m.sessions
         /\ [m EXCEPT !.timeouts = x].removeTimes = m.removeTimes
<1> DEFINE n == [m EXCEPT !.timeouts = x]
<1>1. m \in Managers
  BY DEF Fine, Good, Typed
<1>2. OtherTo(m, n) /\ n.removeTimes = m.removeTimes
  BY <1>1 DEF OtherTo, Managers
<1> HIDE DEF n
<1>3. Fine(n) /\ SameLoad(m, n)
  BY <1>2, OtherEffect
<1> QED
  BY <1>2, <1>3 DEF n, OtherTo

LEMMA LateEffect ==
  ASSUME NEW m, Fine(m), NEW x \in Seq(Nat)
  PROVE  Fine([m EXCEPT !.late = x]) /\ SameLoad(m, [m EXCEPT !.late = x])
<1> DEFINE n == [m EXCEPT !.late = x]
<1>1. m \in Managers
  BY DEF Fine, Good, Typed
<1>2. OtherTo(m, n)
  BY <1>1 DEF OtherTo, Managers
<1> HIDE DEF n
<1> QED
  BY <1>2, OtherEffect DEF n

\* The sessions where one waits for so much and had so many successes.
Grown(s, i, w, c) == [s EXCEPT ![i].maxWaited = w, ![i].successes = c]

LEMMA GrownEffect ==
  ASSUME NEW m, Fine(m), NEW i \in DOMAIN m.sessions, NEW w \in 1..MaxWaited,
         NEW c \in 0..MaxSuccesses, m.sessions[i].maxWaited =< w,
         m.sessions[i].requested =< m.sessions[i].maxWaited
  PROVE  Fine(WithSessions(m, Grown(m.sessions, i, w, c)))
<1> DEFINE s == Grown(m.sessions, i, w, c)
           n == WithSessions(m, s)
<1>1. m.sessions \in Seq(SessionData) /\ Len(m.sessions) \in 1..MaxSessions /\ Good(m)
      /\ m.sessions[i] \in SessionData
  BY FieldsOfManager, SessionsOf DEF Fine, Good, Typed
<1> DEFINE e == [m.sessions[i] EXCEPT !.maxWaited = w, !.successes = c]
<1>2. e \in SessionData /\ e.requested = m.sessions[i].requested /\ e.maxWaited = w
  BY <1>1 DEF SessionData
<1>3. s = [m.sessions EXCEPT ![i] = e]
  BY <1>1 DEF Grown
<1> HIDE DEF s, e
<1>4. i \in 1..Len(m.sessions) /\ DOMAIN m.sessions = 1..Len(m.sessions)
  BY <1>1
<1>5. /\ s \in Seq(SessionData) /\ Len(s) = Len(m.sessions) /\ DOMAIN s = DOMAIN m.sessions
      /\ \A j \in DOMAIN m.sessions : s[j] = IF j = i THEN e ELSE m.sessions[j]
  BY <1>1, <1>2, <1>3, <1>4, ExceptSeq
<1>6. Carry(m, s)
  <2>1. Len(m.sessions) =< Len(s) /\ Len(s) \in 1..MaxSessions
    BY <1>1, <1>5
  <2>2. \A j \in DOMAIN s : j \in DOMAIN m.sessions /\ s[j].requested = m.sessions[j].requested
    BY <1>2, <1>5
  <2> QED
    BY <1>5, <2>1, <2>2 DEF Carry
<1>7. Good(n) /\ SessionsTo(m, s, n) /\ Bounded(n)
  BY <1>1, <1>5, <1>6, SessionsEffect DEF Fine
<1> HIDE DEF n
<1>8. Fits(n)
  <2> SUFFICES ASSUME NEW j \in DOMAIN n.sessions,
                      n.sessions[j].successes > 0
                        \/ \E x \in n.sent : x.session = j /\ ~Overloaded(n, x)
               PROVE  n.sessions[j].requested =< n.sessions[j].maxWaited
    BY DEF Fits
  <2>1. CASE j = i
    <3>1. m.sessions[i].requested \in Nat /\ m.sessions[i].maxWaited \in Nat /\ w \in Nat
      BY <1>1, SessionsOf, Sizes
    <3> QED
      BY <1>2, <1>5, <1>7, <2>1, <3>1 DEF SessionsTo
  <2>2. CASE j # i
    <3>1. j \in DOMAIN m.sessions /\ n.sessions[j] = m.sessions[j] /\ n.sent = m.sent
      BY <1>5, <1>7, <2>2 DEF SessionsTo
    <3>2. \A x \in n.sent : x.session = j /\ ~Overloaded(n, x) => ~Overloaded(m, x)
      BY <3>1 DEF Overloaded
    <3>3. n.sessions[j].successes > 0 \/ \E x \in m.sent : x.session = j /\ ~Overloaded(m, x)
      BY <3>1, <3>2
    <3> QED
      BY <3>1, <3>3 DEF Fine, Fits
  <2> QED
    BY <2>1, <2>2
<1> QED
  BY <1>7, <1>8 DEF Fine, n, s

\* When every session has room for what is in flight, so have several of them.
LEMMA RoomOfAll ==
  ASSUME NEW m, Good(m), \A j \in DOMAIN m.sessions : m.sessions[j].requested =< MaxWaited
  PROVE  \A J \in SUBSET DOMAIN m.sessions :
           Cardinality(PartsOf(m, J)) =< MaxWaited * Cardinality(J)
<1> DEFINE T == {k \in Nat : \A J \in SUBSET DOMAIN m.sessions :
                   Cardinality(J) = k => Cardinality(PartsOf(m, J)) =< MaxWaited * k}
<1>1. 0 \in T
  <2> SUFFICES ASSUME NEW J \in SUBSET DOMAIN m.sessions, Cardinality(J) = 0
               PROVE  Cardinality(PartsOf(m, J)) =< MaxWaited * 0
    OBVIOUS
  <2>1. J = {}
    BY PlacesAre, FS_EmptySet
  <2>2. PartsOf(m, J) = {}
    BY <2>1 DEF PartsOf
  <2>3. Cardinality(PartsOf(m, J)) = 0
    BY <2>2, FS_EmptySet
  <2> QED
    BY <2>3, Sizes
<1>2. ASSUME NEW k \in T PROVE k + 1 \in T
  <2> SUFFICES ASSUME NEW J \in SUBSET DOMAIN m.sessions, Cardinality(J) = k + 1
               PROVE  Cardinality(PartsOf(m, J)) =< MaxWaited * (k + 1)
    OBVIOUS
  <2>1. k \in Nat /\ IsFiniteSet(J)
    BY PlacesAre
  <2>2. J # {}
    <3> SUFFICES ASSUME J = {} PROVE FALSE
      OBVIOUS
    <3>1. Cardinality(J) = 0
      BY FS_EmptySet
    <3> QED
      BY <2>1, <3>1
  <2>3. PICK i \in J : TRUE
    BY <2>2
  <2> DEFINE K == J \ {i}
             P == PartsOf(m, K)
             Q == PartsOf(m, {i})
  <2>4. K \in SUBSET DOMAIN m.sessions /\ Cardinality(K) = k
    <3>1. Cardinality(K) = Cardinality(J) - 1
      BY <2>1, <2>3, FS_RemoveElement
    <3> QED
      BY <2>1, <3>1
  <2>5. Cardinality(P) =< MaxWaited * k
    BY <2>4
  <2>6. Cardinality(Q) =< MaxWaited
    BY DEF Good, Counted
  <2>7. PartsOf(m, J) = P \union Q
    BY DEF PartsOf
  <2>8. IsFiniteSet(P) /\ IsFiniteSet(Q) /\ Cardinality(P) \in Nat /\ Cardinality(Q) \in Nat
    BY PlacesAre
  <2>9. IsFiniteSet(PartsOf(m, J)) /\ Cardinality(PartsOf(m, J)) \in Nat
    BY PlacesAre
  <2> HIDE DEF P, Q, K
  <2>10. IsFiniteSet(P \cap Q) /\ Cardinality(P \cap Q) \in Nat
    BY <2>8, FS_Intersection, FS_CardinalityType
  <2>11. Cardinality(P \union Q) = Cardinality(P) + Cardinality(Q) - Cardinality(P \cap Q)
    BY <2>8, FS_Union
  <2>12. MaxWaited * (k + 1) = MaxWaited * k + MaxWaited /\ MaxWaited * k \in Nat
    <3>1. MaxWaited * (k + 1 - 1) + MaxWaited = MaxWaited * (k + 1) /\ k + 1 - 1 = k
      BY <2>1, RoomIsAdded
    <3> QED
      BY <2>1, <3>1, Sizes
  <2> DEFINE x == MaxWaited * k
             y == MaxWaited * (k + 1)
  <2> HIDE DEF x, y
  <2>13. Cardinality(PartsOf(m, J)) =< y
    <3>1. Cardinality(P) =< x /\ y = x + MaxWaited /\ x \in Nat
      BY <2>5, <2>12 DEF x, y
    <3> QED
      BY <2>6, <2>7, <2>8, <2>10, <2>11, <3>1, Sizes
  <2> QED
    BY <2>13 DEF y
<1>3. T = Nat
  <2>1. T \in SUBSET Nat
    OBVIOUS
  <2> HIDE DEF T
  <2> QED
    BY <1>1, <1>2, <2>1, Induction
<1> QED
  BY <1>3, PlacesAre

LEMMA RoomGrows == \A x, y \in Int : x =< y => MaxWaited * x =< MaxWaited * y
<1>1. \A w \in Nat : \A x, y \in Int : x =< y => w * x =< w * y
  OBVIOUS
<1> QED
  BY <1>1, Sizes

\* A session is added only when each has room for what is in flight.
LEMMA AddedEffect ==
  ASSUME NEW m, Fine(m), NEW delayed \in BOOLEAN,
         \A j \in DOMAIN m.sessions : m.sessions[j].requested =< m.sessions[j].maxWaited
  PROVE  Fine(Added(m, delayed))
<1>0. /\ m.sessions \in Seq(SessionData) /\ Len(m.sessions) \in 1..MaxSessions /\ Good(m)
      /\ m.timeouts \in 0..RemoveAfter - 1
  BY FieldsOfManager DEF Fine, Good, Typed
<1>1. CASE m.timeouts > 0
  <2>1. Added(m, delayed) = [m EXCEPT !.timeouts = m.timeouts - 1]
    BY <1>1 DEF Added, Fine, Good, Typed, Managers
  <2>2. m.timeouts - 1 \in 0..RemoveAfter - 1
    BY <1>0, <1>1, Sizes
  <2> QED
    BY <2>1, <2>2, TimeoutsEffect
<1>2. CASE ~(m.timeouts > 0) /\ (Len(m.sessions) = MaxSessions \/ (m.removed /\ ~delayed))
  BY <1>2 DEF Added
<1>3. CASE ~(m.timeouts > 0) /\ ~(Len(m.sessions) = MaxSessions \/ (m.removed /\ ~delayed))
  <2> DEFINE s == Append(m.sessions, FreshSession)
             n == WithSessions(m, s)
             k == Len(m.sessions)
  <2>1. Added(m, delayed) = n
    <3>1. Added(m, delayed) = [m EXCEPT !.sessions = Append(@, FreshSession)]
      BY <1>3 DEF Added
    <3> QED
      BY <3>1 DEF WithSessions
  <2>2. k \in Nat /\ DOMAIN m.sessions = 1..k /\ k + 1 =< MaxSessions /\ MaxSessions \in Nat
    BY <1>0, <1>3, Sizes
  <2>3. FreshSession \in SessionData /\ FreshSession.requested = 0
        /\ FreshSession.maxWaited = StartWaited
    BY Sizes DEF FreshSession, SessionData
  <2>4. /\ s \in Seq(SessionData) /\ Len(s) = k + 1 /\ DOMAIN s = 1..k + 1
        /\ \A j \in 1..k + 1 : s[j] = IF j = k + 1 THEN FreshSession ELSE m.sessions[j]
    BY <1>0, <2>2, <2>3
  <2> HIDE DEF s, n, k
  <2>5. Carry(m, s)
    <3>1. Len(s) \in 1..MaxSessions /\ Len(m.sessions) =< Len(s)
      BY <2>2, <2>4 DEF k
    <3>2. \A j \in DOMAIN s :
            s[j].requested = IF j \in DOMAIN m.sessions THEN m.sessions[j].requested ELSE 0
      BY <2>2, <2>3, <2>4
    <3> QED
      BY <2>4, <3>1, <3>2 DEF Carry
  <2>6. Good(n) /\ SessionsTo(m, s, n)
    BY <1>0, <2>5, SessionsEffect DEF n
  <2>7. Fits(n)
    <3> SUFFICES ASSUME NEW j \in DOMAIN n.sessions
                 PROVE  n.sessions[j].requested =< n.sessions[j].maxWaited
      BY DEF Fits
    <3>1. CASE j = k + 1
      BY <2>2, <2>3, <2>4, <2>6, <3>1, Sizes DEF SessionsTo
    <3>2. CASE j # k + 1
      BY <2>2, <2>4, <2>6, <3>2 DEF SessionsTo
    <3> QED
      BY <3>1, <3>2
  <2>8. Bounded(n)
    <3> SUFFICES ASSUME NEW J \in SUBSET DOMAIN s
                 PROVE  Cardinality(PartsOf(n, J))
                          =< MaxWaited * (MaxSessions - Len(s) + Cardinality(J))
      BY <2>6 DEF Bounded, SessionsTo
    <3> DEFINE K == J \cap DOMAIN m.sessions
    <3>1. PartsOf(n, J) = PartsOf(m, K)
      BY <1>0, <2>6 DEF PartsOf, SessionsTo, Good, Counted
    <3>2. \A j \in DOMAIN m.sessions : m.sessions[j].requested =< MaxWaited
      <4>1. \A j \in DOMAIN m.sessions :
              m.sessions[j].maxWaited \in 1..MaxWaited /\ m.sessions[j].requested \in Nat
        BY <1>0, SessionsOf
      <4> QED
        BY <4>1, Sizes
    <3>3. K \in SUBSET DOMAIN m.sessions
      OBVIOUS
    <3>4. Cardinality(PartsOf(n, J)) =< MaxWaited * Cardinality(K)
      <4> HIDE DEF K
      <4> QED
        BY <1>0, <3>1, <3>2, <3>3, RoomOfAll
    <3>5. IsFiniteSet(J) /\ Cardinality(J) \in Nat
      <4>1. J \in SUBSET DOMAIN n.sessions
        BY <2>6 DEF SessionsTo
      <4> QED
        BY <2>6, <4>1, PlacesAre
    <3>6. Cardinality(K) =< Cardinality(J) /\ Cardinality(K) \in Nat
      BY <3>5, FS_Subset, FS_CardinalityType
    <3>7. Cardinality(PartsOf(n, J)) \in Nat
      BY <2>6, PlacesAre
    <3> DEFINE y == MaxSessions - Len(s) + Cardinality(J)
    <3>8. y \in Int /\ Cardinality(K) =< y
      <4> HIDE DEF K
      <4> QED
        BY <2>2, <2>4, <3>5, <3>6
    <3> DEFINE a == MaxWaited * Cardinality(K)
               b == MaxWaited * y
    <3>9. a =< b
      <4> HIDE DEF K, y
      <4> QED
        BY <3>6, <3>8, RoomGrows
    <3>10. a \in Int /\ b \in Int
      <4> HIDE DEF K, y
      <4> QED
        BY <3>6, <3>8, Sizes
    <3>11. Cardinality(PartsOf(n, J)) =< a
      BY <3>4
    <3> HIDE DEF a, b
    <3>12. Cardinality(PartsOf(n, J)) =< b
      BY <3>7, <3>9, <3>10, <3>11
    <3> QED
      BY <3>12 DEF b
  <2> QED
    BY <2>1, <2>6, <2>7, <2>8 DEF Fine
<1> QED
  BY <1>1, <1>2, <1>3

\* requestSucceeded, when the session of the part has room again.
LEMMA SucceededEffect ==
  ASSUME NEW m, Fine(m), NEW r, r.session \in DOMAIN m.sessions, r.amount \in Nat,
         NEW delayed \in BOOLEAN,
         m.sessions[r.session].requested =< m.sessions[r.session].maxWaited
  PROVE  Fine(Succeeded(m, r, delayed))
<1> DEFINE i == r.session
           S == m.sessions
           w == IF r.amount = S[i].maxWaited /\ r.amount < MaxWaited THEN S[i].maxWaited + 1
                ELSE S[i].maxWaited
           c == IF S[i].successes < MaxSuccesses THEN S[i].successes + 1 ELSE S[i].successes
           n == WithSessions(m, Grown(S, i, w, c))
           enough == \A j \in DOMAIN n.sessions :
                       n.sessions[j].successes >= (n.removeTimes + 1) * RetrySuccesses
<1>1. /\ m.sessions \in Seq(SessionData) /\ S[i].maxWaited \in 1..MaxWaited
      /\ S[i].successes \in 0..MaxSuccesses /\ S[i].requested \in Nat
  <2>1. m.sessions \in Seq(SessionData)
    BY FieldsOfManager DEF Fine, Good, Typed
  <2> QED
    BY <2>1, SessionsOf
<1>2. w \in 1..MaxWaited /\ S[i].maxWaited =< w /\ c \in 0..MaxSuccesses
  <2> DEFINE a == S[i].maxWaited
             b == S[i].successes
  <2>1. a \in 1..MaxWaited /\ b \in 0..MaxSuccesses
    BY <1>1
  <2>2. w = IF r.amount = a /\ r.amount < MaxWaited THEN a + 1 ELSE a
    OBVIOUS
  <2>3. c = IF b < MaxSuccesses THEN b + 1 ELSE b
    OBVIOUS
  <2> HIDE DEF a, b, w, c
  <2>4. w \in 1..MaxWaited /\ a =< w /\ c \in 0..MaxSuccesses
    BY <2>1, <2>2, <2>3, Sizes
  <2> QED
    BY <2>4 DEF a
<1>3. Succeeded(m, r, delayed) = IF enough THEN NoSuccesses(Added(n, delayed)) ELSE n
  <2> DEFINE m1 == [m EXCEPT
               !.sessions[i].maxWaited = IF r.amount = S[i].maxWaited /\ r.amount < MaxWaited
                                         THEN @ + 1 ELSE @,
               !.sessions[i].successes = IF @ < MaxSuccesses THEN @ + 1 ELSE @]
  <2>1. m1 = n
    <3>1. m \in Managers
      BY DEF Fine, Good, Typed
    <3> QED
      BY <1>1, <3>1 DEF WithSessions, Grown, Managers, SessionData
  <2>2. Succeeded(m, r, delayed)
          = IF \A j \in DOMAIN m1.sessions :
                 m1.sessions[j].successes >= (m1.removeTimes + 1) * RetrySuccesses
            THEN NoSuccesses(Added(m1, delayed)) ELSE m1
    BY DEF Succeeded
  <2> HIDE DEF m1, n
  <2> QED
    BY <2>1, <2>2
<1> HIDE DEF w, c, n
<1>4. Fine(n)
  BY <1>2, GrownEffect DEF n
<1>5. ASSUME enough PROVE Fine(NoSuccesses(Added(n, delayed)))
  <2>1. n.removeTimes \in Nat /\ n.sessions \in Seq(SessionData)
    BY <1>4, FieldsOfManager, Sizes DEF Fine, Good, Typed
  <2>2. (n.removeTimes + 1) * RetrySuccesses > 0
    <3>1. \A x, y \in Nat : x > 0 /\ y > 0 => x * y > 0
      OBVIOUS
    <3> QED
      BY <2>1, <3>1, Sizes
  <2>3. (n.removeTimes + 1) * RetrySuccesses \in Int
    BY <2>1, Sizes
  <2>4. \A j \in DOMAIN n.sessions : n.sessions[j].successes > 0
    <3> DEFINE y == (n.removeTimes + 1) * RetrySuccesses
    <3>1. y > 0 /\ y \in Int /\ \A j \in DOMAIN n.sessions : n.sessions[j].successes >= y
      BY <1>5, <2>2, <2>3
    <3> HIDE DEF y
    <3>2. \A j \in DOMAIN n.sessions : n.sessions[j].successes \in Nat
      BY <2>1, SessionsOf, Sizes
    <3> QED
      BY <3>1, <3>2
  <2>5. \A j \in DOMAIN n.sessions : n.sessions[j].requested =< n.sessions[j].maxWaited
    BY <1>4, <2>4 DEF Fine, Fits
  <2>6. Fine(Added(n, delayed))
    BY <1>4, <2>5, AddedEffect
  <2> QED
    BY <2>6, NoSuccessesEffect, FitsIsAsked DEF Fine
<1> QED
  BY <1>3, <1>4, <1>5

-----------------------------------------------------------------------------
(* Parts that change and stay in their sessions *)

\* The parts of m as others, that are of the same tasks and in the same sessions.
Relabels(m, f, S) ==
  /\ f \in [m.sent -> S] /\ \A x \in S : \E r \in m.sent : f[r] = x
  /\ \A r \in m.sent : /\ f[r].task = r.task /\ f[r].offset = r.offset
                       /\ f[r].session = r.session

\* As many parts are in each session, and each only once.
AsMany(m, S) ==
  /\ IsFiniteSet(S) /\ Cardinality(S) = Cardinality(m.sent)
  /\ \A J : Cardinality({x \in S : x.session \in J}) = Cardinality(PartsOf(m, J))
  /\ \A x, y \in S : x.task = y.task /\ x.offset = y.offset => x = y

LEMMA Relabelled ==
  ASSUME NEW m, Good(m), NEW S, NEW f, Relabels(m, f, S)
  PROVE  AsMany(m, S)
<1> USE DEF Relabels
<1>1. \A r, s \in m.sent : f[r] = f[s] => r = s
  BY DEF Good, Counted
<1>2. IsFiniteSet(m.sent)
  BY DEF Good, Counted
<1>3. f \in Bijection(m.sent, S)
  BY <1>1 DEF Bijection, Injection, IsInjective, Surjection
<1>4. IsFiniteSet(S) /\ Cardinality(S) = Cardinality(m.sent)
  BY <1>2, <1>3, FS_Bijection DEF ExistsBijection
<1>5. ASSUME NEW J PROVE Cardinality({x \in S : x.session \in J}) = Cardinality(PartsOf(m, J))
  <2> DEFINE A == PartsOf(m, J)
             B == {x \in S : x.session \in J}
             h == [r \in A |-> f[r]]
  <2>1. \A r \in A : r \in m.sent /\ f[r] \in B
    BY DEF PartsOf
  <2>2. \A x \in B : \E r \in A : f[r] = x
    BY DEF PartsOf
  <2> HIDE DEF A, B
  <2>3. h \in [A -> B] /\ \A r \in A : h[r] = f[r]
    BY <2>1
  <2>4. DOMAIN h = A
    OBVIOUS
  <2> HIDE DEF h
  <2>5. \A r, s \in DOMAIN h : h[r] = h[s] => r = s
    <3> SUFFICES ASSUME NEW r \in A, NEW s \in A, h[r] = h[s] PROVE r = s
      BY <2>4
    <3>1. r \in m.sent /\ s \in m.sent /\ f[r] = f[s]
      BY <2>1, <2>3
    <3> QED
      BY <1>1, <3>1
  <2>6. \A x \in B : \E r \in A : h[r] = x
    BY <2>2, <2>3
  <2>7. h \in Bijection(A, B)
    <3>1. h \in [A -> B]
      BY <2>3
    <3>2. h \in Injection(A, B)
      BY <2>5, <3>1 DEF Injection, IsInjective
    <3>3. h \in Surjection(A, B)
      BY <2>6, <3>1 DEF Surjection
    <3> QED
      BY <3>2, <3>3 DEF Bijection
  <2>8. IsFiniteSet(A)
    BY PlacesAre DEF A
  <2>9. Cardinality(B) = Cardinality(A)
    BY <2>7, <2>8, FS_Bijection DEF ExistsBijection
  <2> QED
    BY <2>9 DEF A, B
<1>6. ASSUME NEW x \in S, NEW y \in S, x.task = y.task, x.offset = y.offset PROVE x = y
  <2>1. PICK r \in m.sent : f[r] = x
    OBVIOUS
  <2>2. PICK s \in m.sent : f[s] = y
    OBVIOUS
  <2>3. r = s
    BY <1>6, <2>1, <2>2 DEF Good, Counted
  <2> QED
    BY <2>1, <2>2, <2>3
<1> QED
  BY <1>4, <1>5, <1>6 DEF AsMany

\* The same manager, where the part r is in another state.
WithState(m, r, x) == [m EXCEPT !.sent = (@ \ {r}) \union {[r EXCEPT !.state = x]}]

LEMMA StateEffect ==
  ASSUME NEW m, Fine(m), NEW r \in m.sent, NEW x \in {"sent", "refreshing", "failed"}
  PROVE  Fine(WithState(m, r, x)) /\ SameLoad(m, WithState(m, r, x))
<1> DEFINE p == [r EXCEPT !.state = x]
           S == (m.sent \ {r}) \union {p}
           n == [m EXCEPT !.sent = S]
           f == [y \in m.sent |-> IF y = r THEN p ELSE y]
<1>1. WithState(m, r, x) = n
  BY DEF WithState
<1>2. m \in Managers /\ m.sent \subseteq PartsAsked /\ Good(m) /\ Fits(m) /\ Bounded(m)
  BY FieldsOfManager DEF Fine, Good, Typed
<1>3. /\ p \in PartsAsked /\ p.task = r.task /\ p.offset = r.offset /\ p.session = r.session
      /\ p.old = r.old /\ p.amount = r.amount
  BY <1>2 DEF PartsAsked
<1> HIDE DEF p
<1>4. S \subseteq PartsAsked
  BY <1>2, <1>3
<1>5. /\ f \in [m.sent -> S] /\ \A y \in m.sent : f[y] = IF y = r THEN p ELSE y
  OBVIOUS
<1>6. \A z \in S : \E y \in m.sent : f[y] = z
  OBVIOUS
<1>7. \A y \in m.sent : /\ f[y].task = y.task /\ f[y].offset = y.offset
                        /\ f[y].session = y.session
  BY <1>3
<1>8. \A z \in S : \E y \in m.sent :
        /\ z.task = y.task /\ z.offset = y.offset /\ z.session = y.session /\ z.old = y.old
        /\ z.amount = y.amount
  BY <1>3
<1>9. /\ n \in Managers /\ n.sent = S /\ n.sessions = m.sessions /\ n.total = m.total
      /\ n.queue = m.queue /\ n.wanted = m.wanted /\ n.killing = m.killing
      /\ n.running = m.running
  <2> HIDE DEF S
  <2> QED
    BY <1>2, <1>4 DEF Managers
<1> HIDE DEF f, n
<1>10. AsMany(m, S)
  <2> HIDE DEF S
  <2>1. Relabels(m, f, S)
    BY <1>5, <1>6, <1>7 DEF Relabels
  <2> QED
    BY <1>2, <2>1, Relabelled
<1>11. S # {} /\ m.sent # {}
  OBVIOUS
<1> HIDE DEF S
<1>12. \A J : Cardinality(PartsOf(n, J)) = Cardinality(PartsOf(m, J))
  BY <1>9, <1>10 DEF PartsOf, AsMany
<1>13. Typed(n)
  BY <1>2, <1>8, <1>9 DEF Good, Typed
<1>14. Counted(n)
  <2>1. n.total = Cardinality(n.sent) /\ IsFiniteSet(n.sent)
    BY <1>2, <1>9, <1>10 DEF Good, Counted, AsMany
  <2>2. \A j \in DOMAIN n.sessions : n.sessions[j].requested = Cardinality(PartsOf(n, {j}))
    BY <1>2, <1>9, <1>12 DEF Good, Counted
  <2>3. \A z \in n.sent : /\ z.session \in DOMAIN n.sessions /\ IsQueued(n, z.task)
                          /\ z.offset \notin n.wanted[z.task]
    BY <1>2, <1>8, <1>9 DEF Good, Counted, IsQueued
  <2> QED
    BY <1>9, <1>10, <2>1, <2>2, <2>3 DEF Counted, AsMany
<1>15. Idle(n)
  BY <1>2, <1>9, <1>11 DEF Good, Idle
<1>16. Fits(n)
  <2>1. \A j : (\E z \in n.sent : z.session = j /\ ~Overloaded(n, z))
                 => \E y \in m.sent : y.session = j /\ ~Overloaded(m, y)
    BY <1>8, <1>9 DEF Overloaded
  <2> QED
    BY <1>2, <1>9, <2>1 DEF Fits
<1>17. Bounded(n)
  BY <1>2, <1>9, <1>12 DEF Bounded
<1>18. SameLoad(m, n)
  BY <1>9 DEF SameLoad
<1> QED
  BY <1>1, <1>13, <1>14, <1>15, <1>16, <1>17, <1>18 DEF Fine, Good

-----------------------------------------------------------------------------
(* removeSession *)

\* The same manager, where the last session seems to have Big more parts in flight.
Above(p, k, last) ==
  /\ k \in Managers
  /\ k.sent = p.sent /\ k.total = p.total /\ k.killing = p.killing /\ k.running = p.running
  /\ SameElsewhere(p, k)
  /\ SessionsLike(p, k, last, p.sessions[last].requested + Big)

\* A part that moved from the last session to session j.
Moved(p, r, j, n) ==
  /\ \E q : /\ q.task = r.task /\ q.offset = r.offset /\ q.session = j
            /\ n.sent = (p.sent \ {r}) \union {q}
  /\ n.total = p.total /\ SameElsewhere(p, n)
  /\ Len(n.sessions) = Len(p.sessions) /\ DOMAIN n.sessions = DOMAIN p.sessions
  /\ \A i \in DOMAIN p.sessions :
       /\ n.sessions[i].maxWaited = p.sessions[i].maxWaited
       /\ i # r.session => n.sessions[i].requested >= p.sessions[i].requested

\* Redirect, of the part r.
RedirectedTo(k, r) ==
  Placed(Finished(k, r), r.task, r.offset, LeastRequested(Finished(k, r)))

LEMMA BigIs == Big \in Nat /\ Big > 0
<1>1. \A x, y \in Nat : x > 0 /\ y > 0 => x * y \in Nat /\ x * y > 0
  OBVIOUS
<1> QED
  BY <1>1, Sizes DEF Big

\* The session that is taken away is never chosen for its own parts.
LEMMA LastIsNotLeast ==
  ASSUME NEW p, Good(p), NEW last \in DOMAIN p.sessions, last # 1, p.total =< Big,
         NEW k, Above(p, k, last), NEW r \in p.sent, r.session = last
  PROVE  LET rest == Finished(k, r)  j == LeastRequested(rest) IN
         /\ rest \in Managers /\ FinishedTo(k, r, rest)
         /\ j \in DOMAIN p.sessions /\ j # last
<1> DEFINE rest == Finished(k, r)
           j == LeastRequested(rest)
           x == p.sessions[last].requested
<1>1. p.sessions \in Seq(SessionData) /\ k \in Managers /\ r \in k.sent
  BY FieldsOfManager DEF Good, Typed, Above
<1>2. x \in Nat /\ x > 0 /\ p.total > 0 /\ p.total \in Nat
  BY <1>1, InFlight, FieldsOfManager, SessionsOf DEF Good, Typed
<1>3. /\ Len(k.sessions) = Len(p.sessions) /\ DOMAIN k.sessions = DOMAIN p.sessions
      /\ k.sessions[last].requested = x + Big /\ k.total = p.total
  BY DEF Above, SessionsLike
<1>4. k.sessions[last].requested > 0 /\ k.sessions[last].requested - 1 \in Nat
  <2> HIDE DEF x
  <2> QED
    BY <1>2, <1>3, BigIs
<1>5. k.sessions \in Seq(SessionData)
  BY <1>1, FieldsOfManager
<1>6. /\ rest \in Managers /\ rest.sent = k.sent \ {r} /\ rest.total = k.total - 1
      /\ rest.sessions = WithRequested(k.sessions, last, k.sessions[last].requested - 1)
      /\ SameElsewhere(k, rest) /\ rest.running = k.running
  BY <1>1, <1>2, <1>3, <1>4, FinishedFields DEF SameElsewhere
<1> HIDE DEF rest
<1>7. SessionsLike(k, rest, last, k.sessions[last].requested - 1)
  BY <1>3, <1>4, <1>5, <1>6, SessionChanged DEF SessionsLike
<1>8. FinishedTo(k, r, rest)
  BY <1>6, <1>7 DEF FinishedTo
<1> DEFINE f == [i \in DOMAIN rest.sessions |-> rest.sessions[i].requested]
<1>9. rest.sessions \in Seq(SessionData) /\ DOMAIN rest.sessions = DOMAIN p.sessions
      /\ Len(rest.sessions) = Len(p.sessions)
  BY <1>3, <1>6, <1>7, FieldsOfManager DEF SessionsLike
<1>10. DOMAIN p.sessions = 1..Len(p.sessions) /\ Len(p.sessions) \in Nat
       /\ 1 \in DOMAIN p.sessions /\ Len(p.sessions) > 0
  BY <1>1
<1>11. f \in [1..Len(p.sessions) -> Nat]
  BY <1>9, <1>10, SessionsOf
<1>12. f[last] = x + Big - 1
  <2>1. rest.sessions[last].requested = k.sessions[last].requested - 1
    BY <1>3, <1>7 DEF SessionsLike
  <2>2. f[last] = rest.sessions[last].requested
    BY <1>9
  <2> HIDE DEF f, x
  <2> QED
    BY <1>2, <1>3, <2>1, <2>2, BigIs
<1>13. f[1] < Big
  <2>1. f[1] = p.sessions[1].requested
    BY <1>3, <1>7, <1>9, <1>10 DEF SessionsLike, Above
  <2>2. p.sessions[1].requested = Cardinality(PartsOf(p, {1}))
    BY <1>10 DEF Good, Counted
  <2>3. PartsOf(p, {1}) \subseteq p.sent \ {r}
    BY DEF PartsOf
  <2>4. IsFiniteSet(p.sent) /\ p.total = Cardinality(p.sent)
    BY DEF Good, Counted
  <2>5. IsFiniteSet(p.sent \ {r}) /\ Cardinality(p.sent \ {r}) = p.total - 1
    BY <2>4, FS_RemoveElement
  <2>6. /\ Cardinality(PartsOf(p, {1})) =< Cardinality(p.sent \ {r})
        /\ Cardinality(PartsOf(p, {1})) \in Nat
    BY <2>3, <2>5, FS_Subset, FS_CardinalityType
  <2> HIDE DEF f
  <2> QED
    BY <1>2, <2>1, <2>2, <2>5, <2>6, BigIs
<1>14. j = FirstLeast(f)
  BY DEF LeastRequested
<1> HIDE DEF f, j, x
<1>15. j \in 1..Len(p.sessions) /\ f[j] =< f[1]
  BY <1>10, <1>11, <1>14, FirstLeastOf
<1>16. j # last
  <2> SUFFICES ASSUME j = last PROVE FALSE
    OBVIOUS
  <2>1. f[1] \in Nat
    BY <1>10, <1>11
  <2> QED
    BY <1>2, <1>12, <1>13, <1>15, <2>1, BigIs
<1> QED
  BY <1>6, <1>8, <1>10, <1>15, <1>16 DEF rest, j

LEMMA RedirectEffect ==
  ASSUME NEW p, Good(p), NEW last \in DOMAIN p.sessions, last # 1, p.total =< Big,
         NEW k, Above(p, k, last), NEW r \in p.sent, r.session = last
  PROVE  \E n : /\ Good(n) /\ Above(n, RedirectedTo(k, r), last)
                /\ \E j \in DOMAIN p.sessions \ {last} : Moved(p, r, j, n)
<1> DEFINE rest == Finished(k, r)
           j == LeastRequested(rest)
           f == Finished(p, r)
<1>1. rest \in Managers /\ FinishedTo(k, r, rest) /\ j \in DOMAIN p.sessions /\ j # last
  BY LastIsNotLeast
<1>2. RedirectedTo(k, r) = Placed(rest, r.task, r.offset, j)
  BY DEF RedirectedTo
<1> HIDE DEF rest, j
<1>3. Good(f) /\ FinishedTo(p, r, f) /\ f \in Managers
  BY FinishedEffect DEF Good, Typed
<1> HIDE DEF f
<1>4. r.task \in Tasks /\ r.offset \in Nat /\ r.offset \in Offsets(r.task)
      /\ IsQueued(p, r.task) /\ r.offset \notin p.wanted[r.task]
      /\ p.sessions[last].requested > 0
  BY InFlight DEF Good, Counted
<1>5. Placeable(f, r.task, r.offset, j)
  <2>1. \A x \in f.sent : ~(x.task = r.task /\ x.offset = r.offset)
    BY <1>3 DEF FinishedTo, Good, Counted
  <2>2. j \in DOMAIN f.sessions /\ IsQueued(f, r.task) /\ r.offset \notin f.wanted[r.task]
    BY <1>1, <1>3, <1>4 DEF FinishedTo, SessionsLike, SameElsewhere, IsQueued
  <2> QED
    BY <1>4, <2>1, <2>2 DEF Placeable
<1> DEFINE n1 == Placed(f, r.task, r.offset, j)
           k1 == Placed(rest, r.task, r.offset, j)
<1>6. Good(n1) /\ PlacedAt(f, r.task, r.offset, j, n1)
  BY <1>3, <1>5, PlacedEffect
<1>7. PlacedTo(f, r.task, r.offset, j, n1)
  BY <1>3, <1>4, <1>5, PlacedFields DEF Placeable
<1>8. j \in DOMAIN rest.sessions /\ last \in DOMAIN rest.sessions
      /\ DOMAIN rest.sessions = DOMAIN p.sessions
  BY <1>1 DEF FinishedTo, SessionsLike, Above
<1>9. PlacedTo(rest, r.task, r.offset, j, k1)
  BY <1>1, <1>4, <1>8, PlacedFields
<1> HIDE DEF n1, k1
<1>10. /\ p.sessions \in Seq(SessionData) /\ rest.sessions \in Seq(SessionData)
       /\ \A i \in DOMAIN p.sessions : p.sessions[i].requested \in Nat
  BY <1>1, FieldsOfManager, SessionsOf DEF Good, Typed
<1>11. rest.sessions[j].requested \in Nat /\ rest.sessions[j].requested + 1 \in Nat
  BY <1>8, <1>10, SessionsOf
<1>12. SessionsLike(rest, k1, j, rest.sessions[j].requested + 1)
  BY <1>8, <1>9, <1>10, <1>11, SessionChanged DEF PlacedTo, SessionsLike
<1>13. SessionsLike(p, f, last, p.sessions[last].requested - 1)
       /\ SessionsLike(f, n1, j, f.sessions[j].requested + 1)
       /\ SessionsLike(p, k, last, p.sessions[last].requested + Big)
       /\ SessionsLike(k, rest, last, k.sessions[last].requested - 1)
  BY <1>1, <1>3, <1>6 DEF FinishedTo, PlacedAt, Above
<1>14. rest.sessions[j].requested = f.sessions[j].requested
  BY <1>1, <1>13 DEF SessionsLike
<1>15. SessionsLike(n1, k1, last, n1.sessions[last].requested + Big)
  <2>1. ASSUME NEW i \in DOMAIN n1.sessions
        PROVE  k1.sessions[i].requested = IF i = last THEN n1.sessions[last].requested + Big
                                          ELSE n1.sessions[i].requested
    <3>1. i \in DOMAIN p.sessions
      BY <1>13 DEF SessionsLike
    <3>2. CASE i = last
      <4> DEFINE x == p.sessions[last].requested
      <4>1. n1.sessions[last].requested = x - 1
        BY <1>1, <1>13 DEF SessionsLike
      <4>2. k.sessions[last].requested = x + Big
        BY <1>13 DEF SessionsLike
      <4>3. k1.sessions[last].requested = k.sessions[last].requested - 1
        BY <1>1, <1>8, <1>12, <1>13 DEF SessionsLike
      <4>4. x \in Nat
        BY <1>10
      <4> HIDE DEF x
      <4> QED
        BY <3>2, <4>1, <4>2, <4>3, <4>4, BigIs
    <3>3. CASE i # last /\ i = j
      BY <1>12, <1>13, <1>14, <1>8, <3>1, <3>3 DEF SessionsLike
    <3>4. CASE i # last /\ i # j
      BY <1>12, <1>13, <1>8, <3>1, <3>4 DEF SessionsLike
    <3> QED
      BY <3>2, <3>3, <3>4
  <2> QED
    BY <1>8, <1>12, <1>13, <2>1 DEF SessionsLike
<1>16. NewPart(rest, r.task, r.offset, j) = NewPart(f, r.task, r.offset, j)
  BY <1>14 DEF NewPart
<1>17. k1.sent = n1.sent
  BY <1>1, <1>3, <1>7, <1>9, <1>16 DEF PlacedTo, FinishedTo, Above
<1>18. SameElsewhere(p, n1) /\ SameElsewhere(n1, k1)
  BY <1>1, <1>3, <1>7, <1>9 DEF PlacedTo, FinishedTo, Above, SameElsewhere
<1>19. k1.total = n1.total /\ n1.total = p.total
  <2>1. p.total \in Nat
    BY FieldsOfManager DEF Good, Typed
  <2> QED
    BY <1>1, <1>3, <1>7, <1>9, <2>1 DEF PlacedTo, FinishedTo, Above
<1>20. Above(n1, k1, last)
  BY <1>7, <1>9, <1>15, <1>17, <1>18, <1>19 DEF Above, PlacedTo
<1>21. Moved(p, r, j, n1)
  <2> DEFINE q == NewPart(f, r.task, r.offset, j)
  <2>1. q.task = r.task /\ q.offset = r.offset /\ q.session = j
    BY DEF NewPart
  <2>2. n1.sent = (p.sent \ {r}) \union {q}
    BY <1>3, <1>7 DEF PlacedTo, FinishedTo
  <2> HIDE DEF q
  <2>3. \A i \in DOMAIN p.sessions :
          /\ n1.sessions[i].maxWaited = p.sessions[i].maxWaited
          /\ i # r.session => n1.sessions[i].requested >= p.sessions[i].requested
    BY <1>10, <1>13 DEF SessionsLike
  <2>4. Len(n1.sessions) = Len(p.sessions) /\ DOMAIN n1.sessions = DOMAIN p.sessions
    BY <1>13 DEF SessionsLike
  <2> QED
    BY <1>18, <1>19, <2>1, <2>2, <2>3, <2>4 DEF Moved
<1> QED
  BY <1>1, <1>2, <1>6, <1>20, <1>21 DEF k1

\* What sending parts of the last session elsewhere keeps: no more parts are in the last
\* session and some others together, and no less in each other one.
Kept(m, p, last) ==
  /\ Good(p) /\ SameElsewhere(m, p) /\ p.total = m.total
  /\ Len(p.sessions) = Len(m.sessions) /\ DOMAIN p.sessions = DOMAIN m.sessions
  /\ \A i \in DOMAIN m.sessions :
       /\ p.sessions[i].maxWaited = m.sessions[i].maxWaited
       /\ i # last => p.sessions[i].requested >= m.sessions[i].requested
  /\ \A J \in SUBSET DOMAIN m.sessions :
       last \in J => Cardinality(PartsOf(p, J)) =< Cardinality(PartsOf(m, J))

LEMMA InLast ==
  ASSUME NEW p, Good(p), NEW last, NEW k, Above(p, k, last)
  PROVE  In(k, last) = PartsOf(p, {last})
BY DEF In, PartsOf, Above, SameElsewhere, Good, Counted, IsQueued

LEMMA RedirectKeeps ==
  ASSUME NEW m, Good(m), NEW last \in DOMAIN m.sessions, last # 1, m.total =< Big,
         NEW p, Kept(m, p, last), NEW k, Above(p, k, last), In(k, last) # {}
  PROVE  \E n : /\ Kept(m, n, last) /\ Above(n, Redirect(k, last), last)
                /\ In(Redirect(k, last), last) # In(k, last)
                /\ Cardinality(In(Redirect(k, last), last)) = Cardinality(In(k, last)) - 1
<1> DEFINE r == CHOOSE r \in In(k, last) : TRUE
           k1 == Redirect(k, last)
<1>1. r \in In(k, last)
  OBVIOUS
<1>2. k1 = RedirectedTo(k, r)
  BY DEF Redirect, RedirectedTo
<1> HIDE DEF r, k1
<1>3. In(k, last) = PartsOf(p, {last}) /\ Good(p)
  BY InLast DEF Kept
<1>4. r \in p.sent /\ r.session = last
  BY <1>1, <1>3 DEF PartsOf
<1>5. last \in DOMAIN p.sessions /\ p.total =< Big
  BY DEF Kept
<1>6. PICK n : /\ Good(n) /\ Above(n, k1, last)
               /\ \E j \in DOMAIN p.sessions \ {last} : Moved(p, r, j, n)
  BY <1>2, <1>3, <1>4, <1>5, RedirectEffect
<1>7. PICK j \in DOMAIN p.sessions \ {last} : Moved(p, r, j, n)
  BY <1>6
<1>8. PICK q : /\ q.task = r.task /\ q.offset = r.offset /\ q.session = j
               /\ n.sent = (p.sent \ {r}) \union {q}
  BY <1>7 DEF Moved
<1>9. \A J : IsFiniteSet(PartsOf(p, J)) /\ Cardinality(PartsOf(p, J)) \in Nat
  BY <1>3, PlacesAre
<1>10. ASSUME NEW J, last \in J
       PROVE  Cardinality(PartsOf(n, J)) =< Cardinality(PartsOf(p, J))
  <2> DEFINE A == PartsOf(p, J) \ {r}
  <2>1. PartsOf(n, J) \subseteq A \union {q} /\ r \in PartsOf(p, J)
    BY <1>4, <1>8, <1>10 DEF PartsOf
  <2>2. IsFiniteSet(A) /\ Cardinality(A) = Cardinality(PartsOf(p, J)) - 1
    BY <1>9, <2>1, FS_RemoveElement
  <2> HIDE DEF A
  <2>3. /\ IsFiniteSet(A \union {q})
        /\ Cardinality(A \union {q}) = IF q \in A THEN Cardinality(A) ELSE Cardinality(A) + 1
    BY <2>2, FS_AddElement
  <2>4. Cardinality(PartsOf(n, J)) =< Cardinality(A \union {q})
    BY <2>1, <2>3, FS_Subset
  <2>5. Cardinality(PartsOf(n, J)) \in Nat
    BY <1>6, PlacesAre
  <2> QED
    BY <1>9, <2>2, <2>3, <2>4, <2>5
<1>11. In(k1, last) = In(k, last) \ {r}
  <2>1. In(k1, last) = PartsOf(n, {last})
    BY <1>6, InLast
  <2>2. PartsOf(n, {last}) = PartsOf(p, {last}) \ {r}
    BY <1>7, <1>8 DEF PartsOf
  <2> QED
    BY <1>3, <2>1, <2>2
<1>12. Cardinality(In(k1, last)) = Cardinality(In(k, last)) - 1
  <2>1. IsFiniteSet(In(k, last))
    BY <1>3, <1>9
  <2> QED
    BY <1>1, <1>11, <2>1, FS_RemoveElement
<1>13. Kept(m, n, last)
  <2>1. SameElsewhere(m, n) /\ n.total = m.total
    BY <1>7 DEF Kept, Moved, SameElsewhere
  <2>2. Len(n.sessions) = Len(m.sessions) /\ DOMAIN n.sessions = DOMAIN m.sessions
    BY <1>7 DEF Kept, Moved
  <2>3. ASSUME NEW i \in DOMAIN m.sessions
        PROVE  /\ n.sessions[i].maxWaited = m.sessions[i].maxWaited
               /\ i # last => n.sessions[i].requested >= m.sessions[i].requested
    <3>1. /\ m.sessions[i].requested \in Nat /\ p.sessions[i].requested \in Nat
          /\ n.sessions[i].requested \in Nat
      <4>1. /\ m.sessions \in Seq(SessionData) /\ p.sessions \in Seq(SessionData)
            /\ n.sessions \in Seq(SessionData)
        BY <1>3, <1>6, FieldsOfManager DEF Good, Typed
      <4> QED
        BY <2>2, <4>1, SessionsOf DEF Kept
    <3> QED
      BY <1>4, <1>7, <3>1 DEF Kept, Moved
  <2>4. ASSUME NEW J \in SUBSET DOMAIN m.sessions, last \in J
        PROVE  Cardinality(PartsOf(n, J)) =< Cardinality(PartsOf(m, J))
    <3>1. /\ Cardinality(PartsOf(n, J)) =< Cardinality(PartsOf(p, J))
          /\ Cardinality(PartsOf(p, J)) =< Cardinality(PartsOf(m, J))
      BY <1>10, <2>4 DEF Kept
    <3>2. /\ Cardinality(PartsOf(n, J)) \in Nat /\ Cardinality(PartsOf(p, J)) \in Nat
          /\ Cardinality(PartsOf(m, J)) \in Nat
      BY <1>3, <1>6, PlacesAre
    <3> QED
      BY <3>1, <3>2
  <2> QED
    BY <1>6, <2>1, <2>2, <2>3, <2>4 DEF Kept
<1> QED
  BY <1>1, <1>6, <1>11, <1>12, <1>13 DEF k1

\* The last session is made to look full.
Lifted(m, last) == [m EXCEPT !.sessions[last].requested = @ + Big]

LEMMA LiftedIsAbove ==
  ASSUME NEW m, Good(m), NEW last \in DOMAIN m.sessions
  PROVE  Above(m, Lifted(m, last), last) /\ Kept(m, m, last)
<1> DEFINE x == m.sessions[last].requested + Big
           s == WithRequested(m.sessions, last, x)
           k == WithSessions(m, s)
<1>1. m \in Managers /\ m.sessions \in Seq(SessionData) /\ x \in Nat
  BY FieldsOfManager, SessionsOf, BigIs DEF Good, Typed
<1>2. Lifted(m, last) = k
  BY <1>1 DEF Lifted, WithSessions, WithRequested
<1> HIDE DEF x
<1>3. s \in Seq(SessionData) /\ Len(s) = Len(m.sessions) /\ DOMAIN s = DOMAIN m.sessions
      /\ \A j \in DOMAIN m.sessions :
           /\ s[j].requested = IF j = last THEN x ELSE m.sessions[j].requested
           /\ s[j].successes = m.sessions[j].successes
           /\ s[j].maxWaited = m.sessions[j].maxWaited
  BY <1>1, SessionChanged
<1> HIDE DEF s
<1>4. /\ k \in Managers /\ k.sessions = s /\ k.sent = m.sent /\ k.total = m.total
      /\ k.killing = m.killing /\ k.running = m.running /\ SameElsewhere(m, k)
  BY <1>1, <1>3 DEF WithSessions, Managers, SameElsewhere
<1> HIDE DEF k
<1>5. Above(m, k, last)
  BY <1>3, <1>4 DEF Above, SessionsLike, x
<1>6. Kept(m, m, last)
  <2>1. \A i \in DOMAIN m.sessions : m.sessions[i].requested \in Nat
    BY <1>1, SessionsOf
  <2>2. \A J : Cardinality(PartsOf(m, J)) \in Nat
    BY PlacesAre
  <2> QED
    BY <2>1, <2>2 DEF Kept, SameElsewhere
<1> QED
  BY <1>2, <1>5, <1>6

\* Queue::removeSession, as a run of parts that are sent elsewhere.
RedirectsFrom(m, last, n, g) ==
  /\ g[0] = Lifted(m, last) /\ Redirected(m, last) = g[n]
  /\ \A k \in 1..n : g[k] = Redirect(g[k - 1], last)

LEMMA RedirectedLoop ==
  ASSUME NEW m, NEW last, NEW S, Lifted(m, last) \in S, \A k \in S : Redirect(k, last) \in S,
         NEW n \in Nat, n = Cardinality(In(m, last))
  PROVE  \E g \in [0..n -> S] : RedirectsFrom(m, last, n, g)
<1> DEFINE RedirectOne(k) == Redirect(k, last)
           F == [k \in S |-> RedirectOne(k)]
           At(g) == g = [k \in 0..n |-> IF k = 0 THEN Lifted(m, last) ELSE RedirectOne(g[k - 1])]
           after == CHOOSE g : At(g)
<1>1. Redirected(m, last) = after[n]
  BY DEF Redirected, Repeated, Lifted
<1>2. F \in [S -> S]
  OBVIOUS
<1>3. PICK g \in [0..n -> S] : LoopOf(F, Lifted(m, last), n, g)
  <2> HIDE DEF F
  <2> QED
    BY <1>2, LoopExists
<1>4. At(g)
  <2> DEFINE h == [k \in 0..n |-> IF k = 0 THEN Lifted(m, last) ELSE RedirectOne(g[k - 1])]
  <2>1. \A k \in 0..n : k # 0 => k \in 1..n /\ g[k - 1] \in S
    OBVIOUS
  <2>2. \A x \in S : F[x] = RedirectOne(x)
    <3> HIDE DEF RedirectOne
    <3> QED
      OBVIOUS
  <2>3. \A k \in 0..n : g[k] = IF k = 0 THEN Lifted(m, last) ELSE RedirectOne(g[k - 1])
    <3> HIDE DEF RedirectOne, F
    <3> QED
      BY <1>3, <2>1, <2>2 DEF LoopOf
  <2>4. \A k \in 0..n : g[k] = h[k]
    <3> HIDE DEF RedirectOne
    <3> QED
      BY <2>3
  <2>5. h = [k \in 0..n |-> h[k]] /\ g = [k \in 0..n |-> g[k]]
    OBVIOUS
  <2>6. g = h
    <3> HIDE DEF h
    <3> QED
      BY <2>4, <2>5
  <2> QED
    BY <2>6
<1>5. At(after)
  <2> HIDE DEF At
  <2> QED
    BY <1>4
<1>6. /\ after = [k \in 0..n |-> after[k]] /\ after[0] = Lifted(m, last)
      /\ \A k \in 1..n : after[k] = RedirectOne(after[k - 1])
  <2> HIDE DEF RedirectOne, after
  <2> DEFINE h == [k \in 0..n |-> IF k = 0 THEN Lifted(m, last) ELSE RedirectOne(after[k - 1])]
  <2>1. after = h
    BY <1>5
  <2>2. h = [k \in 0..n |-> h[k]]
    OBVIOUS
  <2>3. h[0] = Lifted(m, last) /\ \A k \in 1..n : h[k] = RedirectOne(after[k - 1])
    OBVIOUS
  <2> HIDE DEF h
  <2> QED
    BY <2>1, <2>2, <2>3
<1>7. \A k \in 0..n : after[k] \in S
  <2>1. \A k \in S : RedirectOne(k) \in S
    OBVIOUS
  <2> HIDE DEF RedirectOne, after
  <2>2. after[0] \in S /\ \A k \in 1..n : after[k - 1] \in S => after[k] \in S
    BY <1>6, <2>1
  <2> QED
    BY <2>2, LoopStays
<1>8. after \in [0..n -> S]
  <2> HIDE DEF after
  <2> QED
    BY <1>6, <1>7
<1> HIDE DEF after
<1> QED
  BY <1>1, <1>6, <1>8 DEF RedirectsFrom

LEMMA RedirectedEffect ==
  ASSUME NEW m, Good(m), NEW last \in DOMAIN m.sessions, last # 1, m.total =< Big
  PROVE  \E p : /\ Kept(m, p, last) /\ Above(p, Redirected(m, last), last)
                /\ PartsOf(p, {last}) = {}
<1> DEFINE S == {k \in Managers : \E p : Kept(m, p, last) /\ Above(p, k, last)}
           n == Cardinality(In(m, last))
<1>1. Lifted(m, last) \in S
  BY LiftedIsAbove DEF Above
<1>2. ASSUME NEW k \in S, In(k, last) # {}
      PROVE  /\ Redirect(k, last) \in S
             /\ Cardinality(In(Redirect(k, last), last)) = Cardinality(In(k, last)) - 1
  <2>1. PICK p : Kept(m, p, last) /\ Above(p, k, last)
    OBVIOUS
  <2>2. PICK q : /\ Kept(m, q, last) /\ Above(q, Redirect(k, last), last)
                 /\ Cardinality(In(Redirect(k, last), last)) = Cardinality(In(k, last)) - 1
    BY <1>2, <2>1, RedirectKeeps
  <2>3. Redirect(k, last) \in Managers
    BY <2>2 DEF Above
  <2> QED
    BY <2>2, <2>3
<1>3. ASSUME NEW k \in S PROVE Redirect(k, last) \in S
  <2>1. CASE In(k, last) = {}
    BY <2>1 DEF Redirect
  <2>2. CASE In(k, last) # {}
    BY <1>2, <2>2
  <2> QED
    BY <2>1, <2>2
<1>4. ASSUME NEW k \in S
      PROVE  IsFiniteSet(In(k, last)) /\ Cardinality(In(k, last)) \in Nat
  <2>1. PICK p : Kept(m, p, last) /\ Above(p, k, last)
    OBVIOUS
  <2>2. In(k, last) = PartsOf(p, {last}) /\ Good(p)
    BY <2>1, InLast DEF Kept
  <2> QED
    BY <2>2, PlacesAre
<1>5. In(Lifted(m, last), last) = In(m, last)
  <2>1. Above(m, Lifted(m, last), last)
    BY LiftedIsAbove
  <2> QED
    BY <2>1 DEF Above, SameElsewhere, In, IsQueued
<1>6. n \in Nat
  BY <1>1, <1>4, <1>5
<1>7. PICK g \in [0..n -> S] : RedirectsFrom(m, last, n, g)
  <2> HIDE DEF S, n
  <2> QED
    BY <1>1, <1>3, <1>6, RedirectedLoop DEF n
<1> DEFINE T == {k \in Nat : k =< n => Cardinality(In(g[k], last)) =< n - k}
<1>8. 0 \in T
  <2>1. g[0] = Lifted(m, last)
    BY <1>7 DEF RedirectsFrom
  <2>2. Cardinality(In(g[0], last)) = n
    BY <1>5, <2>1
  <2> HIDE DEF n
  <2> QED
    BY <1>6, <2>2
<1> HIDE DEF n, S
<1>9. ASSUME NEW k \in T PROVE k + 1 \in T
  <2>1. SUFFICES ASSUME k + 1 =< n PROVE Cardinality(In(g[k + 1], last)) =< n - (k + 1)
    OBVIOUS
  <2>2. k \in Nat /\ k \in 0..n /\ k + 1 \in 1..n /\ (k + 1) - 1 = k /\ g[k] \in S
    BY <1>6, <2>1
  <2>3. g[k + 1] = Redirect(g[k], last)
    BY <1>7, <2>2 DEF RedirectsFrom
  <2>4. Cardinality(In(g[k], last)) =< n - k /\ Cardinality(In(g[k], last)) \in Nat
    BY <1>4, <2>2
  <2>5. CASE In(g[k], last) # {}
    <3>1. Cardinality(In(g[k + 1], last)) = Cardinality(In(g[k], last)) - 1
      BY <1>2, <2>2, <2>3, <2>5
    <3> QED
      BY <1>6, <2>2, <2>4, <3>1
  <2>6. CASE In(g[k], last) = {}
    <3>1. g[k + 1] = g[k]
      BY <2>3, <2>6 DEF Redirect
    <3>2. Cardinality(In(g[k + 1], last)) = 0
      BY <2>6, <3>1, FS_EmptySet
    <3> QED
      BY <1>6, <2>1, <2>2, <3>2
  <2> QED
    BY <2>5, <2>6
<1>10. T = Nat
  <2>1. T \in SUBSET Nat
    OBVIOUS
  <2> HIDE DEF T
  <2> QED
    BY <1>8, <1>9, <2>1, Induction
<1>11. g[n] \in S
  BY <1>6
<1>12. In(g[n], last) = {}
  <2>1. Cardinality(In(g[n], last)) =< 0
    BY <1>6, <1>10
  <2>2. IsFiniteSet(In(g[n], last)) /\ Cardinality(In(g[n], last)) \in Nat
    BY <1>4, <1>11
  <2>3. Cardinality(In(g[n], last)) = 0
    BY <2>1, <2>2
  <2> QED
    BY <2>2, <2>3, FS_EmptySet
<1>13. PICK p : Kept(m, p, last) /\ Above(p, g[n], last)
  BY <1>11 DEF S
<1>14. PartsOf(p, {last}) = {}
  <2>1. Good(p)
    BY <1>13 DEF Kept
  <2> QED
    BY <1>12, <1>13, <2>1, InLast
<1>15. Redirected(m, last) = g[n]
  BY <1>7 DEF RedirectsFrom
<1> QED
  BY <1>13, <1>14, <1>15

\* No more is ever in flight than all the sessions there may be have room for.
LEMMA TotalIsBounded ==
  ASSUME NEW m, Good(m), Bounded(m)
  PROVE  m.total =< Big
<1> DEFINE D == DOMAIN m.sessions
           k == Len(m.sessions)
<1>1. D = 1..k /\ k \in Nat
  BY PlacesAre
<1>2. Cardinality(D) = k
  BY <1>1, FS_Interval
<1>3. PartsOf(m, D) = m.sent
  BY DEF PartsOf, Good, Counted
<1>4. MaxSessions - k + k = MaxSessions
  BY <1>1, Sizes
<1>5. Cardinality(PartsOf(m, D)) =< MaxWaited * (MaxSessions - k + Cardinality(D))
  BY DEF Bounded
<1> HIDE DEF D, k
<1> QED
  BY <1>2, <1>3, <1>4, <1>5 DEF Good, Counted, Big

LEMMA FrontIs ==
  ASSUME NEW S, NEW s \in Seq(S), Len(s) > 0
  PROVE  /\ Front(s) \in Seq(S) /\ Len(Front(s)) = Len(s) - 1
         /\ DOMAIN Front(s) = 1..Len(s) - 1
         /\ \A i \in 1..Len(s) - 1 : Front(s)[i] = s[i]
<1> DEFINE a == SubSeq(s, 1, Len(s) - 1)
<1>0. Len(s) \in Nat /\ \A i \in 1..Len(s) : s[i] \in S
  OBVIOUS
<1>1. /\ a \in Seq(S) /\ Len(a) = IF 1 =< Len(s) - 1 THEN Len(s) - 1 - 1 + 1 ELSE 0
      /\ \A i \in 1..Len(s) - 1 - 1 + 1 : a[i] = s[1 + i - 1]
  BY <1>0, SubSeqProperties
<1>2. Front(s) = a
  BY DEF Front
<1> HIDE DEF a
<1> DEFINE k == Len(s)
<1>6. k \in Nat /\ k > 0 /\ Len(a) = IF 1 =< k - 1 THEN k - 1 - 1 + 1 ELSE 0
  BY <1>0, <1>1
<1>3. Len(a) = Len(s) - 1
  <2> HIDE DEF k
  <2>1. Len(a) = k - 1
    BY <1>6
  <2> QED
    BY <2>1 DEF k
<1>4. \A i \in 1..Len(s) - 1 : a[i] = s[i]
  BY <1>0, <1>1
<1>5. DOMAIN a = 1..Len(s) - 1
  BY <1>1, <1>3
<1> QED
  BY <1>1, <1>2, <1>3, <1>4, <1>5

\* removeSession: the counts stay right, and nothing is asked that counts any more.
LEMMA SessionRemovedEffect ==
  ASSUME NEW m, Fine(m), Len(m.sessions) # 1
  PROVE  LET n == SessionRemoved(m) IN
         /\ Good(n) /\ Bounded(n) /\ FitsAsked(n)
         /\ n.queue = m.queue /\ (CanSend(n) => CanSend(m))
<1> DEFINE last == Len(m.sessions)
           K == Redirected(m, last)
           S == {[r EXCEPT !.old = TRUE] : r \in K.sent}
           times == IF m.removeIndex # last THEN 1
                    ELSE IF m.removeTimes < MaxRemoves THEN m.removeTimes + 1 ELSE MaxRemoves
           n == [K EXCEPT !.sessions = Front(K.sessions), !.sent = S, !.removeIndex = last,
                          !.removeTimes = times, !.removed = TRUE]
<1>1. Good(m) /\ Bounded(m) /\ m \in Managers /\ m.removeTimes \in 0..MaxRemoves
      /\ m.sessions \in Seq(SessionData)
  BY FieldsOfManager DEF Fine, Good, Typed
<1>2. /\ DOMAIN m.sessions = 1..last /\ last \in Nat /\ last \in DOMAIN m.sessions
      /\ last > 1 /\ last # 1 /\ last =< MaxSessions
  <2>1. last \in 1..MaxSessions /\ last # 1
    BY <1>1 DEF Good, Typed
  <2>2. DOMAIN m.sessions = 1..last
    BY <1>1
  <2> HIDE DEF last
  <2> QED
    BY <2>1, <2>2, Sizes
<1>3. m.total =< Big
  BY <1>1, TotalIsBounded
<1>4. PICK p : /\ Kept(m, p, last) /\ Above(p, K, last) /\ PartsOf(p, {last}) = {}
  <2> HIDE DEF last
  <2> QED
    BY <1>1, <1>2, <1>3, RedirectedEffect
<1>5. times \in 0..MaxRemoves
  BY <1>1, Sizes
<1>6. SessionRemoved(m) = n
  BY DEF SessionRemoved
<1> HIDE DEF K, times, n, last
<1>7. Good(p) /\ p \in Managers /\ K \in Managers
  BY <1>4 DEF Kept, Above, Good, Typed
<1>8. K.sent = p.sent /\ K.sent \subseteq PartsAsked /\ K.sessions \in Seq(SessionData)
  BY <1>4, <1>7, FieldsOfManager DEF Above
<1>9. Len(K.sessions) = last /\ Len(p.sessions) = last /\ DOMAIN p.sessions = 1..last
  BY <1>2, <1>4 DEF Above, SessionsLike, Kept, last
<1> DEFINE f == [r \in p.sent |-> [r EXCEPT !.old = TRUE]]
<1>10. \A r \in PartsAsked : LET x == [r EXCEPT !.old = TRUE] IN
         /\ x \in PartsAsked /\ x.task = r.task /\ x.offset = r.offset
         /\ x.session = r.session /\ x.old = TRUE
  BY DEF PartsAsked
<1>11. /\ S \subseteq PartsAsked
       /\ \A x \in S : /\ x.old = TRUE
                       /\ \E r \in p.sent : /\ x.task = r.task /\ x.offset = r.offset
                                            /\ x.session = r.session
  BY <1>8, <1>10
<1>12. Relabels(p, f, S)
  <2>1. f \in [p.sent -> S]
    BY <1>8
  <2>2. \A x \in S : \E r \in p.sent : f[r] = x
    BY <1>8
  <2>3. \A r \in p.sent : /\ f[r].task = r.task /\ f[r].offset = r.offset
                          /\ f[r].session = r.session
    BY <1>8, <1>10
  <2> HIDE DEF f, S
  <2> QED
    BY <2>1, <2>2, <2>3 DEF Relabels
<1>13. S = {} <=> p.sent = {}
  BY <1>8
<1> HIDE DEF f, S
<1>14. AsMany(p, S)
  BY <1>7, <1>12, Relabelled
<1> DEFINE F == Front(K.sessions)
<1>15. /\ F \in Seq(SessionData) /\ Len(F) = last - 1 /\ DOMAIN F = 1..last - 1
       /\ \A i \in 1..last - 1 : F[i] = K.sessions[i]
  BY <1>2, <1>8, <1>9, FrontIs
<1> HIDE DEF F
<1>16. /\ n \in Managers /\ n.sessions = F /\ n.sent = S /\ n.total = m.total
       /\ n.queue = m.queue /\ n.wanted = m.wanted /\ n.killing = p.killing
       /\ n.running = p.running
  <2>1. /\ n \in Managers /\ n.sessions = F /\ n.sent = S /\ n.total = K.total
        /\ n.queue = K.queue /\ n.wanted = K.wanted /\ n.killing = K.killing
        /\ n.running = K.running
    BY <1>2, <1>5, <1>7, <1>11, <1>15 DEF n, F, Managers
  <2> QED
    BY <1>4, <2>1 DEF Above, Kept, SameElsewhere
<1>17. p.total = m.total /\ p.queue = m.queue /\ p.wanted = m.wanted
  BY <1>4 DEF Kept, SameElsewhere
<1>18. ASSUME NEW i \in 1..last - 1
       PROVE  /\ F[i].requested = p.sessions[i].requested /\ i \in DOMAIN m.sessions /\ i # last
              /\ F[i].maxWaited = m.sessions[i].maxWaited
              /\ i \in DOMAIN p.sessions
  <2>1. i \in DOMAIN p.sessions /\ i # last /\ i \in DOMAIN m.sessions
    BY <1>2, <1>9
  <2>2. F[i] = K.sessions[i]
    BY <1>15
  <2> QED
    BY <1>4, <2>1, <2>2 DEF Above, SessionsLike, Kept
<1>19. \A J : Cardinality(PartsOf(n, J)) = Cardinality(PartsOf(p, J))
  BY <1>14, <1>16 DEF PartsOf, AsMany
<1>20. Typed(n)
  <2>1. Len(n.sessions) \in 1..MaxSessions
    BY <1>2, <1>15, <1>16, Sizes
  <2>2. \A t \in Tasks : n.wanted[t] \subseteq Offsets(t)
    BY <1>1, <1>16 DEF Good, Typed
  <2>3. \A r \in n.sent : r.offset \in Offsets(r.task)
    BY <1>7, <1>11, <1>16 DEF Good, Typed
  <2>4. \A i, j \in DOMAIN n.queue : i < j =>
          n.queue[i].priority >= n.queue[j].priority /\ n.queue[i].task # n.queue[j].task
    BY <1>1, <1>16 DEF Good, Typed
  <2> QED
    BY <1>16, <2>1, <2>2, <2>3, <2>4 DEF Typed
<1>21. Counted(n)
  <2>1. IsFiniteSet(n.sent) /\ n.total = Cardinality(n.sent)
    BY <1>7, <1>14, <1>16, <1>17 DEF AsMany, Good, Counted
  <2>2. \A i \in DOMAIN n.sessions : n.sessions[i].requested = Cardinality(PartsOf(n, {i}))
    <3>1. \A i \in DOMAIN p.sessions : p.sessions[i].requested = Cardinality(PartsOf(p, {i}))
      BY <1>7 DEF Good, Counted
    <3> QED
      BY <1>15, <1>16, <1>18, <1>19, <3>1
  <2>3. ASSUME NEW x \in n.sent
        PROVE  /\ x.session \in DOMAIN n.sessions /\ IsQueued(n, x.task)
               /\ x.offset \notin n.wanted[x.task]
    <3>1. PICK r \in p.sent : /\ x.task = r.task /\ x.offset = r.offset
                              /\ x.session = r.session
      BY <1>11, <1>16
    <3>2. r.session \in DOMAIN p.sessions /\ IsQueued(p, r.task)
          /\ r.offset \notin p.wanted[r.task]
      BY <1>7 DEF Good, Counted
    <3>3. r.session # last
      BY <1>4 DEF PartsOf
    <3>4. r.session \in 1..last - 1
      BY <1>2, <1>9, <3>2, <3>3
    <3> QED
      BY <1>15, <1>16, <1>17, <3>1, <3>2, <3>4 DEF IsQueued
  <2> QED
    BY <1>14, <1>16, <2>1, <2>2, <2>3 DEF Counted, AsMany
<1>22. Idle(n)
  BY <1>7, <1>13, <1>16 DEF Good, Idle
<1>23. Good(n)
  BY <1>20, <1>21, <1>22 DEF Good
<1>24. FitsAsked(n)
  BY <1>11, <1>16 DEF FitsAsked, Overloaded
<1>25. Bounded(n)
  <2> SUFFICES ASSUME NEW J \in SUBSET DOMAIN n.sessions
               PROVE  Cardinality(PartsOf(n, J))
                        =< MaxWaited * (MaxSessions - Len(n.sessions) + Cardinality(J))
    BY DEF Bounded
  <2> DEFINE L == J \union {last}
  <2>1. L \in SUBSET DOMAIN m.sessions /\ last \notin J /\ last \in L
    BY <1>2, <1>15, <1>16
  <2>2. IsFiniteSet(J) /\ Cardinality(J) \in Nat
    BY <1>23, PlacesAre
  <2>3. Cardinality(L) = Cardinality(J) + 1
    BY <2>1, <2>2, FS_AddElement
  <2>4. MaxSessions - Len(n.sessions) + Cardinality(J) = MaxSessions - last + Cardinality(L)
    BY <1>2, <1>15, <1>16, <2>2, <2>3, Sizes
  <2> DEFINE b == MaxWaited * (MaxSessions - last + Cardinality(L))
  <2>5. Cardinality(PartsOf(m, L)) =< b
    BY <1>1, <2>1 DEF Bounded, last
  <2>6. Cardinality(PartsOf(p, L)) =< Cardinality(PartsOf(m, L))
    BY <1>4, <2>1 DEF Kept
  <2>7. /\ IsFiniteSet(PartsOf(p, L)) /\ Cardinality(PartsOf(p, L)) \in Nat
        /\ Cardinality(PartsOf(p, J)) \in Nat /\ Cardinality(PartsOf(m, L)) \in Nat
    BY <1>1, <1>7, PlacesAre
  <2>8. PartsOf(p, J) \subseteq PartsOf(p, L)
    BY DEF PartsOf
  <2>9. Cardinality(PartsOf(p, J)) =< Cardinality(PartsOf(p, L))
    BY <2>7, <2>8, FS_Subset
  <2>10. b \in Int
    <3> HIDE DEF L
    <3> QED
      BY <1>2, <2>2, <2>3, Sizes
  <2> HIDE DEF b, L
  <2>11. Cardinality(PartsOf(n, J)) =< b
    BY <1>19, <2>5, <2>6, <2>7, <2>9, <2>10
  <2> QED
    BY <2>4, <2>11 DEF b
<1>26. CanSend(n) => CanSend(m)
  <2>1. Ready(n) = Ready(m)
    BY <1>16 DEF Ready
  <2>2. ASSUME HasRoom(n) PROVE HasRoom(m)
    <3>1. PICK i \in DOMAIN n.sessions : n.sessions[i].requested < n.sessions[i].maxWaited
      BY <1>23, <2>2, BestHasRoom
    <3>2. /\ i \in DOMAIN m.sessions /\ i \in DOMAIN p.sessions
          /\ p.sessions[i].requested < m.sessions[i].maxWaited
          /\ p.sessions[i].requested >= m.sessions[i].requested
      BY <1>4, <1>15, <1>16, <1>18, <3>1 DEF Kept
    <3>3. /\ p.sessions[i].requested \in Nat /\ m.sessions[i].requested \in Nat
          /\ m.sessions[i].maxWaited \in Nat
      <4>1. p.sessions \in Seq(SessionData)
        BY <1>7, FieldsOfManager
      <4> QED
        BY <1>1, <3>2, <4>1, SessionsOf, Sizes
    <3>4. m.sessions[i].requested < m.sessions[i].maxWaited
      BY <3>2, <3>3
    <3> QED
      BY <1>1, <3>2, <3>4, BestHasRoom
  <2> QED
    BY <2>1, <2>2 DEF CanSend
<1> QED
  BY <1>6, <1>16, <1>23, <1>24, <1>25, <1>26

\* Nobody can send that could not.
NoMoreSends(m, n) == n.queue = m.queue /\ (CanSend(n) => CanSend(m))

LEMMA SameLoadNoMore ==
  ASSUME NEW m, NEW n, Good(m), Good(n), SameLoad(m, n)
  PROVE  NoMoreSends(m, n)
BY SameLoadSends DEF NoMoreSends, SameLoad

\* sessionTimedOut.
LEMMA TimedOutEffect ==
  ASSUME NEW m, Fine(m), NEW i
  PROVE  Fine(TimedOut(m, i)) /\ NoMoreSends(m, TimedOut(m, i))
<1>0. m.timeouts \in 0..RemoveAfter - 1 /\ m \in Managers
  BY FieldsOfManager DEF Fine, Good, Typed
<1>1. CASE i > Len(m.sessions)
  BY <1>1 DEF TimedOut, NoMoreSends
<1>2. CASE ~(i > Len(m.sessions)) /\ Len(m.sessions) = 1
  <2>1. TimedOut(m, i) = NoSuccesses(m)
    BY <1>2 DEF TimedOut
  <2>2. Fine(NoSuccesses(m)) /\ SameLoad(m, NoSuccesses(m))
    BY NoSuccessesEffect, FitsIsAsked DEF Fine
  <2> QED
    BY <2>1, <2>2, SameLoadNoMore DEF Fine
<1>3. CASE ~(i > Len(m.sessions)) /\ Len(m.sessions) # 1 /\ m.timeouts + 1 < RemoveAfter
  <2> DEFINE c == [m EXCEPT !.timeouts = m.timeouts + 1]
  <2>1. TimedOut(m, i) = NoSuccesses(c)
    BY <1>0, <1>3 DEF TimedOut, Managers
  <2>2. m.timeouts + 1 \in 0..RemoveAfter - 1
    BY <1>0, <1>3, Sizes
  <2>3. Fine(c) /\ SameLoad(m, c)
    BY <2>2, TimeoutsEffect
  <2> HIDE DEF c
  <2>4. Fine(NoSuccesses(c)) /\ SameLoad(c, NoSuccesses(c))
    BY <2>3, NoSuccessesEffect, FitsIsAsked DEF Fine
  <2>5. NoMoreSends(m, c) /\ NoMoreSends(c, NoSuccesses(c))
    BY <2>3, <2>4, SameLoadNoMore DEF Fine
  <2> QED
    BY <2>1, <2>4, <2>5 DEF NoMoreSends
<1>4. CASE ~(i > Len(m.sessions)) /\ Len(m.sessions) # 1 /\ ~(m.timeouts + 1 < RemoveAfter)
  <2> DEFINE c == [m EXCEPT !.timeouts = 0]
             n == SessionRemoved(c)
  <2>1. TimedOut(m, i) = NoSuccesses(n)
    BY <1>4 DEF TimedOut
  <2>2. 0 \in 0..RemoveAfter - 1
    BY Sizes
  <2>3. Fine(c) /\ SameLoad(m, c) /\ c.sessions = m.sessions
    BY <2>2, TimeoutsEffect
  <2> HIDE DEF c
  <2>4. /\ Good(n) /\ Bounded(n) /\ FitsAsked(n)
        /\ n.queue = c.queue /\ (CanSend(n) => CanSend(c))
    BY <1>4, <2>3, SessionRemovedEffect
  <2> HIDE DEF n
  <2>5. Fine(NoSuccesses(n)) /\ SameLoad(n, NoSuccesses(n))
    BY <2>4, NoSuccessesEffect
  <2>6. NoMoreSends(m, c) /\ NoMoreSends(n, NoSuccesses(n))
    BY <2>3, <2>4, <2>5, SameLoadNoMore DEF Fine
  <2> QED
    BY <2>1, <2>4, <2>5, <2>6 DEF NoMoreSends
<1> QED
  BY <1>1, <1>2, <1>3, <1>4

\* partLoaded.
LEMMA FedEffect ==
  ASSUME NEW m, Fine(m), NEW t \in Tasks, NEW short \in BOOLEAN
  PROVE  Fine(Fed(m, t, short))
<1> DEFINE m1 == IF short /\ t \in Files THEN WithWanted(m, t, {}) ELSE m
<1>1. Fine(m1)
  <2>1. {} \in SUBSET Offsets(t) /\ \A r \in m.sent : r.task = t => r.offset \notin {}
    BY FieldsOfManager
  <2>2. Fine(WithWanted(m, t, {}))
    BY <2>1, WantedEffect DEF Fine
  <2> QED
    BY <2>2
<1>2. Fed(m, t, short) = IF t \in Files /\ m1.wanted[t] = {} /\ OfTask(m1, t) = {}
                         THEN Left(m1, t) ELSE m1
  BY DEF Fed, WithWanted
<1> HIDE DEF m1
<1> QED
  BY <1>1, <1>2, LeftEffect

-----------------------------------------------------------------------------
(* The steps *)

LEMMA AllIsSent ==
  ASSUME Fine(d'), ~CanSend(d'), Rest'
  PROVE  IInv'
BY DEF IInv, RoomIsUsed

LEMMA NoMoreIsSent ==
  ASSUME IInv, Fine(d'), NoMoreSends(d, d'), Rest', untold' = untold, status' = status
  PROVE  IInv'
BY DEF IInv, RoomIsUsed, NoMoreSends, IsQueued

LEMMA AsMuchIsSent ==
  ASSUME IInv, Fine(d'), SameLoad(d, d'), Rest', untold' = untold, status' = status
  PROVE  IInv'
BY NoMoreIsSent, SameLoadNoMore DEF IInv, Fine

LEMMA Bounds == MaxSignals \in Nat /\ MaxErrors \in Nat /\ MaxLoads \in Nat
BY SizesAssumption

LEMMA TaskOf ==
  ASSUME IInv, NEW r \in d.sent
  PROVE  /\ r.task \in Tasks /\ r.session \in DOMAIN d.sessions /\ IsQueued(d, r.task)
         /\ r.amount \in Nat /\ r.old \in BOOLEAN /\ r.session \in Nat
BY InFlight DEF IInv, Fine, Good, Counted

LEMMA TasksAre == Files \subseteq Tasks /\ Streams \subseteq Tasks
                  /\ \A t \in Streams : t \notin Files
BY SizesAssumption DEF Tasks

LEMMA FineIsKept ==
  ASSUME IInv
  PROVE  Fine(d) /\ Good(d) /\ d \in Managers
         /\ d.wanted \in [Tasks -> SUBSET Nat] /\ \A t \in Tasks : d.wanted[t] \subseteq Offsets(t)
BY FieldsOfManager DEF IInv, Fine, Good, Typed

\* Before it starts a file loader has nothing in flight and is not in the queue.
LEMMA StartStep ==
  ASSUME IInv, NEW t \in Files, Start(t)
  PROVE  IInv'
<1>0. t \in Tasks /\ FrontParts[t] \in 1..Parts[t] /\ Parts[t] \in Nat /\ ~IsQueued(d, t)
  BY TasksAre, SizesAssumption DEF Tasks, Start
<1>1. PICK size \in {FrontParts[t], Parts[t]} : \E first \in 1..size :
        /\ d' = Joined([d EXCEPT !.wanted[t] = first..size], t, 0)
        /\ status' = [status EXCEPT ![t] = IF size < Parts[t] THEN "front" ELSE "loading"]
  BY DEF Start
<1>2. PICK first \in 1..size :
        /\ d' = Joined([d EXCEPT !.wanted[t] = first..size], t, 0)
        /\ status' = [status EXCEPT ![t] = IF size < Parts[t] THEN "front" ELSE "loading"]
  BY <1>1
<1> DEFINE x == first..size
           m == WithWanted(d, t, x)
<1>3. x \in SUBSET Offsets(t) /\ \A r \in d.sent : r.task = t => r.offset \notin x
  <2>1. x \in SUBSET Offsets(t)
    BY <1>0 DEF Offsets
  <2>2. \A r \in d.sent : r.task # t
    BY <1>0, TaskOf
  <2> QED
    BY <2>1, <2>2
<1>4. d' = Joined(m, t, 0)
  BY <1>2 DEF WithWanted
<1> HIDE DEF x
<1>5. Fine(m)
  BY <1>0, <1>3, FineIsKept, WantedEffect DEF Fine
<1> HIDE DEF m
<1>6. Fine(d') /\ ~CanSend(d')
  BY <1>0, <1>4, <1>5, JoinedEffect, 0 \in -1..1
<1>7. Rest'
  BY <1>2 DEF IInv, Rest, Start
<1> QED
  BY <1>6, <1>7, AllIsSent

LEMMA StartAgainStep ==
  ASSUME IInv, NEW t \in Files, StartAgain(t)
  PROVE  IInv'
<1>1. Fine(d') /\ ~CanSend(d')
  BY JoinedEffect, TasksAre DEF IInv, StartAgain
<1>2. Rest'
  BY DEF IInv, Rest, StartAgain
<1> QED
  BY <1>1, <1>2, AllIsSent

LEMMA DestroyStep ==
  ASSUME IInv, NEW t \in Files, Destroy(t)
  PROVE  IInv'
<1>1. Fine(d') /\ ~CanSend(d')
  BY StoppedEffect, TasksAre DEF IInv, Destroy, WithWanted
<1>2. Rest'
  BY DEF IInv, Rest, Destroy
<1> QED
  BY <1>1, <1>2, AllIsSent

LEMMA LoadStep ==
  ASSUME IInv, NEW t \in Streams, NEW o \in Offsets(t), Load(t, o)
  PROVE  IInv'
<1> DEFINE x == d.wanted[t] \union {o}
           m == WithWanted(d, t, x)
<1>0. t \in Tasks /\ priority[t] \in -1..1
  BY TasksAre DEF IInv, Rest
<1>1. x \in SUBSET Offsets(t) /\ \A r \in d.sent : r.task = t => r.offset \notin x
  BY <1>0, FineIsKept DEF Good, Counted, Load
<1>2. d' = Joined(m, t, priority[t])
  BY DEF Load, WithWanted
<1> HIDE DEF x
<1>3. Fine(m)
  BY <1>0, <1>1, FineIsKept, WantedEffect DEF Fine
<1> HIDE DEF m
<1>4. Fine(d') /\ ~CanSend(d')
  BY <1>0, <1>2, <1>3, JoinedEffect
<1>5. Rest'
  <2>1. loads < MaxLoads /\ loads' = loads + 1 /\ loads \in 0..MaxLoads
    BY DEF IInv, Rest, Load
  <2>2. loads' \in 0..MaxLoads
    BY <2>1, Bounds
  <2>3. /\ status' = status /\ priority' = priority /\ refreshing' = refreshing
        /\ signals' = signals /\ errors' = errors /\ untold' \in BOOLEAN
    BY DEF Load
  <2> QED
    BY <2>2, <2>3 DEF IInv, Rest
<1> QED
  BY <1>4, <1>5, AllIsSent

LEMMA CancelSentStep ==
  ASSUME IInv, NEW t \in Streams, NEW r \in d.sent, CancelSent(t, r)
  PROVE  IInv'
<1>0. t \in Tasks /\ priority[t] \in -1..1
  BY TasksAre DEF IInv, Rest
<1>1. Fine(Finished(d, r))
  BY FineIsKept, FinishedFine
<1>2. Rest'
  <2>1. loads < MaxLoads /\ loads' = loads + 1 /\ loads \in 0..MaxLoads
    BY DEF IInv, Rest, CancelSent
  <2>2. loads' \in 0..MaxLoads
    BY <2>1, Bounds
  <2>3. /\ status' = status /\ priority' = priority /\ refreshing' = refreshing
        /\ signals' = signals /\ errors' = errors /\ untold' \in BOOLEAN
    BY DEF CancelSent
  <2> QED
    BY <2>2, <2>3 DEF IInv, Rest
<1>3. CASE d.wanted[t] = {}
  <2>1. Fine(d') /\ untold' = TRUE
    BY <1>1, <1>3 DEF CancelSent
  <2> QED
    BY <1>2, <2>1 DEF IInv, RoomIsUsed
<1>4. CASE d.wanted[t] # {}
  <2>1. Fine(d') /\ ~CanSend(d')
    BY <1>0, <1>1, <1>4, JoinedEffect DEF CancelSent
  <2> QED
    BY <1>2, <2>1, AllIsSent
<1> QED
  BY <1>3, <1>4

LEMMA IncreaseLoadSizeStep ==
  ASSUME IInv, NEW t \in Files, IncreaseLoadSize(t)
  PROVE  IInv'
<1> DEFINE x == d.wanted[t] \union ((FrontParts[t] + 1)..Parts[t]
                                     \ {r.offset : r \in OfTask(d, t)})
           m == WithWanted(d, t, x)
<1>0. t \in Tasks /\ FrontParts[t] \in 1..Parts[t] /\ Parts[t] \in Nat
  BY TasksAre, SizesAssumption DEF Tasks
<1>1. x \in SUBSET Offsets(t) /\ \A r \in d.sent : r.task = t => r.offset \notin x
  <2>1. x \in SUBSET Offsets(t)
    BY <1>0, FineIsKept DEF Offsets
  <2>2. \A r \in d.sent : r.task = t => r.offset \notin d.wanted[t]
    BY FineIsKept DEF Good, Counted
  <2> QED
    BY <2>1, <2>2 DEF OfTask
<1>2. d' = m
  BY DEF IncreaseLoadSize, WithWanted
<1> HIDE DEF x
<1>3. Fine(m)
  BY <1>0, <1>1, FineIsKept, WantedEffect DEF Fine
<1> HIDE DEF m
<1>4. Rest' /\ untold' = TRUE
  BY DEF IInv, Rest, IncreaseLoadSize
<1> QED
  BY <1>2, <1>3, <1>4 DEF IInv, RoomIsUsed

\* A part that is only wanted is no more: what could be sent before is sent already.
LEMMA CancelWantedStep ==
  ASSUME IInv, NEW t \in Streams, NEW o \in Offsets(t), CancelWanted(t, o)
  PROVE  IInv'
<1> DEFINE x == d.wanted[t] \ {o}
           m == WithWanted(d, t, x)
<1>0. t \in Tasks
  BY TasksAre
<1>1. x \in SUBSET Offsets(t) /\ \A r \in d.sent : r.task = t => r.offset \notin x
  BY <1>0, FineIsKept DEF Good, Counted
<1>2. d' = m
  BY DEF CancelWanted, WithWanted
<1> HIDE DEF x
<1>3. Fine(m) /\ WantedTo(d, t, x, m)
  BY <1>0, <1>1, FineIsKept, WantedEffect DEF Fine
<1> HIDE DEF m
<1>4. Ready(m) \subseteq Ready(d)
  <2>1. \A u \in Tasks : m.wanted[u] \subseteq d.wanted[u]
    BY <1>0, <1>3, FineIsKept DEF WantedTo, x
  <2>2. \A k \in DOMAIN d.queue : d.queue[k].task \in Tasks
    BY FineIsKept, ReadyAre
  <2> QED
    BY <1>3, <2>1, <2>2 DEF Ready, WantedTo
<1>5. HasRoom(m) => HasRoom(d)
  BY <1>3 DEF WantedTo, HasRoom, Best
<1>6. Fine(d') /\ NoMoreSends(d, d')
  BY <1>2, <1>3, <1>4, <1>5 DEF NoMoreSends, CanSend, WantedTo
<1>7. Rest' /\ untold' = untold /\ status' = status
  BY Bounds DEF IInv, Rest, CancelWanted
<1> QED
  BY <1>6, <1>7, NoMoreIsSent

LEMMA SetPriorityStep ==
  ASSUME IInv, NEW t \in Streams, NEW p \in 0..1, SetPriority(t, p)
  PROVE  IInv'
<1>1. Rest'
  BY DEF IInv, Rest, SetPriority
<1>2. CASE OfTask(d, t) = {}
  <2>1. d' = d /\ untold' = untold /\ status' = status
    BY <1>2 DEF SetPriority
  <2> QED
    BY <1>1, <2>1 DEF IInv, RoomIsUsed
<1>3. CASE OfTask(d, t) # {}
  <2>1. Fine(d') /\ ~CanSend(d')
    BY <1>3, FineIsKept, JoinedEffect, TasksAre, p \in -1..1 DEF SetPriority
  <2> QED
    BY <1>1, <2>1, AllIsSent
<1> QED
  BY <1>2, <1>3

LEMMA TryRemoveStep ==
  ASSUME IInv, NEW t \in Streams, TryRemove(t)
  PROVE  IInv'
<1>1. Fine(d') /\ ~CanSend(d')
  BY FineIsKept, LeftEffect DEF TryRemove
<1>2. Rest'
  BY DEF IInv, Rest, TryRemove
<1> QED
  BY <1>1, <1>2, AllIsSent

LEMMA StopStep ==
  ASSUME IInv, NEW t \in Streams, Stop(t)
  PROVE  IInv'
<1>1. Fine(d') /\ ~CanSend(d')
  BY StoppedEffect, TasksAre DEF IInv, Stop, WithWanted
<1>2. Rest'
  BY DEF IInv, Rest, Stop
<1> QED
  BY <1>1, <1>2, AllIsSent

\* A part that counts was asked in a session that has room for it.
LEMMA CreditedEffect ==
  ASSUME IInv, NEW r \in d.sent, NEW delayed \in BOOLEAN
  PROVE  Fine(Credited(r, delayed))
<1> DEFINE m == Finished(d, r)
           i == r.session
<1>1. Credited(r, delayed) = IF Overloaded(m, r) THEN m ELSE Succeeded(m, r, delayed)
  BY DEF Credited
<1>2. Fine(m) /\ FinishedTo(d, r, m)
  BY FineIsKept, FinishedFine
<1> HIDE DEF m
<1>3. r.task \in Tasks /\ i \in DOMAIN d.sessions /\ r.amount \in Nat
  BY TaskOf
<1>4. /\ i \in DOMAIN m.sessions /\ m.sessions[i].maxWaited = d.sessions[i].maxWaited
      /\ m.sessions[i].requested = d.sessions[i].requested - 1
  BY <1>2, <1>3 DEF FinishedTo, SessionsLike
<1>5. ASSUME ~Overloaded(m, r) PROVE Fine(Succeeded(m, r, delayed))
  <2>1. ~Overloaded(d, r)
    BY <1>4, <1>5 DEF Overloaded
  <2>2. d.sessions[i].requested =< d.sessions[i].maxWaited
    BY <1>3, <2>1, FineIsKept DEF Fine, Fits
  <2>3. d.sessions[i].requested \in Nat /\ d.sessions[i].maxWaited \in Nat
    <3>1. d.sessions \in Seq(SessionData)
      BY FineIsKept, FieldsOfManager
    <3> QED
      BY <1>3, <3>1, SessionsOf, Sizes
  <2>4. m.sessions[i].requested =< m.sessions[i].maxWaited
    BY <1>4, <2>2, <2>3
  <2> QED
    BY <1>2, <1>3, <1>4, <2>4, SucceededEffect
<1> QED
  BY <1>1, <1>2, <1>5

LEMMA AnswerStep ==
  ASSUME IInv, NEW r \in d.sent, Answer(r)
  PROVE  IInv'
<1>1. PICK delayed \in BOOLEAN, short \in BOOLEAN :
        /\ d' = Checked(Fed(Credited(r, delayed), r.task, short))
        /\ status' = IF short /\ r.task \in Files THEN [status EXCEPT ![r.task] = "loading"]
                     ELSE status
  BY DEF Answer
<1>2. Fine(d') /\ ~CanSend(d')
  BY <1>1, TaskOf, CreditedEffect, FedEffect, CheckedEffect
<1>3. Rest'
  BY <1>1 DEF IInv, Rest, Answer
<1> QED
  BY <1>2, <1>3, AllIsSent

\* A file that cannot be written is given up before the room it leaves is used.
LEMMA AnswerUnwrittenStep ==
  ASSUME IInv, NEW r \in d.sent, AnswerUnwritten(r)
  PROVE  IInv'
<1>1. PICK delayed \in BOOLEAN : d' = Checked(Failed(Credited(r, delayed), r.task))
  BY DEF AnswerUnwritten
<1> DEFINE m == Credited(r, delayed)
<1>2. Fine(m) /\ r.task \in Tasks /\ r.task \in Files
  BY TaskOf, CreditedEffect DEF AnswerUnwritten
<1> HIDE DEF m
<1>3. Failed(m, r.task) = Cancelled(WithWanted(m, r.task, {}), r.task)
  BY <1>2 DEF Failed, WithWanted
<1>4. Fine(d') /\ ~CanSend(d')
  BY <1>1, <1>2, <1>3, StoppedEffect, CheckedEffect DEF m
<1>5. Rest'
  <2>1. errors < MaxErrors /\ errors' = errors + 1 /\ errors \in 0..MaxErrors
    BY DEF IInv, Rest, AnswerUnwritten
  <2>2. errors' \in 0..MaxErrors
    BY <2>1, Bounds
  <2>3. /\ priority' = priority /\ refreshing' = refreshing
        /\ loads' = loads /\ signals' = signals /\ untold' \in BOOLEAN
        /\ status' = IF r.task \in Files THEN [status EXCEPT ![r.task] = "over"] ELSE status
    BY DEF AnswerUnwritten, Over
  <2> QED
    BY <2>2, <2>3 DEF IInv, Rest
<1> QED
  BY <1>4, <1>5, AllIsSent

LEMMA AnswerLateStep ==
  ASSUME IInv, NEW r \in d.sent, AnswerLate(r)
  PROVE  IInv'
<1> DEFINE m == Finished(d, r)
           x == Append(m.late, r.session)
           c == [m EXCEPT !.late = x]
<1>1. d' = Checked(Fed(c, r.task, FALSE))
  BY DEF AnswerLate
<1>2. Fine(m)
  BY FineIsKept, FinishedFine
<1> HIDE DEF m
<1>3. m.late \in Seq(Nat) /\ r.session \in Nat /\ r.task \in Tasks
  BY <1>2, FieldsOfManager, TaskOf DEF Fine, Good, Typed
<1>4. x \in Seq(Nat)
  BY <1>3
<1> HIDE DEF x
<1>5. Fine(c)
  BY <1>2, <1>4, LateEffect
<1> HIDE DEF c
<1>6. Fine(Fed(c, r.task, FALSE))
  BY <1>3, <1>5, FedEffect
<1>7. Fine(d') /\ ~CanSend(d')
  BY <1>1, <1>6, CheckedEffect
<1>8. Rest'
  <2>1. signals < MaxSignals /\ signals' = signals + 1 /\ signals \in 0..MaxSignals
    BY DEF IInv, Rest, AnswerLate
  <2>2. signals' \in 0..MaxSignals
    BY <2>1, Bounds
  <2>3. /\ status' = status /\ priority' = priority /\ refreshing' = refreshing
        /\ loads' = loads /\ errors' = errors /\ untold' \in BOOLEAN
    BY DEF AnswerLate
  <2> QED
    BY <2>2, <2>3 DEF IInv, Rest
<1> QED
  BY <1>7, <1>8, AllIsSent

\* A file loader that fails keeps its place in the queue until it is destroyed.
LEMMA FailStep ==
  ASSUME IInv, NEW r \in d.sent, Fail(r)
  PROVE  IInv'
<1> DEFINE m == WithState(d, r, "failed")
           t == r.task
<1>1. d' = Failed(m, t) /\ Over(t) /\ untold' = untold
  BY DEF Fail, WithState
<1>2. Fine(m) /\ SameLoad(d, m)
  BY FineIsKept, StateEffect
<1> HIDE DEF m
<1>3. t \in Tasks /\ IsQueued(m, t)
  BY <1>2, TaskOf DEF SameLoad, IsQueued
<1>4. Rest'
  <2>1. errors < MaxErrors /\ errors' = errors + 1 /\ errors \in 0..MaxErrors
    BY DEF IInv, Rest, Fail
  <2>2. errors' \in 0..MaxErrors
    BY <2>1, Bounds
  <2>3. /\ priority' = priority /\ refreshing' = refreshing
        /\ loads' = loads /\ signals' = signals /\ untold' = untold
        /\ status' = IF t \in Files THEN [status EXCEPT ![t] = "over"] ELSE status
    BY DEF Fail, Over
  <2> QED
    BY <2>2, <2>3 DEF IInv, Rest
<1>5. CASE t \in Files
  <2>1. d' = Cancelled(WithWanted(m, t, {}), t)
    BY <1>1, <1>5 DEF Failed, WithWanted
  <2>2. Fine(d') /\ d'.queue = m.queue
    BY <1>2, <1>3, <2>1, StoppedEffect
  <2>3. IsQueued(d', t) /\ status'[t] = "over"
    BY <1>1, <1>3, <1>5, <2>2 DEF IsQueued, Over, IInv, Rest
  <2>4. RoomIsUsed'
    BY <1>5, <2>3 DEF RoomIsUsed
  <2> QED
    BY <1>4, <2>2, <2>4 DEF IInv
<1>6. CASE t \notin Files
  BY <1>1, <1>2, <1>4, <1>6, AsMuchIsSent DEF Failed, Over
<1> QED
  BY <1>5, <1>6

LEMMA AskReferenceStep ==
  ASSUME IInv, NEW r \in d.sent, AskReference(r)
  PROVE  IInv'
<1>1. d' = WithState(d, r, "refreshing")
  BY DEF AskReference, WithState
<1>2. Fine(d') /\ SameLoad(d, d')
  BY <1>1, FineIsKept, StateEffect
<1>3. Rest' /\ untold' = untold /\ status' = status
  <2>1. errors < MaxErrors /\ errors' = errors + 1 /\ errors \in 0..MaxErrors
    BY DEF IInv, Rest, AskReference
  <2>2. errors' \in 0..MaxErrors
    BY <2>1, Bounds
  <2>3. /\ priority' = priority /\ refreshing' = refreshing \union {r.task}
        /\ loads' = loads /\ signals' = signals /\ untold' = untold /\ status' = status
    BY DEF AskReference
  <2> QED
    BY <2>2, <2>3, TaskOf DEF IInv, Rest
<1> QED
  BY <1>2, <1>3, AsMuchIsSent

LEMMA RefreshedStep ==
  ASSUME IInv, NEW t \in Tasks, Refreshed(t)
  PROVE  IInv'
<1>1. Fine(d') /\ SameLoad(d, d')
  BY FineIsKept, SentAgainEffect DEF Refreshed
<1>2. Rest' /\ untold' = untold /\ status' = status
  BY DEF IInv, Rest, Refreshed
<1> QED
  BY <1>1, <1>2, AsMuchIsSent

\* A file loader that is not in the queue any more changes nothing when it fails.
LEMMA NotRefreshedStep ==
  ASSUME IInv, NEW t \in Tasks, NotRefreshed(t)
  PROVE  IInv'
<1>1. d' = Failed(d, t) /\ Over(t) /\ untold' = untold
  BY DEF NotRefreshed
<1>2. Rest'
  BY DEF IInv, Rest, NotRefreshed, Over
<1>3. CASE t \notin Files
  BY <1>1, <1>2, <1>3 DEF Failed, Over, IInv, RoomIsUsed
<1>4. CASE t \in Files
  <2> DEFINE m == WithWanted(d, t, {})
  <2>1. d' = Cancelled(m, t)
    BY <1>1, <1>4 DEF Failed, WithWanted
  <2>2. Fine(d') /\ d'.queue = d.queue
    BY <2>1, FineIsKept, StoppedEffect
  <2>3. /\ status'[t] = "over"
        /\ \A u \in Files \ {t} : status'[u] = status[u]
    BY <1>1, <1>4 DEF Over, IInv, Rest
  <2>4. CASE IsQueued(d, t)
    <3>1. IsQueued(d', t)
      BY <2>2, <2>4 DEF IsQueued
    <3>2. RoomIsUsed'
      BY <1>4, <2>3, <3>1 DEF RoomIsUsed
    <3> QED
      BY <1>2, <2>2, <3>2 DEF IInv
  <2>5. CASE ~IsQueued(d, t)
    <3>1. {} \in SUBSET Offsets(t) /\ \A r \in d.sent : r.task = t => r.offset \notin {}
      OBVIOUS
    <3>2. Fine(m) /\ WantedTo(d, t, {}, m)
      BY <3>1, FineIsKept, WantedEffect DEF Fine
    <3> HIDE DEF m
    <3>3. OfTask(m, t) = {}
      BY <2>5, <3>2, TaskOf DEF OfTask, WantedTo
    <3>4. d' = m
      BY <2>1, <3>2, <3>3, CancelledEffect
    <3>5. Ready(m) = Ready(d)
      <4>1. \A u \in Tasks : u # t => m.wanted[u] = d.wanted[u]
        BY <3>2, FineIsKept DEF WantedTo
      <4>2. \A k \in DOMAIN d.queue : d.queue[k].task \in Tasks /\ d.queue[k].task # t
        BY <2>5, FineIsKept, ReadyAre DEF IsQueued
      <4> QED
        BY <3>2, <4>1, <4>2 DEF Ready, WantedTo
    <3>6. HasRoom(m) <=> HasRoom(d)
      BY <3>2 DEF WantedTo, HasRoom, Best
    <3>7. CanSend(d') => CanSend(d)
      BY <3>4, <3>5, <3>6 DEF CanSend
    <3>8. \A u \in Files : IsQueued(d', u) <=> IsQueued(d, u)
      BY <2>2 DEF IsQueued
    <3>9. RoomIsUsed'
      <4> SUFFICES ASSUME untold' = FALSE, CanSend(d'),
                          \A u \in Files : status'[u] = "over" => ~IsQueued(d', u)
                   PROVE  FALSE
        BY <1>2 DEF RoomIsUsed, Rest
      <4>1. \A u \in Files : status[u] = "over" => ~IsQueued(d, u)
        BY <2>3, <2>5, <3>8
      <4> QED
        BY <1>1, <3>7, <4>1 DEF IInv, RoomIsUsed
    <3> QED
      BY <1>2, <2>2, <3>9 DEF IInv
  <2> QED
    BY <2>4, <2>5
<1> QED
  BY <1>3, <1>4

LEMMA RestartStep ==
  ASSUME IInv, NEW i \in 1..MaxSessions, Restart(i)
  PROVE  IInv'
<1>1. Fine(d') /\ NoMoreSends(d, d')
  BY FineIsKept, TimedOutEffect DEF Restart
<1>2. Rest' /\ untold' = untold /\ status' = status
  <2>1. signals < MaxSignals /\ signals' = signals + 1 /\ signals \in 0..MaxSignals
    BY DEF IInv, Rest, Restart
  <2>2. signals' \in 0..MaxSignals
    BY <2>1, Bounds
  <2>3. /\ status' = status /\ priority' = priority /\ refreshing' = refreshing
        /\ loads' = loads /\ errors' = errors /\ untold' = untold
    BY DEF Restart
  <2> QED
    BY <2>2, <2>3 DEF IInv, Rest
<1> QED
  BY <1>1, <1>2, NoMoreIsSent

LEMMA TellLateStep ==
  ASSUME IInv, TellLate
  PROVE  IInv'
<1> DEFINE x == Tail(d.late)
           c == [d EXCEPT !.late = x]
           i == d.late[1]
<1>1. d' = TimedOut(c, i)
  BY DEF TellLate
<1>2. x \in Seq(Nat)
  <2>1. d.late \in Seq(Nat) /\ d.late # <<>>
    BY FineIsKept, FieldsOfManager DEF TellLate
  <2> QED
    BY <2>1
<1> HIDE DEF x
<1>3. Fine(c) /\ SameLoad(d, c)
  BY <1>2, FineIsKept, LateEffect
<1> HIDE DEF c
<1>4. Fine(d') /\ NoMoreSends(c, d')
  BY <1>1, <1>3, TimedOutEffect
<1>5. NoMoreSends(d, d')
  BY <1>3, <1>4, FineIsKept, SameLoadNoMore DEF NoMoreSends, Fine
<1>6. Rest' /\ untold' = untold /\ status' = status
  BY DEF IInv, Rest, TellLate
<1> QED
  BY <1>4, <1>5, <1>6, NoMoreIsSent

\* Priorities below the highest are lowered together, so the order is the same.
LEMMA ResetGenerationStep ==
  ASSUME IInv, ResetGeneration
  PROVE  IInv'
<1> DEFINE s == d.queue
           q == [i \in DOMAIN s |-> IF s[i].priority = 0 THEN [s[i] EXCEPT !.priority = -1]
                                    ELSE s[i]]
           n == WithQueue(d, q)
<1>1. d' = n
  BY DEF ResetGeneration, WithQueue
<1>2. s \in Seq(Entries) /\ Sorted(s) /\ DOMAIN s = 1..Len(s) /\ Len(s) \in Nat
  <2>1. s \in Seq(Entries) /\ Sorted(s)
    BY FineIsKept, FieldsOfManager DEF Good, Typed, Sorted
  <2> QED
    BY <2>1
<1>3. \A e \in Entries :
        LET x == IF e.priority = 0 THEN [e EXCEPT !.priority = -1] ELSE e IN
        /\ x \in Entries /\ x.task = e.task
        /\ x.priority = IF e.priority = 0 THEN -1 ELSE e.priority
  BY DEF Entries
<1> HIDE DEF s
<1>4. /\ DOMAIN q = DOMAIN s
      /\ \A i \in DOMAIN s :
           /\ s[i] \in Entries /\ q[i] \in Entries /\ q[i].task = s[i].task
           /\ q[i].priority = IF s[i].priority = 0 THEN -1 ELSE s[i].priority
           /\ s[i].priority \in -1..1
  <2>1. \A i \in DOMAIN s : s[i] \in Entries
    BY <1>2
  <2>2. \A e \in Entries : e.priority \in -1..1
    BY DEF Entries
  <2> QED
    BY <1>3, <2>1, <2>2
<1>5. q \in Seq(Entries)
  <2>1. q \in [1..Len(s) -> Entries]
    BY <1>2, <1>4
  <2> HIDE DEF q
  <2> QED
    BY <1>2, <2>1, SeqDef
<1> HIDE DEF q, n
<1>6. Sorted(q)
  <2> SUFFICES ASSUME NEW a \in DOMAIN q, NEW b \in DOMAIN q, a < b
               PROVE  q[a].priority >= q[b].priority /\ q[a].task # q[b].task
    BY DEF Sorted
  <2>1. s[a].priority >= s[b].priority /\ s[a].task # s[b].task
    BY <1>2, <1>4 DEF Sorted
  <2>2. s[a].priority \in -1..1 /\ s[b].priority \in -1..1
    BY <1>4
  <2> QED
    BY <1>4, <2>1, <2>2
<1>7. \A u : Queued(q, u) <=> Queued(s, u)
  BY <1>4 DEF Queued
<1>8. \A r \in d.sent : Queued(q, r.task)
  BY <1>7, TaskOf DEF IsQueued, Queued, s
<1>9. QueueTo(d, q, n) /\ Fine(n)
  BY <1>5, <1>6, <1>8, FineIsKept, QueueEffect DEF n
<1>10. Ready(n) = Ready(d)
  <2>1. ASSUME NEW i \in DOMAIN s
        PROVE  /\ q[i].task = s[i].task
               /\ (q[1].priority =< 0 \/ q[i].priority = q[1].priority)
                    <=> (s[1].priority =< 0 \/ s[i].priority = s[1].priority)
    <3>1. 1 \in DOMAIN s
      BY <1>2
    <3>2. s[1].priority \in -1..1 /\ s[i].priority \in -1..1
      BY <1>4, <3>1
    <3> QED
      BY <1>4, <3>1, <3>2
  <2>2. Ready(n) = {i \in DOMAIN s : /\ d.wanted[q[i].task] # {}
                                     /\ \/ d.total = 0 \/ q[1].priority =< 0
                                        \/ q[i].priority = q[1].priority}
    BY <1>4, <1>9 DEF Ready, QueueTo
  <2>3. Ready(d) = {i \in DOMAIN s : /\ d.wanted[s[i].task] # {}
                                     /\ \/ d.total = 0 \/ s[1].priority =< 0
                                        \/ s[i].priority = s[1].priority}
    BY DEF Ready, s
  <2> QED
    BY <2>1, <2>2, <2>3
<1>11. HasRoom(n) <=> HasRoom(d)
  BY <1>9 DEF QueueTo, HasRoom, Best
<1>12. CanSend(d') => CanSend(d)
  BY <1>1, <1>10, <1>11 DEF CanSend
<1>13. \A u \in Files : IsQueued(d', u) <=> IsQueued(d, u)
  BY <1>1, <1>7, <1>9 DEF QueueTo, IsQueued, Queued, s
<1>14. Rest' /\ untold' = untold /\ status' = status
  BY DEF IInv, Rest, ResetGeneration
<1> QED
  BY <1>1, <1>9, <1>12, <1>13, <1>14 DEF IInv, RoomIsUsed

\* The sessions are stopped when nothing is in flight: those that come have as much room.
LEMMA KillSessionsStep ==
  ASSUME IInv, KillSessions
  PROVE  IInv'
<1> DEFINE s == [i \in DOMAIN d.sessions |-> FreshSession]
<1>1. d.sent = {} /\ d.total = 0
  <2>1. d.sent = {}
    BY FineIsKept DEF KillSessions, Good, Idle
  <2> QED
    BY <2>1, FineIsKept, FS_EmptySet DEF Good, Counted
<1>2. /\ d.sessions \in Seq(SessionData) /\ Len(d.sessions) \in 1..MaxSessions
      /\ DOMAIN d.sessions = 1..Len(d.sessions) /\ Len(d.sessions) \in Nat
  BY FineIsKept, FieldsOfManager, SessionsOf DEF Good, Typed
<1>3. FreshSession \in SessionData /\ FreshSession.requested = 0
      /\ FreshSession.maxWaited = StartWaited /\ FreshSession.successes = 0
  BY Sizes DEF FreshSession, SessionData
<1>4. /\ s \in Seq(SessionData) /\ Len(s) = Len(d.sessions) /\ DOMAIN s = DOMAIN d.sessions
      /\ \A j \in DOMAIN s : s[j] = FreshSession
  <2>1. s \in [1..Len(d.sessions) -> SessionData]
    BY <1>2, <1>3
  <2>2. \A j \in DOMAIN s : s[j] = FreshSession
    OBVIOUS
  <2> HIDE DEF s
  <2>3. s \in Seq(SessionData)
    BY <1>2, <2>1, SeqDef
  <2> QED
    BY <1>2, <2>1, <2>2, <2>3
<1> HIDE DEF s
<1>5. d' = [d EXCEPT !.sessions = s, !.total = 0, !.timeouts = 0, !.removeIndex = 1,
                     !.removeTimes = 0, !.removed = FALSE, !.killing = FALSE,
                     !.running = FALSE]
  BY DEF KillSessions, s
<1> DEFINE n == [d EXCEPT !.sessions = s, !.total = 0, !.timeouts = 0, !.removeIndex = 1,
                          !.removeTimes = 0, !.removed = FALSE, !.killing = FALSE,
                          !.running = FALSE]
<1>6. /\ n \in Managers /\ n.sessions = s /\ n.total = 0 /\ n.sent = {} /\ n.queue = d.queue
      /\ n.wanted = d.wanted /\ n.killing = FALSE /\ n.running = FALSE
  <2>1. 0 \in 0..RemoveAfter - 1 /\ 0 \in 0..MaxRemoves
    BY Sizes
  <2> QED
    BY <1>1, <1>4, <2>1, FineIsKept DEF Managers
<1> HIDE DEF n
<1>7. \A J : PartsOf(n, J) = {} /\ Cardinality(PartsOf(n, J)) = 0
  <2>1. \A J : PartsOf(n, J) = {}
    BY <1>6 DEF PartsOf
  <2> QED
    BY <2>1, FS_EmptySet
<1>8. Typed(n)
  BY <1>2, <1>4, <1>6, FineIsKept DEF Typed, Good
<1>9. Counted(n)
  BY <1>3, <1>4, <1>6, <1>7, FS_EmptySet DEF Counted
<1>10. Idle(n)
  BY <1>6 DEF Idle
<1>11. Good(n)
  BY <1>8, <1>9, <1>10 DEF Good
<1>12. Fits(n)
  BY <1>3, <1>4, <1>6, Sizes DEF Fits
<1>13. Bounded(n)
  <2> SUFFICES ASSUME NEW J \in SUBSET DOMAIN n.sessions
               PROVE  0 =< MaxWaited * (MaxSessions - Len(n.sessions) + Cardinality(J))
    BY <1>7 DEF Bounded
  <2>1. Cardinality(J) \in Nat
    BY <1>11, PlacesAre
  <2> DEFINE x == MaxSessions - Len(n.sessions) + Cardinality(J)
  <2>2. x \in Nat
    BY <1>2, <1>4, <1>6, <2>1, Sizes
  <2> HIDE DEF x
  <2>3. MaxWaited * x \in Nat
    BY <2>2, Sizes
  <2> QED
    BY <2>3 DEF x
<1>14. CanSend(n) => CanSend(d)
  <2>1. Ready(n) = Ready(d)
    BY <1>1, <1>6 DEF Ready
  <2>2. HasRoom(d)
    <3>1. 1 \in DOMAIN d.sessions
      BY <1>2
    <3>2. d.sessions[1].requested = Cardinality(PartsOf(d, {1}))
      BY <3>1, FineIsKept DEF Good, Counted
    <3>3. PartsOf(d, {1}) = {}
      BY <1>1 DEF PartsOf
    <3>4. d.sessions[1].requested = 0
      BY <3>2, <3>3, FS_EmptySet
    <3>5. d.sessions[1].maxWaited \in 1..MaxWaited
      BY <1>2, <3>1, SessionsOf
    <3>6. d.sessions[1].requested < d.sessions[1].maxWaited
      BY <3>4, <3>5, Sizes
    <3> QED
      BY <3>1, <3>6, FineIsKept, BestHasRoom
  <2> QED
    BY <2>1, <2>2 DEF CanSend
<1>15. Fine(d') /\ NoMoreSends(d, d')
  BY <1>5, <1>6, <1>11, <1>12, <1>13, <1>14 DEF Fine, NoMoreSends, n
<1>16. Rest' /\ untold' = untold /\ status' = status
  BY DEF IInv, Rest, KillSessions
<1> QED
  BY <1>15, <1>16, NoMoreIsSent

-----------------------------------------------------------------------------
(* The theorems *)

LEMMA InitIInv == Init => IInv
<1> SUFFICES ASSUME Init PROVE IInv
  OBVIOUS
<1> DEFINE w == [t \in Tasks |-> {}]
<1> DEFINE s == <<FreshSession>>
<1>1. /\ d.queue = <<>> /\ d.sent = {} /\ d.sessions = s /\ d.total = 0 /\ d.wanted = w
      /\ d.killing = FALSE /\ d.running = FALSE
  BY DEF Init
<1>2. FreshSession \in SessionData /\ FreshSession.requested = 0
      /\ FreshSession.maxWaited = StartWaited /\ FreshSession.successes = 0
  BY Sizes DEF FreshSession, SessionData
<1>3. /\ s \in Seq(SessionData) /\ Len(s) = 1 /\ DOMAIN s = {1} /\ s[1] = FreshSession
  BY <1>2
<1>4. w \in [Tasks -> SUBSET Nat] /\ \A t \in Tasks : w[t] \subseteq Offsets(t)
  BY OffsetsAre
<1>5. d \in Managers
  <2>1. 0 \in 0..RemoveAfter - 1 /\ 0 \in 0..MaxRemoves
    BY Sizes
  <2>2. <<>> \in Seq(Entries) /\ <<>> \in Seq(Nat)
    OBVIOUS
  <2> HIDE DEF w, s
  <2> QED
    BY <1>3, <1>4, <2>1, <2>2 DEF Init, Managers, w, s
<1> HIDE DEF w, s
<1>6. \A J : PartsOf(d, J) = {} /\ Cardinality(PartsOf(d, J)) = 0
  <2>1. \A J : PartsOf(d, J) = {}
    BY <1>1 DEF PartsOf
  <2> QED
    BY <2>1, FS_EmptySet
<1>7. Typed(d)
  BY <1>1, <1>3, <1>4, <1>5, Sizes DEF Typed
<1>8. Counted(d)
  BY <1>1, <1>2, <1>3, <1>6, FS_EmptySet DEF Counted
<1>9. Good(d)
  BY <1>1, <1>7, <1>8 DEF Good, Idle
<1>10. Fits(d)
  BY <1>1, <1>2, <1>3, Sizes DEF Fits
<1>11. Bounded(d)
  <2> SUFFICES ASSUME NEW J \in SUBSET DOMAIN d.sessions
               PROVE  0 =< MaxWaited * (MaxSessions - Len(d.sessions) + Cardinality(J))
    BY <1>6 DEF Bounded
  <2>1. Cardinality(J) \in Nat
    BY <1>9, PlacesAre
  <2> DEFINE x == MaxSessions - Len(d.sessions) + Cardinality(J)
  <2>2. x \in Nat
    BY <1>1, <1>3, <2>1, Sizes
  <2> HIDE DEF x
  <2>3. MaxWaited * x \in Nat
    BY <2>2, Sizes
  <2> QED
    BY <2>3 DEF x
<1>12. ~CanSend(d)
  BY <1>1 DEF CanSend, Ready
<1>13. Rest
  <2>1. status \in [Files -> {"new", "front", "loading", "over", "gone"}] /\ priority \in [Streams -> 0..1]
    BY DEF Init
  <2>2. refreshing \subseteq Tasks /\ untold \in BOOLEAN
    BY DEF Init
  <2>3. signals \in 0..MaxSignals /\ errors \in 0..MaxErrors /\ loads \in 0..MaxLoads
    <3>1. signals = 0 /\ errors = 0 /\ loads = 0
      BY DEF Init
    <3> QED
      BY <3>1, Bounds
  <2> QED
    BY <2>1, <2>2, <2>3 DEF Rest
<1> QED
  BY <1>9, <1>10, <1>11, <1>12, <1>13 DEF IInv, Fine, RoomIsUsed

LEMMA StepIInv == IInv /\ [Next]_vars => IInv'
<1> SUFFICES ASSUME IInv, [Next]_vars PROVE IInv'
  OBVIOUS
<1>1. ASSUME NEW t \in Files, Start(t) \/ StartAgain(t) \/ IncreaseLoadSize(t) \/ Destroy(t)
      PROVE IInv'
  BY <1>1, StartStep, StartAgainStep, IncreaseLoadSizeStep, DestroyStep
<1>2. ASSUME NEW t \in Streams, NEW o \in Offsets(t), Load(t, o) \/ CancelWanted(t, o)
      PROVE IInv'
  BY <1>2, LoadStep, CancelWantedStep
<1>3. ASSUME NEW t \in Streams, NEW r \in d.sent, CancelSent(t, r) PROVE IInv'
  BY <1>3, CancelSentStep
<1>4. ASSUME NEW t \in Streams, NEW p \in 0..1, SetPriority(t, p) PROVE IInv'
  BY <1>4, SetPriorityStep
<1>5. ASSUME NEW t \in Streams, TryRemove(t) \/ Stop(t) PROVE IInv'
  BY <1>5, TryRemoveStep, StopStep
<1>6. ASSUME NEW r \in d.sent, Answer(r) \/ AnswerLate(r) \/ AnswerUnwritten(r) \/ Fail(r) \/ AskReference(r)
      PROVE IInv'
  BY <1>6, AnswerStep, AnswerLateStep, AnswerUnwrittenStep, FailStep, AskReferenceStep
<1>7. ASSUME NEW t \in Tasks, Refreshed(t) \/ NotRefreshed(t) PROVE IInv'
  BY <1>7, RefreshedStep, NotRefreshedStep
<1>8. ASSUME NEW i \in 1..MaxSessions, Restart(i) PROVE IInv'
  BY <1>8, RestartStep
<1>9. ASSUME TellLate \/ ResetGeneration \/ KillSessions PROVE IInv'
  BY <1>9, TellLateStep, ResetGenerationStep, KillSessionsStep
<1>10. ASSUME UNCHANGED vars PROVE IInv'
  <2>1. /\ d' = d /\ status' = status /\ priority' = priority /\ refreshing' = refreshing
        /\ untold' = untold /\ signals' = signals /\ errors' = errors /\ loads' = loads
    BY <1>10 DEF vars
  <2>2. Fine(d') /\ SameLoad(d, d')
    BY <2>1 DEF IInv, SameLoad
  <2>3. Rest'
    BY <2>1 DEF IInv, Rest
  <2> QED
    BY <2>1, <2>2, <2>3, AsMuchIsSent
<1> QED
  BY <1>1, <1>2, <1>3, <1>4, <1>5, <1>6, <1>7, <1>8, <1>9, <1>10 DEF Next

\* The inductive invariant: what the manager counts is what is in flight, and the
\* sessions have the room the code relies on when it takes one of them away.
THEOREM Invariant == Spec => []IInv
<1> QED
  BY InitIInv, StepIInv, PTL DEF Spec

\* The variables keep their types: there is always a session and never more than
\* kMaxSessionsCount, and the queue stays sorted by priority without a task twice.
THEOREM TypesAreKept == Spec => []TypeOK
<1>1. IInv => TypeOK
  <2> SUFFICES ASSUME IInv PROVE TypeOK
    OBVIOUS
  <2>1. Typed(d) /\ d \in Managers /\ Rest
    BY FineIsKept DEF IInv, Good
  <2>2. /\ d.timeouts \in 0..RemoveAfter - 1 /\ d.removeTimes \in 0..MaxRemoves
        /\ d.killing \in BOOLEAN /\ d.running \in BOOLEAN /\ d.removed \in BOOLEAN
        /\ d.queue \in Seq(Entries) /\ d.sessions \in Seq(SessionData)
    BY <2>1, FieldsOfManager
  <2>3. \A i \in DOMAIN d.sessions : d.sessions[i] \in SessionData
    BY <2>2, SessionsOf
  <2>4. \A i \in DOMAIN d.queue : d.queue[i] \in Entries
    BY <2>2
  <2>5. \A r \in d.sent : /\ r.task \in Tasks /\ r.offset \in Offsets(r.task)
                          /\ r.old \in BOOLEAN /\ r.state \in {"sent", "refreshing", "failed"}
    BY <2>1, FieldsOfManager DEF Typed, PartsAsked
  <2> QED
    BY <2>1, <2>2, <2>3, <2>4, <2>5 DEF TypeOK, Typed, Rest, SessionData, Entries
<1> QED
  BY <1>1, Invariant, PTL

\* With any files, sessions and faults, every part in flight is counted once, in a session
\* that exists, and its task is still in the queue (changeRequestedAmount,
\* removeSession, placeSentRequest).
THEOREM AllPartsAreCounted == Spec => []PartsAreCounted
<1>1. IInv => PartsAreCounted
  <2> SUFFICES ASSUME IInv PROVE PartsAreCounted
    OBVIOUS
  <2>1. Counted(d)
    BY FineIsKept DEF Good
  <2>2. \A i : {r \in d.sent : r.session = i} = PartsOf(d, {i})
    BY DEF PartsOf
  <2> QED
    BY <2>1, <2>2 DEF PartsAreCounted, Counted
<1> QED
  BY <1>1, Invariant, PTL

\* A part that could be asked is asked before the step ends, unless a failed file loader
\* is about to go, a streaming loader cancelled a part and wants no other, or the load
\* size of a file was raised and nothing happened since (checkSendNext after
\* requestSucceeded, removeSession, enqueue and remove).
THEOREM RoomIsTaken == Spec => []RoomIsUsed
<1>1. IInv => RoomIsUsed
  BY DEF IInv
<1> QED
  BY <1>1, Invariant, PTL

\* The sessions are going to be stopped exactly when they were used and nothing is in
\* flight (changeRequestedAmount, killSessionsSchedule, killSessionsCancel).
THEOREM IdleSessionsStop == Spec => []IdleSessionsAreStopped
<1>1. IInv => IdleSessionsAreStopped
  BY FineIsKept DEF IdleSessionsAreStopped, Good, Idle
<1> QED
  BY <1>1, Invariant, PTL

\* However many sessions come and go, there are never more parts in flight than
\* kMaxSessionsCount sessions with kMaxWaitedInSession each may have: what removeSession
\* adds to the session it takes away, so that its parts are not sent in it again, is
\* enough.
THEOREM LoadIsBounded == Spec => [](d.total =< Big)
<1>1. IInv => d.total =< Big
  BY FineIsKept, TotalIsBounded DEF IInv, Fine
<1> QED
  BY <1>1, Invariant, PTL
=============================================================================
