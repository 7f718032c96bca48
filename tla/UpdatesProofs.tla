---------------------------- MODULE UpdatesProofs ----------------------------
(***************************************************************************)
(* Proofs about Updates, for every log of the server, whatever the updates *)
(* and their numbers are.  By the invariant IInv no box believes that it   *)
(* asks for the difference when it does not, and no gap is left without a  *)
(* timer.  By the invariant OInv no update is skipped, and updates are     *)
(* applied in order: between two differences, count is the pts reached     *)
(* plus as many numbers as the updates counted since take.  Updates take   *)
(* disjoint numbers and none is counted twice, so count is the last pts    *)
(* only if every number up to it was counted.                              *)
(***************************************************************************)
EXTENDS Updates, FiniteSetTheorems, TLAPS

Packets == [seq : Nat, kind : Kinds, list : Seq(Events)]
Hands == [seq : Nat, list : Seq(Events), busy : BOOLEAN, back : {"loop", "final", "slice"}]

\* What the proof needs of the types.  The numbers are not among it.
Tables ==
  /\ DOMAIN good = Boxes /\ DOMAIN last = Boxes /\ DOMAIN count = Boxes
  /\ requesting \in [Boxes -> BOOLEAN] /\ waiting \in [Boxes -> BOOLEAN]
  /\ shortPoll \in [Boxes -> BOOLEAN] /\ due \in [Boxes -> BOOLEAN]
  /\ failDue \in [Boxes -> BOOLEAN] /\ dropped \in [Boxes -> BOOLEAN]
  /\ ask \in [Boxes -> {"none", "state", "difference"}]
  /\ hand \in Hands /\ bySeq \subseteq DOMAIN Log /\ active \in BOOLEAN

\* A box without a pts has counted nothing.
Counted(b) == Inited(b) \/ last[b] = count[b]

\* A gap has the timer, and the reason for it, so that the end of a short poll
\* does not stop it.
GapHasTimer(b) ==
  ~requesting[b] /\ last[b] # count[b] => (due[b] /\ waiting[b]) \/ dropped[b]

\* While the packet in hand has a new seq its end will start the timer again.
SeqHasTimer == bySeq # {} => seqTimer \/ ranOut \/ (hand.busy /\ NewSeq(hand.seq))

Asking(b) ==
  /\ requesting[b] => ask[b] # "none" \/ failDue[b]
  /\ ask[b] # "none" => requesting[b]

\* Until setState returns to the end of a difference the difference is asked for,
\* and what comes meanwhile is not counted.
Returning ==
  hand.back # "loop" =>
    /\ hand.busy /\ requesting["common"] /\ ask["common"] # "none"
    /\ last["common"] = count["common"]

IInv ==
  /\ Tables /\ SeqHasTimer /\ Returning
  /\ \A b \in Boxes : Counted(b) /\ GapHasTimer(b) /\ Asking(b)

-----------------------------------------------------------------------------
LEMMA EntryOfSeq == ASSUME NEW S, NEW s \in Seq(S), NEW k \in DOMAIN s PROVE s[k] \in S
  OBVIOUS

LEMMA RestOfSeq ==
  ASSUME NEW S, NEW s \in Seq(S), s # <<>> PROVE Head(s) \in S /\ Tail(s) \in Seq(S)
  OBVIOUS

LEMMA LogEntry == ASSUME NEW k \in DOMAIN Log PROVE Log[k] \in Packets
  BY LogAssumption, EntryOfSeq DEF Packets

\* A packet taken in hand, by itself or in the loop over the packets kept.
LEMMA InHand ==
  ASSUME NEW k \in DOMAIN Log
  PROVE  /\ [seq |-> Log[k].seq, list |-> Log[k].list, busy |-> TRUE, back |-> "loop"] \in Hands
         /\ hand \in Hands => [hand EXCEPT !.seq = Log[k].seq, !.list = Log[k].list] \in Hands
  BY LogEntry DEF Packets, Hands

\* Something finite has a greatest member.
LEMMA Greatest ==
  ASSUME NEW S, IsFiniteSet(S), S # {}, NEW f \in [S -> Int]
  PROVE  \E x \in S : \A y \in S : f[y] =< f[x]
<1> DEFINE Bad == {T \in SUBSET S : T # {} /\ \A x \in T : \E y \in T : ~(f[y] =< f[x])}
           R == StrictSubsetOrdering(S)
<1>1. SUFFICES ASSUME S \in Bad PROVE FALSE
  OBVIOUS
<1>2. IsWellFoundedOn(R, SUBSET S)
  BY FS_StrictSubsetOrderingWellFounded, FS_FiniteSubsetsOfFinite
<1>3. Bad \subseteq SUBSET S /\ Bad # {}
  BY <1>1
<1>4. PICK T \in Bad : \A U \in Bad : ~(<<U, T>> \in R)
  <2> HIDE DEF Bad, R
  <2> QED
    BY <1>2, <1>3, WFMin
<1>5. T \in SUBSET S /\ T # {} /\ \A x \in T : \E y \in T : ~(f[y] =< f[x])
  BY <1>4
<1>6. PICK t \in T : TRUE
  BY <1>5
<1> DEFINE U == T \ {t}
<1>7. U \in SUBSET S /\ <<U, T>> \in R /\ U \notin Bad
  BY <1>4, <1>5, <1>6 DEF StrictSubsetOrdering
<1>8. U # {}
  BY <1>5, <1>6
<1>9. PICK m \in U : \A y \in U : f[y] =< f[m]
  BY <1>7, <1>8
<1>10. \A x \in T : f[x] \in Int
  BY <1>5
<1>11. CASE f[t] =< f[m]
  BY <1>5, <1>9, <1>11
<1>12. CASE ~(f[t] =< f[m])
  BY <1>5, <1>6, <1>9, <1>10, <1>12
<1> QED
  BY <1>11, <1>12

LEMMA ServerSeq == ASSUME NEW n \in 0..Len(Log) PROVE SeqAt[n] \in Nat
<1> DEFINE S == {0} \union {Log[k].seq : k \in 1..n}
           f == [k \in 1..n |-> Log[k].seq]
<1>1. \A k \in 1..n : Log[k].seq \in Nat
  <2>1. \A k \in 1..n : k \in DOMAIN Log
    BY LogAssumption
  <2> QED
    BY <2>1, LogEntry DEF Packets
<1>2. SeqAt[n] = CHOOSE s \in S : \A r \in S : r =< s
  BY DEF SeqAt
<1>3. \E s \in S : \A r \in S : r =< s
  <2>0. n \in Nat
    BY LogAssumption
  <2>1. CASE n = 0
    BY <2>1
  <2>2. CASE n # 0
    <3>1. IsFiniteSet(1..n) /\ 1..n # {} /\ f \in [1..n -> Int]
      <4>1. IsFiniteSet(1..n)
        BY <2>0, FS_Interval
      <4>2. 1 \in 1..n
        BY <2>0, <2>2
      <4>3. f \in [1..n -> Int]
        BY <1>1
      <4> QED
        BY <4>1, <4>2, <4>3
    <3>2. PICK k \in 1..n : \A j \in 1..n : f[j] =< f[k]
      <4> HIDE DEF f
      <4> QED
        BY <3>1, Greatest
    <3>3. f[k] \in S /\ 0 =< f[k] /\ \A j \in 1..n : Log[j].seq =< f[k]
      BY <1>1, <3>2
    <3>4. ASSUME NEW r \in S PROVE r =< f[k]
      <4>1. r = 0 \/ \E j \in 1..n : r = Log[j].seq
        OBVIOUS
      <4> HIDE DEF S, f
      <4> QED
        BY <3>3, <4>1
    <3> HIDE DEF S, f
    <3> QED
      BY <3>3, <3>4
  <2> QED
    BY <2>1, <2>2
<1>4. SeqAt[n] \in S
  <2> HIDE DEF S
  <2> QED
    BY <1>2, <1>3
<1> QED
  BY <1>1, <1>4

\* The initial states.
LEMMA InitIInv == Init => IInv
<1> SUFFICES ASSUME Init PROVE IInv
  OBVIOUS
<1>1. hand \in Hands
  BY DEF Init, Nothing, Hands
<1>2. ask \in [Boxes -> {"none", "state", "difference"}]
  BY DEF Init
<1>3. Tables
  BY <1>1, <1>2 DEF Init, Tables
<1>4. ASSUME NEW b \in Boxes PROVE Counted(b) /\ GapHasTimer(b) /\ Asking(b)
  BY DEF Init, Counted, GapHasTimer, Asking
<1> QED
  BY <1>3, <1>4 DEF IInv, SeqHasTimer, Returning, Nothing, Init

\* What updateAndApply leaves true of all boxes: it starts the wait with its timer,
\* and ends both only when nothing is missing or a mere pts says so.
LEMMA UpdateKeepsTimer ==
  ASSUME IInv, NEW b \in Boxes, NEW pts, NEW n, NEW new,
         UpdateAndApply(b, pts, n, new), UNCHANGED requesting
  PROVE  /\ DOMAIN good' = Boxes /\ DOMAIN last' = Boxes /\ DOMAIN count' = Boxes
         /\ waiting' \in [Boxes -> BOOLEAN] /\ due' \in [Boxes -> BOOLEAN]
         /\ dropped' \in [Boxes -> BOOLEAN]
         /\ \A x \in Boxes : Counted(x)' /\ GapHasTimer(x)'
<1> USE DEF IInv, Tables, Counted, GapHasTimer, Inited
<1>1. CASE Uncounted(b) /\ Apply(b, new) /\ UNCHANGED <<ptsVars, base, dropped>>
  BY <1>1 DEF Uncounted, Apply, ApplySkipped, ptsVars
<1>2. CASE UNCHANGED <<ptsVars, waiting, due, queue, knownVars>>
  BY <1>2 DEF ptsVars, knownVars
<1>3. CASE /\ Start(b, pts) /\ Apply(b, new) /\ UNCHANGED dropped
  BY <1>3 DEF Start, Apply, ApplySkipped
<1>4. CASE /\ Inited(b)
           /\ last' = [last EXCEPT ![b] = LastWith(b, pts)]
           /\ count' = [count EXCEPT ![b] = @ + n]
           /\ InOrder(b, pts, n)
           /\ good' = [good EXCEPT ![b] = last'[b]]
           /\ Apply(b, new) /\ dropped' = [dropped EXCEPT ![b] = FALSE]
  BY <1>4 DEF InOrder, Apply, ApplySkipped
<1>5. CASE /\ Inited(b)
           /\ last' = [last EXCEPT ![b] = LastWith(b, pts)]
           /\ count' = [count EXCEPT ![b] = @ + n]
           /\ waiting' = [waiting EXCEPT ![b] = TRUE] /\ due' = [due EXCEPT ![b] = TRUE]
           /\ UNCHANGED <<good, dropped>>
  BY <1>5
<1>6. CASE /\ Inited(b)
           /\ last' = [last EXCEPT ![b] = LastWith(b, pts)]
           /\ count' = [count EXCEPT ![b] = @ + n]
           /\ ApplySkipped(b, new, TRUE)
           /\ dropped' = [dropped EXCEPT ![b] = TRUE] /\ UNCHANGED good
  BY <1>6 DEF ApplySkipped
<1> QED
  BY <1>1, <1>2, <1>3, <1>4, <1>5, <1>6 DEF UpdateAndApply

\* What the rest of the system sees of getDifference and getChannelDifference: the
\* timer is stopped, and unless the channel is not known the box asks.
LEMMA DifferenceAsks ==
  ASSUME IInv, NEW b \in Boxes, Difference(b), UNCHANGED <<ptsVars, dropped>>,
         hand' \in Hands, hand'.seq = hand.seq, hand'.busy = hand.busy,
         hand'.back = hand.back, hand.back = "loop", UNCHANGED active
  PROVE  IInv'
<1> USE DEF IInv, Tables, ptsVars, Inited, Returning, NoneKept, NewSeq
<1>1. CASE NoAsk /\ due' = [due EXCEPT ![b] = FALSE] /\ UNCHANGED <<waiting, shortPoll, failDue>>
           /\ (requesting[b] \/ ~Inited(b))
  <2>1. Tables'
    BY <1>1 DEF NoAsk, askVars, Difference, GetDifference, GetChannelDifference, Ask, seqVars, Boxes
  <2>2. ASSUME NEW x \in Boxes PROVE Counted(x)' /\ GapHasTimer(x)' /\ Asking(x)'
    BY <1>1 DEF NoAsk, askVars, Counted, GapHasTimer, Asking
  <2>3. SeqHasTimer'
    BY <1>1 DEF Difference, GetDifference, GetChannelDifference, SeqHasTimer, seqVars, Ask, Boxes
  <2> QED
    BY <2>1, <2>2, <2>3
<1>2. CASE Ask(b) /\ due' = [due EXCEPT ![b] = FALSE] /\ UNCHANGED <<waiting, shortPoll>>
           /\ failDue' = [failDue EXCEPT ![b] = FALSE]
  <2>1. Tables'
    BY <1>2 DEF Ask, Difference, GetDifference, GetChannelDifference, NoAsk, seqVars, Boxes
  <2>2. ASSUME NEW x \in Boxes PROVE Counted(x)' /\ GapHasTimer(x)' /\ Asking(x)'
    BY <1>2 DEF Ask, Counted, GapHasTimer, Asking
  <2>3. SeqHasTimer'
    BY <1>2 DEF Difference, GetDifference, GetChannelDifference, SeqHasTimer, seqVars, NoAsk, Boxes
  <2> QED
    BY <2>1, <2>2, <2>3
<1> QED
  BY <1>1, <1>2 DEF Difference, GetDifference, GetChannelDifference, Boxes

\* An event that leaves the tables alone but for what is in hand and kept by seq.
LEMMA OnlySeq ==
  ASSUME IInv, UNCHANGED <<ptsVars, waitVars, failDue, dropped, ask>>,
         hand' \in Hands, bySeq' \subseteq DOMAIN Log, SeqHasTimer', UNCHANGED active,
         hand'.back # "loop" => hand.back # "loop" /\ hand'.busy
  PROVE  IInv'
  BY DEF IInv, Tables, ptsVars, waitVars, Counted, GapHasTimer, Asking, Inited, Returning

\* An update that updateAndApply looks at.
LEMMA OnlyUpdate ==
  ASSUME IInv, NEW b \in Boxes, NEW pts, NEW n, NEW new, UpdateAndApply(b, pts, n, new),
         UNCHANGED <<requesting, shortPoll, failDue, seqVars, ask, active>>,
         hand' \in Hands,
         hand'.seq = hand.seq, hand'.busy = hand.busy, hand'.back = hand.back
  PROVE  IInv'
<1>1. /\ DOMAIN good' = Boxes /\ DOMAIN last' = Boxes /\ DOMAIN count' = Boxes
      /\ waiting' \in [Boxes -> BOOLEAN] /\ due' \in [Boxes -> BOOLEAN]
      /\ dropped' \in [Boxes -> BOOLEAN]
      /\ \A x \in Boxes : Counted(x)' /\ GapHasTimer(x)'
  BY UpdateKeepsTimer
<1>2. Tables'
  BY <1>1 DEF IInv, Tables, seqVars
<1>3. SeqHasTimer' /\ \A x \in Boxes : Asking(x)'
  BY DEF IInv, SeqHasTimer, Asking, seqVars, NewSeq
<1>4. Returning'
  <2> SUFFICES ASSUME hand.back # "loop"
               PROVE  last'["common"] = last["common"] /\ count'["common"] = count["common"]
    BY DEF IInv, Returning
  <2>1. requesting["common"] /\ "common" \in Boxes /\ Tables
    BY DEF IInv, Returning, Boxes
  <2>2. b = "common" => UNCHANGED ptsVars
    BY <2>1 DEF UpdateAndApply, Uncounted
  <2>3. b # "common" => last'["common"] = last["common"] /\ count'["common"] = count["common"]
    BY <2>1 DEF UpdateAndApply, ptsVars, Start, Tables
  <2> QED
    BY <2>2, <2>3 DEF ptsVars
<1> QED
  BY <1>1, <1>2, <1>3, <1>4 DEF IInv

-----------------------------------------------------------------------------
\* An answer is about a part of the log.
Lengths == upTo \in [Boxes -> -1..Len(Log)] /\ length \in 0..Len(Log)

LEMMA StepLengths == Lengths /\ [Next]_vars => Lengths'
<1> SUFFICES ASSUME Lengths, [Next]_vars PROVE Lengths'
  OBVIOUS
<1>0. -1 \in -1..Len(Log) /\ 0..Len(Log) \subseteq -1..Len(Log)
  BY LogAssumption
<1>1. \/ UNCHANGED <<upTo, length>>
      \/ length < Len(Log) /\ length' = length + 1 /\ UNCHANGED upTo
      \/ \E b \in Boxes : upTo' = [upTo EXCEPT ![b] = -1] /\ UNCHANGED length
      \/ \E b \in Boxes : upTo' = [upTo EXCEPT ![b] = length] /\ UNCHANGED length
  <2> USE DEF askVars, serverVars, Ask, NoAsk, RequestDone
  <2>1. CASE UNCHANGED vars
    BY <2>1 DEF vars
  <2>2. CASE ServerEmits \/ \E b \in Boxes : ServerAnswers(b)
    BY <2>2 DEF ServerEmits, ServerAnswers
  <2>3. ASSUME NEW b \in Boxes, Difference(b), UNCHANGED length
        PROVE  \E x \in Boxes : UNCHANGED upTo \/ upTo' = [upTo EXCEPT ![x] = -1]
    BY <2>3 DEF Difference, GetDifference, GetChannelDifference, Boxes
  <2>4. CASE \E b \in Boxes : DifferenceFails(b) \/ FailTimer(b) \/ PtsTimer(b) \/ TooLong(b)
    BY <2>3, <2>4 DEF DifferenceFails, FailTimer, Reask, PtsTimer, TooLong, Asked
  <2>5. CASE \E k \in DOMAIN Log : UpdateReceived(k) \/ AnswerReceived(k) \/ AffectedReceived(k)
    BY <2>5 DEF UpdateReceived, AnswerReceived, AffectedReceived
  <2>6. CASE \/ \E pts \in MerePts : PtsReceived(pts)
             \/ FeedUpdate \/ TakeNext \/ ShowChannel \/ \E closed \in BOOLEAN : HideChannel(closed)
    BY <2>6 DEF PtsReceived, FeedUpdate, TakeNext, ShowChannel, HideChannel
  <2>7. "common" \in Boxes /\ "channel" \in Boxes
    BY DEF Boxes
  <2>8. CASE FeedUnknown \/ MinTimer \/ SeqTimer
    BY <2>3, <2>7, <2>8 DEF FeedUnknown, MinTimer, SeqTimer, Asked, Difference
  <2>9. CASE FinishUpdates
    BY <2>7, <2>9 DEF FinishUpdates, AskForRest
  <2>10. CASE StateDone \/ AnyDifferenceDone
    BY <2>10 DEF StateDone, AnyDifferenceDone, DifferenceDone, SetState
  <2>11. CASE AnyChannelDifferenceDone
    BY <2>7, <2>11 DEF AnyChannelDifferenceDone, ChannelDifferenceDone
  <2>12. CASE NewSession
    BY <2>7, <2>12 DEF NewSession
  <2> QED
    BY <2>1, <2>2, <2>4, <2>5, <2>6, <2>8, <2>9, <2>10, <2>11, <2>12 DEF Next
<1>2. Len(Log) \in Nat
  BY LogAssumption
<1> QED
  BY <1>0, <1>1, <1>2 DEF Lengths

LEMMA StepIInv == IInv /\ Lengths /\ [Next]_vars => IInv'
<1> SUFFICES ASSUME IInv, Lengths, [Next]_vars PROVE IInv'
  OBVIOUS
<1>0. IInv => /\ Tables /\ SeqHasTimer /\ Returning
              /\ \A b \in Boxes : Counted(b) /\ GapHasTimer(b) /\ Asking(b)
  BY DEF IInv
<1>r. Ready => hand.back = "loop"
  BY <1>0 DEF Ready, Returning
<1>u. ASSUME hand.back = "loop", hand'.back = "loop" PROVE Returning'
  BY <1>u DEF Returning
<1>1. CASE UNCHANGED vars
  BY <1>1, OnlySeq DEF vars, knownVars, askVars, seqVars, IInv, Tables, SeqHasTimer, NewSeq, Returning
<1>2. CASE ServerEmits
  BY <1>2, OnlySeq DEF ServerEmits, askVars, seqVars, IInv, Tables, SeqHasTimer, NewSeq, Returning
<1>3. CASE \E b \in Boxes : ServerAnswers(b)
  BY <1>3, OnlySeq DEF ServerAnswers, knownVars, seqVars, IInv, Tables, SeqHasTimer, NewSeq, Returning
<1>4. CASE \E b \in Boxes : DifferenceFails(b)
  <2> PICK b \in Boxes : DifferenceFails(b)
    BY <1>4
  <2> USE DEF DifferenceFails, RequestDone, FailTimerFor, ptsVars, waitVars, knownVars, seqVars
  <2>1. Tables'
    BY <1>0 DEF Tables
  <2>2. SeqHasTimer'
    BY <1>0 DEF SeqHasTimer, NewSeq
  <2>3. ASSUME NEW x \in Boxes PROVE Counted(x)' /\ GapHasTimer(x)' /\ Asking(x)'
    BY <1>0 DEF Tables, Counted, GapHasTimer, Asking, Inited
  <2>4. Returning'
    BY <1>r, <1>u
  <2> QED
    BY <2>1, <2>2, <2>3, <2>4 DEF IInv
<1>5. CASE \E b \in Boxes : FailTimer(b)
  <2> PICK b \in Boxes : FailTimer(b)
    BY <1>5
  <2> USE DEF FailTimer, Reask, Ask, NoneKept, NothingCounted, ptsVars, knownVars
  <2>1. Tables'
    BY <1>0 DEF Tables
  <2>2. SeqHasTimer'
    BY <1>0 DEF SeqHasTimer, NewSeq
  <2>3. ASSUME NEW x \in Boxes PROVE Counted(x)' /\ GapHasTimer(x)' /\ Asking(x)'
    BY <1>0 DEF Tables, Counted, GapHasTimer, Asking, Inited
  <2>4. Returning'
    BY <1>r, <1>u
  <2> QED
    BY <2>1, <2>2, <2>3, <2>4 DEF IInv
<1>6. CASE \E b \in Boxes : PtsTimer(b) \/ TooLong(b)
  <2> PICK b \in Boxes : PtsTimer(b) \/ TooLong(b)
    BY <1>6
  <2>1. Difference(b) /\ Ready /\ UNCHANGED <<ptsVars, dropped, hand, active>>
    BY DEF PtsTimer, TooLong, Asked, NothingCounted, knownVars
  <2> QED
    BY <1>0, <1>r, <2>1, DifferenceAsks DEF Tables
<1>7. CASE SeqTimer \/ MinTimer
  <2>1. Ready /\ UNCHANGED <<ptsVars, dropped, hand, active>>
    BY <1>7 DEF SeqTimer, MinTimer, Asked, NothingCounted, knownVars
  <2>2. CASE Difference("common")
    BY <1>0, <1>r, <2>1, <2>2, DifferenceAsks DEF Tables, Boxes
  <2>3. CASE /\ requesting["common"] /\ due' = [due EXCEPT !["common"] = FALSE] /\ ranOut' = TRUE
             /\ NoAsk /\ UNCHANGED <<waiting, shortPoll, failDue, seq, bySeq>>
    <3> USE DEF NoAsk, askVars, ptsVars
    <3>1. Tables'
      BY <1>0, <2>1, <2>3 DEF Tables
    <3>2. SeqHasTimer'
      BY <2>3 DEF SeqHasTimer
    <3>3. ASSUME NEW x \in Boxes PROVE Counted(x)' /\ GapHasTimer(x)' /\ Asking(x)'
      BY <1>0, <2>1, <2>3 DEF Tables, Counted, GapHasTimer, Asking, Inited
    <3>4. Returning'
      BY <1>r, <1>u, <2>1
    <3> QED
      BY <3>1, <3>2, <3>3, <3>4 DEF IInv
  <2> QED
    BY <1>7, <2>2, <2>3 DEF SeqTimer, MinTimer, Asked, Difference
<1>8. CASE \E k \in DOMAIN Log : UpdateReceived(k) \/ AnswerReceived(k)
  <2> PICK k \in DOMAIN Log : UpdateReceived(k) \/ AnswerReceived(k)
    BY <1>8
  <2>1. \/ UNCHANGED <<seqVars, hand>>
        \/ ApplyUpdates(k) /\ ~hand.busy
    BY DEF UpdateReceived, AnswerReceived, Ready
  <2>2. hand' \in Hands
    BY <1>0, <2>1, InHand DEF ApplyUpdates, Tables
  <2>5. hand'.back # "loop" => hand.back # "loop" /\ hand'.busy
    BY <1>0, <2>1 DEF ApplyUpdates, Returning, Tables, Hands
  <2>4. bySeq' \subseteq DOMAIN Log
    BY <1>0, <2>1 DEF ApplyUpdates, Tables, seqVars
  <2>3. SeqHasTimer'
    BY <1>0, <2>1 DEF ApplyUpdates, SeqHasTimer, NewSeq, seqVars
  <2> QED
    BY <2>2, <2>3, <2>4, <2>5, OnlySeq DEF UpdateReceived, AnswerReceived, askVars, knownVars
<1>9. CASE \E k \in DOMAIN Log : AffectedReceived(k)
  <2> PICK k \in DOMAIN Log : AffectedReceived(k)
    BY <1>9
  <2>1. Log[k].list \in Seq(Events) /\ Len(Log[k].list) = 1
    BY LogEntry, LogAssumption DEF AffectedReceived, Packets
  <2>2. Log[k].list[1] \in Events
    BY <2>1, EntryOfSeq
  <2>3. BoxOf[Log[k].list[1]] \in Boxes
    BY <2>2, EventsAssumption
  <2> QED
    BY <1>0, <2>3, OnlyUpdate DEF AffectedReceived, Tables, askVars
<1>10. CASE \E pts \in MerePts : PtsReceived(pts)
  <2> PICK pts \in MerePts : UpdateAndApply("channel", pts, 0, {}) /\
             UNCHANGED <<requesting, shortPoll, failDue, seqVars, hand, ask, active>>
    BY <1>10 DEF PtsReceived, askVars
  <2> QED
    BY <1>0, OnlyUpdate DEF Tables, Boxes
<1>11. CASE FeedUpdate
  <2> DEFINE e == Head(hand.list)
  <2>1. hand \in Hands /\ hand.list # <<>>
    BY <1>0, <1>11 DEF FeedUpdate, Tables
  <2>2. hand' \in Hands /\ hand'.seq = hand.seq /\ hand'.busy = hand.busy /\ hand'.back = hand.back
    BY <1>11, <2>1, RestOfSeq DEF FeedUpdate, Hands
  <2>3. \/ UpdateAndApply("common", PtsOf[e], CountOf[e], {e})
        \/ UpdateAndApply("channel", PtsOf[e], CountOf[e], {e})
        \/ UNCHANGED <<ptsVars, waiting, due, queue, knownVars>>
    BY <1>11 DEF FeedUpdate, FeedChannel
  <2>4. UNCHANGED <<requesting, shortPoll, failDue, seqVars, ask, active>>
    BY <1>11 DEF FeedUpdate, askVars
  <2>5. CASE UpdateAndApply("common", PtsOf[e], CountOf[e], {e})
    BY <2>2, <2>4, <2>5, OnlyUpdate DEF Boxes
  <2>6. CASE UpdateAndApply("channel", PtsOf[e], CountOf[e], {e})
    BY <2>2, <2>4, <2>6, OnlyUpdate DEF Boxes
  <2>7. CASE UNCHANGED <<ptsVars, waiting, due, queue, knownVars>>
    <3>1. SeqHasTimer' /\ bySeq' \subseteq DOMAIN Log
      BY <1>0, <2>2, <2>4 DEF SeqHasTimer, NewSeq, Tables, seqVars
    <3> QED
      BY <1>0, <2>2, <2>4, <2>7, <3>1, OnlySeq DEF waitVars, knownVars, Returning
  <2> QED
    BY <2>3, <2>5, <2>6, <2>7
<1>12. CASE FeedUnknown
  <2>1. hand \in Hands /\ hand.list # <<>>
    BY <1>0, <1>12 DEF FeedUnknown, Tables
  <2>2. hand' \in Hands /\ hand'.seq = hand.seq /\ hand'.busy = hand.busy /\ hand'.back = hand.back
    BY <1>12, <2>1, RestOfSeq DEF FeedUnknown, Hands
  <2>3. UNCHANGED <<ptsVars, dropped, active>> /\ hand.back = "loop"
    BY <1>0, <1>12 DEF FeedUnknown, NothingCounted, knownVars, Returning
  <2>4. CASE Difference("common")
    BY <2>2, <2>3, <2>4, DifferenceAsks DEF Boxes
  <2>5. CASE UNCHANGED <<waitVars, failDue, seqVars, ask>>
    <3>1. SeqHasTimer' /\ bySeq' \subseteq DOMAIN Log
      BY <1>0, <2>2, <2>5 DEF SeqHasTimer, NewSeq, Tables, seqVars
    <3> QED
      BY <2>2, <2>3, <2>5, <3>1, OnlySeq
  <2> QED
    BY <1>12, <2>4, <2>5 DEF FeedUnknown, Difference, askVars
<1>13. CASE TakeNext
  <2>1. PICK k \in bySeq : /\ Log[k].seq = hand.seq + 1
                           /\ hand' = [hand EXCEPT !.seq = Log[k].seq, !.list = Log[k].list]
    BY <1>13 DEF TakeNext, NextPackets
  <2>2. bySeq \subseteq DOMAIN Log /\ hand \in Hands
    BY <1>0 DEF Tables
  <2>3. hand' \in Hands /\ hand'.seq = hand.seq + 1 /\ hand'.busy /\ hand.seq \in Nat
    BY <1>13, <2>1, <2>2, InHand DEF Hands, TakeNext
  <2>4. bySeq' \subseteq DOMAIN Log /\ seq' = hand.seq
    BY <1>13, <2>2 DEF TakeNext, StillKept
  <2>5. SeqHasTimer'
    BY <2>3, <2>4 DEF SeqHasTimer, NewSeq
  <2> QED
    BY <1>13, <2>3, <2>4, <2>5, OnlySeq DEF TakeNext, knownVars, askVars
<1>14. CASE FinishUpdates
  <2>1. Nothing \in Hands /\ hand' = Nothing /\ hand \in Hands
    BY <1>0, <1>14 DEF FinishUpdates, Tables, Hands, Nothing
  <2>2. hand.back = "slice" => AskForRest
    BY <1>14 DEF FinishUpdates
  <2>3. hand.back # "slice" => KeepOthers(hand.seq) /\ UNCHANGED <<due, failDue>>
    BY <1>14, <2>1 DEF FinishUpdates, Hands
  <2>4. \/ UNCHANGED <<requesting, ask>>
        \/ /\ requesting' = [requesting EXCEPT !["common"] = FALSE] /\ RequestDone("common")
           /\ hand.back = "final"
    BY <1>14, <2>1 DEF FinishUpdates, Hands, AskForRest, askVars
  <2>5. bySeq' \subseteq DOMAIN Log /\ SeqHasTimer'
    BY <1>0, <2>1, <2>2, <2>3 DEF Tables, SeqHasTimer, KeepOthers, StillKept, AskForRest, NoneKept
  <2>6. Tables'
    BY <1>0, <1>14, <2>1, <2>2, <2>3, <2>4, <2>5
    DEF Tables, FinishUpdates, ptsVars, knownVars, AskForRest, RequestDone
  <2>7. UNCHANGED <<ptsVars, waiting, dropped>>
    BY <1>14 DEF FinishUpdates, knownVars
  <2>8. ASSUME NEW x \in Boxes, requesting'[x] = requesting[x]
        PROVE  Counted(x)' /\ GapHasTimer(x)' /\ Asking(x)'
    <3>1. CASE hand.back = "slice" /\ x = "common"
      BY <1>0, <2>2, <2>7, <2>8, <3>1
      DEF AskForRest, Counted, GapHasTimer, Asking, Inited, Returning, ptsVars
    <3>2. CASE ~(hand.back = "slice" /\ x = "common")
      <4>1. due'[x] = due[x] /\ failDue'[x] = failDue[x]
        BY <1>0, <2>2, <2>3, <3>2 DEF AskForRest, Tables
      <4>2. ask'[x] = ask[x]
        BY <1>0, <2>4, <2>8 DEF RequestDone, Tables, Returning, Boxes
      <4> QED
        BY <1>0, <2>7, <2>8, <4>1, <4>2 DEF Counted, GapHasTimer, Asking, Inited, ptsVars
    <3> QED
      BY <3>1, <3>2
  <2>9. ASSUME requesting' # requesting, NEW x \in Boxes, x = "common"
        PROVE  Counted(x)' /\ GapHasTimer(x)' /\ Asking(x)'
    BY <1>0, <2>4, <2>7, <2>9
    DEF RequestDone, Counted, GapHasTimer, Asking, Inited, Returning, Tables, ptsVars
  <2>10. ASSUME NEW x \in Boxes PROVE requesting'[x] = requesting[x] \/ x = "common"
    BY <1>0, <2>4 DEF Tables
  <2>11. Returning'
    BY <2>1 DEF Returning, Nothing
  <2> QED
    BY <2>5, <2>6, <2>8, <2>9, <2>10, <2>11 DEF IInv
<1>15. ASSUME NEW n \in 0..Len(Log), NEW pts, NEW back \in {"final", "slice"},
              SetState(n, pts, back), Ready, ask["common"] # "none"
       PROVE  IInv'
  <2> USE <1>15 DEF SetState, Start, seqVars, askVars
  <2>1. hand' \in Hands /\ hand'.busy
    BY ServerSeq DEF Hands
  <2>2. Tables'
    BY <1>0, <2>1 DEF Tables
  <2>3. SeqHasTimer'
    BY <1>0 DEF SeqHasTimer, NewSeq, Ready
  <2>4. ASSUME NEW x \in Boxes PROVE Counted(x)' /\ GapHasTimer(x)' /\ Asking(x)'
    BY <1>0 DEF Tables, Counted, GapHasTimer, Asking, Inited
  <2>5. Returning'
    BY <1>0, <2>1 DEF Returning, Asking, Boxes, Tables
  <2> QED
    BY <2>2, <2>3, <2>4, <2>5 DEF IInv
<1>20. CASE StateDone
  <2> DEFINE n == upTo["common"]
  <2>1. n \in 0..Len(Log)
    BY <1>20 DEF StateDone, Answered, Lengths, Boxes
  <2>2. SetState(n, PtsAt["common"][n], "final") /\ Ready /\ ask["common"] # "none"
    BY <1>20 DEF StateDone, Answered
  <2> HIDE DEF n
  <2> QED
    BY <1>15, <2>1, <2>2
<1>21. CASE AnyDifferenceDone
  <2> PICK n \in 0..Len(Log) : DifferenceDone(n)
    BY <1>21 DEF AnyDifferenceDone
  <2>1. Ready /\ ask["common"] # "none"
    BY DEF DifferenceDone, Answered
  <2> DEFINE pts == PtsAt["common"][SliceEnd(n, upTo["common"])]
  <2>2. SetState(n, pts, "slice") \/ SetState(n, pts, "final")
    BY DEF DifferenceDone
  <2> HIDE DEF pts
  <2> QED
    BY <1>15, <2>1, <2>2
<1>16. CASE AnyChannelDifferenceDone
  <2> PICK n \in 0..Len(Log), tooLong \in BOOLEAN : ChannelDifferenceDone(n, tooLong)
    BY <1>16 DEF AnyChannelDifferenceDone
  <2> USE DEF ChannelDifferenceDone, Start, RequestDone, Polled, StopPolling
  <2>1. Tables'
    <3>1. /\ DOMAIN good' = Boxes /\ DOMAIN last' = Boxes /\ DOMAIN count' = Boxes
          /\ UNCHANGED <<hand, bySeq, active, waiting>>
      BY <1>0 DEF Tables, seqVars
    <3>2. /\ dropped' \in [Boxes -> BOOLEAN] /\ failDue' \in [Boxes -> BOOLEAN]
          /\ shortPoll' \in [Boxes -> BOOLEAN] /\ due' \in [Boxes -> BOOLEAN]
      BY <1>0 DEF Tables
    <3>3. requesting' \in [Boxes -> BOOLEAN] /\ ask' \in [Boxes -> {"none", "state", "difference"}]
      BY <1>0 DEF Tables
    <3> QED
      BY <1>0, <3>1, <3>2, <3>3 DEF Tables
  <2>2. SeqHasTimer'
    BY <1>0 DEF SeqHasTimer, NewSeq, seqVars
  <2>3. ASSUME NEW x \in Boxes PROVE Counted(x)' /\ GapHasTimer(x)'
    <3>1. CASE x = "channel"
      <4>1. last'[x] = count'[x]
        BY <1>0, <3>1 DEF Tables
      <4> QED
        BY <4>1 DEF Counted, GapHasTimer
    <3>2. CASE x # "channel"
      <4>1. good'[x] = good[x] /\ last'[x] = last[x] /\ count'[x] = count[x]
        BY <1>0, <3>2 DEF Tables
      <4>2. requesting'[x] = requesting[x]
        BY <1>0, <3>2 DEF Tables
      <4>3. due'[x] = due[x]
        <5>1. \/ due' = [due EXCEPT !["channel"] = FALSE]
              \/ due' = [due EXCEPT !["channel"] = TRUE]
              \/ due' = [due EXCEPT !["channel"] = @ /\ waiting["channel"]]
          OBVIOUS
        <5> QED
          BY <1>0, <3>2, <5>1 DEF Tables
      <4>4. waiting' = waiting /\ dropped'[x] = dropped[x]
        BY <1>0, <3>2 DEF Tables
      <4> QED
        BY <1>0, <4>1, <4>2, <4>3, <4>4 DEF Counted, GapHasTimer, Inited
    <3> QED
      BY <3>1, <3>2
  <2>4. ASSUME NEW x \in Boxes PROVE Asking(x)'
    BY <1>0 DEF Tables, Asking
  <2>5. Returning'
    BY <1>r, <1>u DEF Answered
  <2> QED
    BY <2>1, <2>2, <2>3, <2>4, <2>5 DEF IInv
<1>17. CASE NewSession
  <2> USE <1>17 DEF NewSession, Ask, NoneKept, NoAsk, NothingCounted, ptsVars, knownVars, askVars
  <2>1. Tables'
    BY <1>0 DEF Tables
  <2>2. SeqHasTimer'
    BY <1>0 DEF SeqHasTimer, NewSeq, Ready
  <2>3. ASSUME NEW x \in Boxes PROVE Counted(x)' /\ GapHasTimer(x)' /\ Asking(x)'
    BY <1>0 DEF Tables, Counted, GapHasTimer, Asking, Inited
  <2>4. Returning'
    BY <1>r, <1>u
  <2> QED
    BY <2>1, <2>2, <2>3, <2>4 DEF IInv
<1>18. CASE ShowChannel
  <2> USE <1>18 DEF ShowChannel, NoAsk, NothingCounted, ptsVars, knownVars, askVars, seqVars
  <2>1. Tables'
    BY <1>0 DEF Tables
  <2>2. SeqHasTimer'
    BY <1>0 DEF SeqHasTimer, NewSeq
  <2>3. ASSUME NEW x \in Boxes PROVE Counted(x)' /\ GapHasTimer(x)' /\ Asking(x)'
    BY <1>0 DEF Tables, Counted, GapHasTimer, Asking, Inited
  <2>4. Returning'
    BY <1>r, <1>u
  <2> QED
    BY <2>1, <2>2, <2>3, <2>4 DEF IInv
<1>19. CASE \E closed \in BOOLEAN : HideChannel(closed)
  <2> USE <1>19 DEF HideChannel, StopPolling, NoAsk, NothingCounted, ptsVars, knownVars, askVars, seqVars
  <2>1. Tables'
    BY <1>0 DEF Tables
  <2>2. SeqHasTimer'
    BY <1>0 DEF SeqHasTimer, NewSeq
  <2>3. ASSUME NEW x \in Boxes PROVE Counted(x)' /\ GapHasTimer(x)' /\ Asking(x)'
    BY <1>0 DEF Tables, Counted, GapHasTimer, Asking, Inited
  <2>4. Returning'
    BY <1>r, <1>u
  <2> QED
    BY <2>1, <2>2, <2>3, <2>4 DEF IInv
<1> QED
  BY <1>1, <1>2, <1>3, <1>4, <1>5, <1>6, <1>7, <1>8, <1>9, <1>10, <1>11, <1>12, <1>13, <1>14,
     <1>16, <1>17, <1>18, <1>19, <1>20, <1>21 DEF Next

\* The inductive invariant holds in every reachable state.
THEOREM UpdatesInvariant == Spec => []IInv
<1>1. Init => Lengths
  BY LogAssumption DEF Init, Lengths
<1> QED
  BY <1>1, InitIInv, StepLengths, StepIInv, PTL DEF Spec

\* Whatever the server sends, answers or refuses: a box that believes that it asks
\* for the difference has a request on its way or a timer that will repeat it
\* (setRequesting, differenceFail, getDifferenceAfterFail).
THEOREM NeverStuck == Spec => []NoStuckRequest
<1>1. IInv => NoStuckRequest
  BY DEF IInv, Asking, NoStuckRequest
<1> QED
  BY <1>1, UpdatesInvariant, PTL

\* Whatever is missing, a timer will ask for it: no end of a short poll, of a wait or
\* of a packet stops the timer another one needs (checkForWaiting, setState).  Exempt
\* are a wait that a mere pts ended, and packets kept by seq whose timer ran out while
\* the difference was asked for.
THEOREM EveryGapIsTimed == Spec => []GapIsTimed
<1>1. IInv => GapIsTimed
  BY DEF IInv, GapHasTimer, SeqHasTimer, GapIsTimed, Ready
<1> QED
  BY <1>1, UpdatesInvariant, PTL
-----------------------------------------------------------------------------
\* The updates that packets may still bring: on the way, kept by seq, not sent yet.
ToCome == net \union bySeq \union (length + 1)..Len(Log)
InHandStill == {hand.list[i] : i \in DOMAIN hand.list}
Fresh == InHandStill \union UNION {EventsOf(k) : k \in ToCome}

\* Every packet is in one place.
Places ==
  /\ net \intersect bySeq = {} /\ net \union bySeq \subseteq 1..length
  /\ hand.list # <<>> => hand.busy
  /\ \A i, j \in DOMAIN hand.list : hand.list[i] = hand.list[j] => i = j
  /\ \A k \in ToCome : EventsOf(k) \intersect InHandStill = {}

\* setState goes through the packets kept, before it returns to the end of a difference.
Returns(b) == b = "common" /\ hand.back # "loop"

\* The numbers that updates take, and the pts that cut none in two.
Numbers(C) == UNION {(PtsOf[e] - CountOf[e] + 1)..PtsOf[e] : e \in C}
Boundary(b, p) ==
  \A e \in Events : BoxOf[e] = b /\ PtsOf[e] > p => PtsOf[e] - CountOf[e] >= p

\* A difference is asked for from the pts reached, which stays while it is asked for;
\* until setState returns the answer counts, from the pts it told.
AsksFromGood(b) ==
  /\ ask[b] # "none" => requesting[b]
  /\ ask[b] = "difference" /\ ~Returns(b) => askPts[b] = good[b]
  /\ Returns(b) => /\ hand.busy /\ requesting[b] /\ Boundary(b, good[b])
                   /\ last[b] = good[b] /\ count[b] = good[b]

\* What is kept waits.
Waits(b) == queue[b] # {} => waiting[b] /\ ~requesting[b] /\ Inited(b)

\* What the client did itself is applied before it is told the pts of it.
OwnApplied == \A k \in net : OwnEffect(k) \subseteq applied

\* The updates C are those counted since the pts good[b] was reached.
CountedIs(b, C) ==
  /\ \A e \in C : BoxOf[e] = b /\ good[b] < PtsOf[e] /\ PtsOf[e] =< last[b]
  /\ queue[b] \subseteq C /\ C \subseteq queue[b] \union applied
  /\ C \intersect Fresh = {}
  /\ count[b] = good[b] + Cardinality(Numbers(C))

CountingOf(b) ==
  ~requesting[b] /\ Inited(b) =>
    /\ Boundary(b, good[b]) /\ good[b] =< last[b]
    /\ \E C \in SUBSET Events : CountedIs(b, C)

\* Nothing of a box is skipped.
KnownOf(b) == \A e \in Events : BoxOf[e] = b /\ PtsOf[e] =< good[b] => Known(e)

OInv ==
  /\ TypeOK /\ Places /\ OwnApplied
  /\ \A b \in Boxes : AsksFromGood(b) /\ Waits(b) /\ CountingOf(b) /\ KnownOf(b)

-----------------------------------------------------------------------------
(* Numbers of updates *)

LEMMA EventTypes ==
  ASSUME NEW e \in Events
  PROVE  /\ BoxOf[e] \in Boxes /\ PtsOf[e] \in Nat /\ CountOf[e] \in Nat /\ CountOf[e] > 0
         /\ PtsOf[e] - CountOf[e] >= 1
<1>1. BoxOf[e] \in Boxes /\ PtsOf[e] \in Nat /\ CountOf[e] \in Nat /\ CountOf[e] > 0
  BY EventsAssumption
<1>2. ASSUME NEW f \in Events, PtsOf[f] = PtsOf[e] - CountOf[e] PROVE PtsOf[f] >= 1
  <2>1. PtsOf[f] \in Nat /\ CountOf[f] \in Nat /\ CountOf[f] > 0
    BY EventsAssumption
  <2>2. PtsOf[f] = 1 + CountOf[f] \/ \E g \in Events : PtsOf[g] \in Nat /\ PtsOf[g] = PtsOf[f] - CountOf[f]
    BY EventsAssumption
  <2> QED
    BY <2>1, <2>2
<1>3. PtsOf[e] = 1 + CountOf[e] \/ \E f \in Events : PtsOf[f] = PtsOf[e] - CountOf[e]
  BY EventsAssumption
<1> QED
  BY <1>1, <1>2, <1>3

LEMMA FirstBoundary == \A b \in Boxes : Boundary(b, 1)
  BY EventTypes DEF Boundary

LEMMA EventBoundary == \A e \in Events : Boundary(BoxOf[e], PtsOf[e])
<1> SUFFICES ASSUME NEW e \in Events, NEW f \in Events, BoxOf[f] = BoxOf[e], PtsOf[f] > PtsOf[e]
             PROVE  PtsOf[f] - CountOf[f] >= PtsOf[e]
  BY DEF Boundary
<1>1. /\ PtsOf[e] \in Nat /\ PtsOf[f] \in Nat /\ CountOf[f] \in Nat
  BY EventTypes
<1>2. e # f /\ PtsOf[e] =< PtsOf[f]
  BY <1>1
<1>3. PtsOf[e] =< PtsOf[f] - CountOf[f]
  BY <1>2, EventsAssumption
<1> QED
  BY <1>1, <1>3

LEMMA MereBoundary ==
  ASSUME NEW pts \in MerePts PROVE pts \in Nat /\ pts > 0 /\ Boundary("channel", pts)
<1>1. pts \in Nat /\ pts > 0
  BY BoundAssumption
<1>2. pts = 1 \/ \E e \in Events : BoxOf[e] = "channel" /\ pts = PtsOf[e]
  BY MereAssumption
<1> QED
  BY <1>1, <1>2, FirstBoundary, EventBoundary DEF Boxes

LEMMA EventsInLog == ASSUME NEW k \in DOMAIN Log PROVE EventsOf(k) \subseteq Events
<1>1. Log[k].list \in Seq(Events)
  BY LogEntry DEF Packets
<1> QED
  BY <1>1, EntryOfSeq DEF EventsOf

\* The pts that the server tells are 1 or of an update.
LEMMA ServerPts ==
  ASSUME NEW b \in Boxes, NEW n \in 0..Len(Log)
  PROVE  PtsAt[b][n] \in Nat /\ PtsAt[b][n] > 0 /\ Boundary(b, PtsAt[b][n])
<1> DEFINE E == {x \in EventsIn(n) : BoxOf[x] = b}
           P == {1} \union {PtsOf[e] : e \in E}
<1>1. E \subseteq Events
  <2>1. \A k \in 1..n : k \in DOMAIN Log
    BY LogAssumption
  <2> QED
    BY <2>1, EventsInLog DEF EventsIn
<1>2. PtsAt[b][n] = CHOOSE p \in P : \A q \in P : q =< p
  BY DEF PtsAt
<1>3. \E p \in P : \A q \in P : q =< p
  <2>1. CASE E = {}
    BY <2>1
  <2>2. CASE E # {}
    <3> DEFINE f == [e \in E |-> PtsOf[e]]
    <3>1. IsFiniteSet(E) /\ f \in [E -> Int]
      BY <1>1, EventsAssumption, FS_Subset, EventTypes
    <3>2. PICK e \in E : \A x \in E : f[x] =< f[e]
      <4> HIDE DEF E, f
      <4> QED
        BY <2>2, <3>1, Greatest
    <3>3. PtsOf[e] \in P /\ 1 =< PtsOf[e] /\ \A x \in E : PtsOf[x] =< PtsOf[e]
      <4>1. \A x \in E : PtsOf[x] =< PtsOf[e]
        BY <3>2
      <4>2. e \in Events /\ PtsOf[e] \in P
        BY <1>1
      <4> HIDE DEF E, P, f
      <4>3. 1 =< PtsOf[e]
        BY <4>2, EventTypes
      <4> QED
        BY <4>1, <4>2, <4>3
    <3>4. ASSUME NEW q \in P PROVE q =< PtsOf[e]
      <4>1. q = 1 \/ \E x \in E : q = PtsOf[x]
        OBVIOUS
      <4> HIDE DEF E, P
      <4> QED
        BY <3>3, <4>1
    <3> HIDE DEF P
    <3> QED
      BY <3>3, <3>4
  <2> QED
    BY <2>1, <2>2
<1>4. PtsAt[b][n] \in P
  <2> HIDE DEF P
  <2> QED
    BY <1>2, <1>3
<1>5. PtsAt[b][n] = 1 \/ \E e \in Events : BoxOf[e] = b /\ PtsAt[b][n] = PtsOf[e]
  BY <1>1, <1>4
<1> HIDE DEF E, P
<1>6. CASE PtsAt[b][n] = 1
  BY <1>6, FirstBoundary
<1>7. ASSUME NEW e \in Events, BoxOf[e] = b, PtsAt[b][n] = PtsOf[e]
      PROVE  PtsAt[b][n] \in Nat /\ PtsAt[b][n] > 0 /\ Boundary(b, PtsAt[b][n])
  <2>1. Boundary(b, PtsOf[e])
    BY <1>7, EventBoundary
  <2>2. PtsOf[e] \in Nat /\ PtsOf[e] > 0
    BY EventTypes
  <2> QED
    BY <1>7, <2>1, <2>2
<1> QED
  BY <1>5, <1>6, <1>7

NumbersOf(e) == (PtsOf[e] - CountOf[e] + 1)..PtsOf[e]

LEMMA NumbersAdded ==
  ASSUME NEW C \in SUBSET Events, NEW e \in Events, e \notin C, \A f \in C : BoxOf[f] = BoxOf[e],
         IsFiniteSet(Numbers(C))
  PROVE  /\ Numbers(C \union {e}) = Numbers(C) \union NumbersOf(e)
         /\ Cardinality(Numbers(C \union {e})) = Cardinality(Numbers(C)) + CountOf[e]
<1> DEFINE I == NumbersOf(e)
<1>0. PtsOf[e] \in Nat /\ CountOf[e] \in Nat /\ CountOf[e] > 0
  BY EventTypes
<1>1. Numbers(C \union {e}) = Numbers(C) \union I
  BY DEF Numbers, NumbersOf
<1>2. IsFiniteSet(I) /\ Cardinality(I) = CountOf[e]
  <2>1. PtsOf[e] - CountOf[e] + 1 \in Int /\ PtsOf[e] \in Int
    BY <1>0
  <2>2. IsFiniteSet(I) /\ Cardinality(I) = IF PtsOf[e] - CountOf[e] + 1 > PtsOf[e] THEN 0
                                           ELSE PtsOf[e] - (PtsOf[e] - CountOf[e] + 1) + 1
    BY <2>1, FS_Interval DEF NumbersOf
  <2> QED
    BY <1>0, <2>2
<1>3. Numbers(C) \intersect I = {}
  <2> SUFFICES ASSUME NEW f \in C, NEW x \in NumbersOf(f), x \in I PROVE FALSE
    BY DEF Numbers, NumbersOf
  <2>1. f \in Events /\ f # e /\ BoxOf[f] = BoxOf[e] /\ PtsOf[f] \in Nat /\ CountOf[f] \in Nat
    BY EventTypes
  <2>2. PtsOf[f] =< PtsOf[e] - CountOf[e] \/ PtsOf[e] =< PtsOf[f] - CountOf[f]
    BY <1>0, <2>1, EventsAssumption
  <2> QED
    BY <1>0, <2>1, <2>2 DEF NumbersOf
<1>4. Cardinality(Numbers(C) \union I) = Cardinality(Numbers(C)) + Cardinality(I) - Cardinality(Numbers(C) \intersect I)
  BY <1>2, FS_Union
<1>5. Cardinality(Numbers(C) \intersect I) = 0 /\ Cardinality(Numbers(C)) \in Nat
  BY <1>3, FS_EmptySet, FS_CardinalityType
<1> HIDE DEF I
<1>6. Cardinality(Numbers(C) \union I) = Cardinality(Numbers(C)) + CountOf[e]
  BY <1>0, <1>2, <1>4, <1>5
<1>7. /\ Numbers(C \union {e}) = Numbers(C) \union I
      /\ Cardinality(Numbers(C \union {e})) = Cardinality(Numbers(C)) + CountOf[e]
  BY <1>1, <1>6
<1> QED
  BY <1>7 DEF I

\* Updates of a box between two pts, of which the first cuts none in two.
Span(b, lo, hi, C) ==
  /\ C \in SUBSET Events /\ lo \in Nat /\ hi \in Nat /\ lo =< hi /\ Boundary(b, lo)
  /\ \A e \in C : BoxOf[e] = b /\ lo < PtsOf[e] /\ PtsOf[e] =< hi

LEMMA NumbersBetween ==
  ASSUME NEW b, NEW lo, NEW hi, NEW C, Span(b, lo, hi, C)
  PROVE  /\ Numbers(C) \subseteq (lo + 1)..hi /\ IsFiniteSet(Numbers(C))
         /\ Cardinality(Numbers(C)) \in Nat
<1>1. Numbers(C) \subseteq (lo + 1)..hi
  <2> SUFFICES ASSUME NEW e \in C, NEW x \in NumbersOf(e) PROVE x \in (lo + 1)..hi
    BY DEF Numbers, NumbersOf
  <2>1. /\ e \in Events /\ lo \in Nat /\ hi \in Nat /\ PtsOf[e] \in Nat /\ CountOf[e] \in Nat
        /\ PtsOf[e] =< hi /\ PtsOf[e] - CountOf[e] >= lo
    BY EventTypes DEF Span, Boundary
  <2> QED
    BY <2>1 DEF NumbersOf
<1>2. IsFiniteSet((lo + 1)..hi)
  <2>1. lo + 1 \in Int /\ hi \in Int
    BY DEF Span
  <2> QED
    BY <2>1, FS_Interval
<1>3. IsFiniteSet(Numbers(C))
  BY <1>1, <1>2, FS_Subset
<1> QED
  BY <1>1, <1>3, FS_CardinalityType

\* When the count comes out nothing is missing, and the pts cuts no update in two.
LEMMA CountComesOut ==
  ASSUME NEW b, NEW lo, NEW hi, NEW C, Span(b, lo, hi, C), hi = lo + Cardinality(Numbers(C))
  PROVE  /\ \A e \in Events : BoxOf[e] = b /\ lo < PtsOf[e] /\ PtsOf[e] =< hi => e \in C
         /\ Boundary(b, hi)
<1>1. lo \in Nat /\ hi \in Nat /\ C \subseteq Events /\ Boundary(b, lo) /\ lo =< hi
  BY DEF Span
<1>2. IsFiniteSet((lo + 1)..hi) /\ Cardinality((lo + 1)..hi) = hi - lo
  <2>1. lo + 1 \in Int /\ hi \in Int
    BY <1>1
  <2>2. IsFiniteSet((lo + 1)..hi)
        /\ Cardinality((lo + 1)..hi) = IF lo + 1 > hi THEN 0 ELSE hi - (lo + 1) + 1
    BY <2>1, FS_Interval
  <2> QED
    BY <1>1, <2>2
<1>3. Numbers(C) = (lo + 1)..hi
  <2>1. Numbers(C) \in SUBSET ((lo + 1)..hi) /\ Cardinality(Numbers(C)) \in Nat
    BY NumbersBetween
  <2>2. Cardinality((lo + 1)..hi) = Cardinality(Numbers(C))
    BY <1>1, <1>2, <2>1
  <2> QED
    BY <1>2, <2>1, <2>2, FS_Subset
<1>4. ASSUME NEW p \in (lo + 1)..hi
      PROVE  \E e \in C : PtsOf[e] - CountOf[e] + 1 =< p /\ p =< PtsOf[e]
  <2>1. PICK e \in C : p \in NumbersOf(e)
    BY <1>3 DEF Numbers, NumbersOf
  <2>2. PtsOf[e] \in Nat /\ CountOf[e] \in Nat
    BY <1>1, EventTypes
  <2> QED
    BY <2>1, <2>2 DEF NumbersOf
<1>5. ASSUME NEW e \in Events, BoxOf[e] = b, lo < PtsOf[e], PtsOf[e] =< hi PROVE e \in C
  <2>1. PtsOf[e] \in Nat /\ PtsOf[e] \in (lo + 1)..hi
    BY <1>1, <1>5, EventTypes
  <2>2. PICK f \in C : PtsOf[f] - CountOf[f] + 1 =< PtsOf[e] /\ PtsOf[e] =< PtsOf[f]
    BY <1>4, <2>1
  <2>3. f \in Events /\ BoxOf[f] = b /\ PtsOf[f] \in Nat /\ CountOf[f] \in Nat
    BY <1>1, EventTypes DEF Span
  <2>4. e # f => PtsOf[e] =< PtsOf[f] - CountOf[f]
    BY <1>5, <2>2, <2>3, EventsAssumption
  <2> QED
    BY <2>1, <2>2, <2>3, <2>4
<1>6. Boundary(b, hi)
  <2>1. CASE hi = lo
    BY <1>1, <2>1
  <2>2. CASE hi # lo
    <3>1. hi \in (lo + 1)..hi
      BY <1>1, <2>2
    <3>2. PICK f \in C : hi =< PtsOf[f]
      BY <1>4, <3>1
    <3>3. f \in Events /\ BoxOf[f] = b /\ PtsOf[f] \in Nat /\ PtsOf[f] =< hi
      BY <1>1, EventTypes DEF Span
    <3>4. PtsOf[f] = hi
      BY <1>1, <3>2, <3>3
    <3> QED
      BY <3>3, <3>4, EventBoundary
  <2> QED
    BY <2>1, <2>2
<1> QED
  BY <1>5, <1>6

-----------------------------------------------------------------------------
(* updateAndApply *)

LEMMA ApplyEffect ==
  ASSUME TypeOK, NEW b \in Boxes, Waits(b), NEW new, Apply(b, new)
  PROVE  /\ queue' = [queue EXCEPT ![b] = {}] /\ applied' = applied \union queue[b] \union new
         /\ waiting' \in [Boxes -> BOOLEAN] /\ due' \in [Boxes -> BOOLEAN]
         /\ \A x \in Boxes \ {b} : waiting'[x] = waiting[x]
<1>1. /\ queue \in [Boxes -> SUBSET Events] /\ waiting \in [Boxes -> BOOLEAN]
      /\ due \in [Boxes -> BOOLEAN] /\ shortPoll \in [Boxes -> BOOLEAN]
      /\ queue[b] # {} => waiting[b]
  BY DEF TypeOK, Waits
<1>2. CASE waiting[b] /\ (queue[b] # {} \/ new = {})
  BY <1>1, <1>2 DEF Apply, ApplySkipped
<1>3. CASE ~(waiting[b] /\ (queue[b] # {} \/ new = {}))
  BY <1>1, <1>3 DEF Apply
<1> QED
  BY <1>2, <1>3

\* What is told: an update that came now, with what is applied of it, or a mere pts.
Tells(b, pts, n, new) ==
  /\ pts \in Nat /\ pts > 0 /\ Boundary(b, pts)
  /\ \/ n = 0 /\ new = {}
     \/ \E e \in Fresh \ Fresh' :
          /\ e \in Events /\ BoxOf[e] = b /\ pts = PtsOf[e] /\ n = CountOf[e]
          /\ new = {e} \/ (new = {} /\ e \in applied)

LEMMA TellsTypes ==
  ASSUME NEW b, NEW pts, NEW n, NEW new, Tells(b, pts, n, new), TypeOK
  PROVE  pts \in Nat /\ n \in Nat /\ new \in SUBSET Events
  BY EventTypes DEF Tells, TypeOK

LEMMA UpdateTypes ==
  ASSUME TypeOK, NEW b \in Boxes, Waits(b), NEW pts \in Nat, NEW n \in Nat, NEW new \in SUBSET Events,
         UpdateAndApply(b, pts, n, new)
  PROVE  /\ good' \in [Boxes -> Nat] /\ last' \in [Boxes -> Nat] /\ count' \in [Boxes -> Nat]
         /\ queue' \in [Boxes -> SUBSET Events] /\ waiting' \in [Boxes -> BOOLEAN]
         /\ due' \in [Boxes -> BOOLEAN] /\ applied' \subseteq Events /\ applied \subseteq applied'
         /\ base' \in [Boxes -> Nat] /\ dropped' \in [Boxes -> BOOLEAN]
         /\ \A x \in Boxes : requesting[x] => queue'[x] = {}
<1>1. /\ good \in [Boxes -> Nat] /\ last \in [Boxes -> Nat] /\ count \in [Boxes -> Nat]
      /\ queue \in [Boxes -> SUBSET Events] /\ waiting \in [Boxes -> BOOLEAN]
      /\ due \in [Boxes -> BOOLEAN] /\ applied \subseteq Events /\ base \in [Boxes -> Nat]
      /\ dropped \in [Boxes -> BOOLEAN] /\ shortPoll \in [Boxes -> BOOLEAN]
      /\ \A x \in Boxes : requesting[x] => queue[x] = {}
  BY DEF TypeOK
<1>2. Apply(b, new) =>
      /\ queue' = [queue EXCEPT ![b] = {}] /\ applied' = applied \union queue[b] \union new
      /\ waiting' \in [Boxes -> BOOLEAN] /\ due' \in [Boxes -> BOOLEAN]
  BY ApplyEffect
<1>3. LastWith(b, pts) \in Nat
  BY <1>1 DEF LastWith
<1>4. CASE Uncounted(b) /\ Apply(b, new) /\ UNCHANGED <<ptsVars, base, dropped>>
  BY <1>1, <1>2, <1>4 DEF ptsVars
<1>5. CASE UNCHANGED <<ptsVars, waiting, due, queue, knownVars>>
  BY <1>1, <1>5 DEF ptsVars, knownVars
<1>6. CASE Start(b, pts) /\ base' = [base EXCEPT ![b] = pts] /\ Apply(b, new) /\ UNCHANGED dropped
  BY <1>1, <1>2, <1>6 DEF Start
<1>7. CASE /\ last' = [last EXCEPT ![b] = LastWith(b, pts)] /\ count' = [count EXCEPT ![b] = @ + n]
           /\ UNCHANGED base /\ good' = [good EXCEPT ![b] = last'[b]]
           /\ Apply(b, new) /\ dropped' = [dropped EXCEPT ![b] = FALSE]
  BY <1>1, <1>2, <1>3, <1>7
<1>8. CASE /\ last' = [last EXCEPT ![b] = LastWith(b, pts)] /\ count' = [count EXCEPT ![b] = @ + n]
           /\ ~requesting[b] /\ UNCHANGED <<base, good, applied, dropped>>
           /\ waiting' = [waiting EXCEPT ![b] = TRUE] /\ due' = [due EXCEPT ![b] = TRUE]
           /\ queue' = [queue EXCEPT ![b] = @ \union new]
  BY <1>1, <1>3, <1>8
<1>9. CASE /\ last' = [last EXCEPT ![b] = LastWith(b, pts)] /\ count' = [count EXCEPT ![b] = @ + n]
           /\ UNCHANGED <<base, good>> /\ ApplySkipped(b, new, TRUE)
           /\ dropped' = [dropped EXCEPT ![b] = TRUE]
  BY <1>1, <1>3, <1>9 DEF ApplySkipped
<1> QED
  BY <1>4, <1>5, <1>6, <1>7, <1>8, <1>9 DEF UpdateAndApply, Uncounted

\* The other box is left alone.
LEMMA UpdateElsewhere ==
  ASSUME TypeOK, NEW b \in Boxes, Waits(b), NEW pts, NEW n, NEW new,
         UpdateAndApply(b, pts, n, new), NEW x \in Boxes, x # b
  PROVE  /\ good'[x] = good[x] /\ last'[x] = last[x] /\ count'[x] = count[x] /\ base'[x] = base[x]
         /\ queue'[x] = queue[x] /\ waiting'[x] = waiting[x]
<1>1. Apply(b, new) => queue' = [queue EXCEPT ![b] = {}] /\ waiting'[x] = waiting[x]
  BY ApplyEffect
<1>0. queue \in [Boxes -> SUBSET Events] /\ waiting \in [Boxes -> BOOLEAN]
  BY DEF TypeOK
<1>2. queue'[x] = queue[x] /\ waiting'[x] = waiting[x]
  <2>1. \/ Apply(b, new) \/ ApplySkipped(b, new, TRUE) \/ UNCHANGED <<waiting, queue>>
        \/ waiting' = [waiting EXCEPT ![b] = TRUE] /\ queue' = [queue EXCEPT ![b] = @ \union new]
    BY DEF UpdateAndApply
  <2> QED
    BY <1>0, <1>1, <2>1 DEF ApplySkipped
<1>3. good'[x] = good[x] /\ last'[x] = last[x] /\ count'[x] = count[x] /\ base'[x] = base[x]
  BY DEF TypeOK, UpdateAndApply, Start, ptsVars, knownVars
<1> QED
  BY <1>2, <1>3

-----------------------------------------------------------------------------
(* What is counted, after a step *)

\* A box whose pts stay.
LEMMA CountingStays ==
  ASSUME NEW b \in Boxes, CountingOf(b), applied \subseteq applied', Fresh' \subseteq Fresh,
         good'[b] = good[b], last'[b] = last[b], count'[b] = count[b], queue'[b] = queue[b],
         requesting[b] => requesting'[b]
  PROVE  CountingOf(b)'
<1>1. \A C \in SUBSET Events : CountedIs(b, C) => CountedIs(b, C)'
  BY DEF CountedIs
<1> QED
  BY <1>1 DEF CountingOf, Inited, Boundary

\* A box that starts at a pts.
LEMMA CountingStarts ==
  ASSUME NEW b \in Boxes, NEW pts \in Nat, Boundary(b, pts),
         good'[b] = pts, last'[b] = pts, count'[b] = pts, queue'[b] = {}
  PROVE  CountingOf(b)'
<1>1. Numbers({}) = {}
  BY DEF Numbers
<1>2. CountedIs(b, {})'
  BY <1>1, FS_EmptySet DEF CountedIs
<1>3. \E C \in SUBSET Events : CountedIs(b, C)'
  BY <1>2
<1> QED
  BY <1>3 DEF CountingOf, Boundary

LEMMA CountingAsked == ASSUME NEW b, requesting'[b] PROVE CountingOf(b)'
  BY DEF CountingOf

\* What is known stays known.
LEMMA KnownStays ==
  ASSUME NEW b \in Boxes, KnownOf(b), applied \subseteq applied', good'[b] = good[b], base'[b] = base[b]
  PROVE  KnownOf(b)'
  BY DEF KnownOf, Known

\* Where setState returns to stays what it was.
BackStays == hand'.back = hand.back /\ (hand.busy => hand'.busy)

\* A box whose pts stay, and that asks for the difference or does not.
LEMMA BoxStays ==
  ASSUME NEW b \in Boxes, AsksFromGood(b), Waits(b), CountingOf(b), KnownOf(b),
         applied \subseteq applied', Fresh' \subseteq Fresh, good'[b] = good[b], last'[b] = last[b],
         count'[b] = count[b], base'[b] = base[b], waiting'[b] = waiting[b], BackStays,
         \/ /\ queue'[b] = queue[b] /\ requesting'[b] = requesting[b]
            /\ ask'[b] = "none" \/ (ask'[b] = ask[b] /\ askPts'[b] = askPts[b])
         \/ queue'[b] = {} /\ requesting'[b] /\ askPts'[b] = good[b]
  PROVE  AsksFromGood(b)' /\ Waits(b)' /\ CountingOf(b)' /\ KnownOf(b)'
<1>1. AsksFromGood(b)' /\ Waits(b)'
  BY DEF AsksFromGood, Waits, Inited, BackStays, Returns, Boundary
<1>2. KnownOf(b)'
  BY KnownStays
<1>3. CountingOf(b)'
  BY CountingStays, CountingAsked
<1> QED
  BY <1>1, <1>2, <1>3

\* A box that stands at the pts that an answer told.
LEMMA BoxStarts ==
  ASSUME NEW b \in Boxes, NEW pts \in Nat, Boundary(b, pts), KnownOf(b)', AsksFromGood(b)',
         good'[b] = pts, last'[b] = pts, count'[b] = pts, queue'[b] = {}
  PROVE  AsksFromGood(b)' /\ Waits(b)' /\ CountingOf(b)' /\ KnownOf(b)'
  BY CountingStarts DEF Waits

\* What updateAndApply does with the counting of its box.
LEMMA UpdateCounts ==
  ASSUME TypeOK, NEW b \in Boxes, Waits(b), CountingOf(b), KnownOf(b),
         NEW pts, NEW n, NEW new, Tells(b, pts, n, new), UpdateAndApply(b, pts, n, new),
         requesting' = requesting, Fresh' \subseteq Fresh
  PROVE  /\ CountingOf(b)' /\ KnownOf(b)'
         /\ queue'[b] # {} => waiting'[b] /\ ~requesting'[b] /\ Inited(b)'
         /\ \A e \in applied' \ applied :
              BoxOf[e] = b /\ (~requesting[b] /\ ~dropped'[b] => PtsOf[e] =< good'[b])
<1>0. pts \in Nat /\ pts > 0 /\ n \in Nat /\ new \in SUBSET Events /\ Boundary(b, pts)
  BY TellsTypes DEF Tells
<1>1. /\ good \in [Boxes -> Nat] /\ last \in [Boxes -> Nat] /\ count \in [Boxes -> Nat]
      /\ queue \in [Boxes -> SUBSET Events] /\ waiting \in [Boxes -> BOOLEAN]
      /\ applied \subseteq Events /\ base \in [Boxes -> Nat]
      /\ dropped \in [Boxes -> BOOLEAN] /\ requesting \in [Boxes -> BOOLEAN]
      /\ requesting[b] => queue[b] = {}
      /\ queue[b] # {} => waiting[b] /\ ~requesting[b] /\ Inited(b)
  BY DEF TypeOK, Waits
<1>2. Apply(b, new) =>
      /\ queue' = [queue EXCEPT ![b] = {}] /\ applied' = applied \union queue[b] \union new
  BY ApplyEffect
<1>3. applied \subseteq applied' /\ good' \in [Boxes -> Nat] /\ last' \in [Boxes -> Nat]
  BY <1>0, UpdateTypes
<1>4. \A e \in new : BoxOf[e] = b /\ PtsOf[e] = pts
  BY DEF Tells
<1>5. LastWith(b, pts) \in Nat /\ pts =< LastWith(b, pts) /\ last[b] =< LastWith(b, pts)
      /\ (LastWith(b, pts) = pts \/ LastWith(b, pts) = last[b])
  BY <1>0, <1>1 DEF LastWith
\* While the difference is asked for.
<1>6. CASE Uncounted(b) /\ Apply(b, new) /\ UNCHANGED <<ptsVars, base, dropped>>
  <2>1. requesting'[b] /\ requesting[b] /\ queue'[b] = {}
    BY <1>1, <1>2, <1>6 DEF Uncounted
  <2>2. KnownOf(b)'
    BY <1>3, <1>6, KnownStays DEF ptsVars
  <2>3. \A e \in applied' \ applied : BoxOf[e] = b
    BY <1>1, <1>2, <1>4, <1>6, <2>1
  <2> QED
    BY <2>1, <2>2, <2>3, CountingAsked
\* An old one.
<1>7. CASE UNCHANGED <<ptsVars, waiting, due, queue, knownVars>>
  <2>1. CountingOf(b)' /\ KnownOf(b)'
    BY <1>3, <1>7, CountingStays, KnownStays DEF ptsVars, knownVars
  <2> QED
    BY <1>1, <1>7, <2>1 DEF ptsVars, knownVars, Inited
\* The first one of a channel.
<1>8. CASE /\ ~Inited(b) /\ Start(b, pts) /\ base' = [base EXCEPT ![b] = pts] /\ Apply(b, new)
  <2>1. good'[b] = pts /\ last'[b] = pts /\ count'[b] = pts /\ queue'[b] = {} /\ base'[b] = pts
    BY <1>1, <1>2, <1>8 DEF Start
  <2>2. CountingOf(b)'
    BY <1>0, <2>1, CountingStarts
  <2>3. KnownOf(b)'
    BY <1>0, <2>1 DEF KnownOf, Known
  <2>4. applied' = applied \union new
    BY <1>1, <1>2, <1>8
  <2> QED
    BY <1>0, <1>4, <2>1, <2>2, <2>3, <2>4
\* One that is counted.
<1>9. ASSUME ~requesting[b], ~Old(b, pts, n), Inited(b),
             last' = [last EXCEPT ![b] = LastWith(b, pts)], count' = [count EXCEPT ![b] = @ + n],
             base' = base
      PROVE  \E C \in SUBSET {e \in Events : BoxOf[e] = b /\ good[b] < PtsOf[e] /\ PtsOf[e] =< last'[b]} :
               /\ queue[b] \union new \subseteq C /\ C \subseteq queue[b] \union new \union applied
               /\ C \intersect Fresh' = {}
               /\ count'[b] = good[b] + Cardinality(Numbers(C))
               /\ Span(b, good[b], last'[b], C)
  <2> DEFINE D == {e \in Events : BoxOf[e] = b /\ good[b] < PtsOf[e] /\ PtsOf[e] =< last'[b]}
  <2>1. Boundary(b, good[b]) /\ good[b] =< last[b]
    BY <1>9 DEF CountingOf
  <2>2. PICK C \in SUBSET Events : CountedIs(b, C)
    BY <1>9 DEF CountingOf
  <2>3. last'[b] = LastWith(b, pts) /\ count'[b] = count[b] + n /\ count[b] \in Nat
        /\ good[b] \in Nat /\ last[b] \in Nat /\ last'[b] \in Nat /\ count[b] = good[b] + Cardinality(Numbers(C))
    BY <1>1, <1>5, <1>9, <2>2 DEF CountedIs
  <2>4. Span(b, good[b], last[b], C)
    BY <2>1, <2>2, <2>3 DEF Span, CountedIs
  <2>5. Cardinality(Numbers(C)) \in Nat /\ IsFiniteSet(Numbers(C))
    BY <2>4, NumbersBetween
  <2>6. C \in SUBSET D
    BY <1>5, <2>2, <2>3, EventTypes DEF CountedIs
  <2>7. Span(b, good[b], last'[b], C)
    BY <1>5, <2>1, <2>3, <2>6 DEF Span
  <2>8. CASE n = 0 /\ new = {}
    <3>1. count'[b] = good[b] + Cardinality(Numbers(C))
      BY <2>3, <2>5, <2>8
    <3> QED
      BY <2>2, <2>6, <2>7, <2>8, <3>1 DEF CountedIs
  <2>9. ASSUME NEW e \in Fresh \ Fresh', e \in Events, BoxOf[e] = b, pts = PtsOf[e], n = CountOf[e],
               new = {e} \/ (new = {} /\ e \in applied)
        PROVE  \E B \in SUBSET D :
                 /\ queue[b] \union new \subseteq B /\ B \subseteq queue[b] \union new \union applied
                 /\ B \intersect Fresh' = {}
                 /\ count'[b] = good[b] + Cardinality(Numbers(B))
                 /\ Span(b, good[b], last'[b], B)
    <3> DEFINE B == C \union {e}
    <3>1. e \notin C /\ \A f \in C : BoxOf[f] = BoxOf[e]
      BY <2>2, <2>9 DEF CountedIs
    <3>2. Cardinality(Numbers(B)) = Cardinality(Numbers(C)) + CountOf[e] /\ CountOf[e] \in Nat /\ CountOf[e] > 0
      BY <2>2, <2>5, <2>9, <3>1, NumbersAdded, EventTypes
    <3>3. good[b] < PtsOf[e] /\ PtsOf[e] =< last'[b]
      BY <1>0, <1>5, <1>9, <2>3, <2>9, <3>2 DEF Old
    <3>4. B \in SUBSET D
      BY <1>0, <2>3, <2>6, <2>9, <3>3
    <3>5. count'[b] = good[b] + Cardinality(Numbers(B))
      BY <2>3, <2>5, <2>9, <3>2
    <3>6. Span(b, good[b], last'[b], B)
      BY <2>7, <2>9, <3>4 DEF Span
    <3>7. /\ queue[b] \union new \subseteq B /\ B \subseteq queue[b] \union new \union applied
          /\ B \intersect Fresh' = {}
      BY <2>2, <2>9 DEF CountedIs
    <3> QED
      BY <3>4, <3>5, <3>6, <3>7
  <2> QED
    BY <2>8, <2>9 DEF Tells
<1>10. CASE /\ ~requesting[b] /\ ~Old(b, pts, n) /\ Inited(b)
            /\ last' = [last EXCEPT ![b] = LastWith(b, pts)] /\ count' = [count EXCEPT ![b] = @ + n]
            /\ base' = base /\ InOrder(b, pts, n)
            /\ good' = [good EXCEPT ![b] = last'[b]] /\ Apply(b, new)
  <2>1. PICK C \in SUBSET {e \in Events : BoxOf[e] = b /\ good[b] < PtsOf[e] /\ PtsOf[e] =< last'[b]} :
               /\ queue[b] \union new \subseteq C /\ C \subseteq queue[b] \union new \union applied
               /\ count'[b] = good[b] + Cardinality(Numbers(C)) /\ Span(b, good[b], last'[b], C)
    BY <1>9, <1>10
  <2>2. last'[b] = count'[b] /\ good'[b] = last'[b] /\ last'[b] \in Nat
    BY <1>1, <1>5, <1>10 DEF InOrder
  <2>3. queue'[b] = {} /\ applied' = applied \union queue[b] \union new
    BY <1>1, <1>2, <1>10
  <2>4. /\ \A e \in Events : BoxOf[e] = b /\ good[b] < PtsOf[e] /\ PtsOf[e] =< last'[b] => e \in C
        /\ Boundary(b, last'[b])
    BY <2>1, <2>2, CountComesOut
  <2>5. CountingOf(b)'
    BY <2>2, <2>3, <2>4, CountingStarts
  <2>6. KnownOf(b)'
    <3> SUFFICES ASSUME NEW e \in Events, BoxOf[e] = b, PtsOf[e] =< good'[b] PROVE Known(e)'
      BY DEF KnownOf
    <3>1. CASE PtsOf[e] =< good[b]
      BY <1>3, <1>10, <3>1 DEF KnownOf, Known
    <3>2. CASE ~(PtsOf[e] =< good[b])
      <4>1. e \in C
        BY <1>1, <2>2, <2>4, <3>2, EventTypes
      <4> QED
        BY <2>1, <2>3, <4>1 DEF Known
    <3> QED
      BY <3>1, <3>2
  <2>7. \A e \in applied' \ applied : BoxOf[e] = b /\ PtsOf[e] =< good'[b]
    BY <2>1, <2>2, <2>3
  <2> QED
    BY <2>3, <2>5, <2>6, <2>7
<1>11. CASE /\ ~requesting[b] /\ ~Old(b, pts, n) /\ Inited(b)
            /\ last' = [last EXCEPT ![b] = LastWith(b, pts)] /\ count' = [count EXCEPT ![b] = @ + n]
            /\ UNCHANGED <<base, good>>
            /\ \/ /\ queue' = [queue EXCEPT ![b] = @ \union new] /\ applied' = applied
                  /\ waiting' = [waiting EXCEPT ![b] = TRUE]
               \/ ApplySkipped(b, new, TRUE) /\ dropped' = [dropped EXCEPT ![b] = TRUE]
  <2>1. PICK C \in SUBSET {e \in Events : BoxOf[e] = b /\ good[b] < PtsOf[e] /\ PtsOf[e] =< last'[b]} :
               /\ queue[b] \union new \subseteq C /\ C \subseteq queue[b] \union new \union applied
               /\ C \intersect Fresh' = {}
               /\ count'[b] = good[b] + Cardinality(Numbers(C)) /\ Span(b, good[b], last'[b], C)
    BY <1>9, <1>11
  <2>2. \/ queue'[b] = queue[b] \union new /\ applied' = applied /\ waiting'[b]
        \/ queue'[b] = {} /\ applied' = applied \union queue[b] \union new /\ dropped'[b]
    BY <1>1, <1>11 DEF ApplySkipped
  <2>3. CountedIs(b, C)'
    BY <1>11, <2>1, <2>2 DEF CountedIs
  <2>4. CountingOf(b)'
    BY <1>11, <2>1, <2>3 DEF CountingOf, Span, Boundary
  <2>5. KnownOf(b)'
    BY <1>3, <1>11, KnownStays
  <2>6. \A e \in applied' \ applied : BoxOf[e] = b /\ dropped'[b]
    BY <2>1, <2>2
  <2> QED
    BY <1>11, <2>2, <2>4, <2>5, <2>6 DEF Inited
<1> QED
  BY <1>6, <1>7, <1>8, <1>10, <1>11 DEF UpdateAndApply, Uncounted

-----------------------------------------------------------------------------
(* Where the packets are *)

LEMMA PlacesShrink ==
  ASSUME TypeOK, Places, hand'.list = hand.list, hand'.busy = hand.busy,
         net' \subseteq net, bySeq' \subseteq bySeq, length' = length
  PROVE  Places' /\ Fresh' \subseteq Fresh
<1>1. ToCome' \subseteq ToCome /\ InHandStill' = InHandStill
  BY DEF ToCome, InHandStill
<1> QED
  BY <1>1 DEF Places, Fresh

LEMMA PlacesEmitted ==
  ASSUME TypeOK, Places, hand' = hand, net' = net \union {length + 1}, bySeq' = bySeq,
         length < Len(Log), length' = length + 1
  PROVE  Places' /\ Fresh' \subseteq Fresh
<1>1. length \in Nat /\ Len(Log) \in Nat
  BY LogAssumption DEF TypeOK
<1>2. ToCome' = ToCome /\ InHandStill' = InHandStill
  BY <1>1 DEF ToCome, InHandStill
<1>3. Fresh' = Fresh
  BY <1>2 DEF Fresh
<1>4. net' \intersect bySeq' = {} /\ net' \union bySeq' \subseteq 1..length'
  BY <1>1 DEF Places
<1> QED
  BY <1>2, <1>3, <1>4 DEF Places

\* A packet taken in hand when nothing is.
LEMMA PlacesTaken ==
  ASSUME TypeOK, Places, NEW k \in net \union bySeq, ~hand.busy \/ hand.list = <<>>,
         hand'.list = Log[k].list, hand'.busy,
         net' \subseteq net \ {k}, bySeq' \subseteq bySeq \ {k}, length' = length
  PROVE  Places' /\ Fresh' \subseteq Fresh
<1>1. k \in DOMAIN Log /\ length \in Nat /\ k =< length /\ net \subseteq DOMAIN Log /\ bySeq \subseteq DOMAIN Log
  BY LogAssumption DEF TypeOK, Places
<1>2. ToCome' \subseteq ToCome \ {k} /\ k \in ToCome
  BY <1>1 DEF ToCome
<1>3. ToCome \subseteq DOMAIN Log
  BY <1>1, LogAssumption DEF ToCome
<1>4. InHandStill' = EventsOf(k)
  BY DEF InHandStill, EventsOf
<1>5. Fresh' \subseteq Fresh
  BY <1>2, <1>4 DEF Fresh
<1>6. \A j \in ToCome' : EventsOf(j) \intersect EventsOf(k) = {}
  BY <1>1, <1>2, <1>3, OnceAssumption DEF EventsOf
<1>7. \A i, j \in DOMAIN hand'.list : hand'.list[i] = hand'.list[j] => i = j
  BY <1>1, OnceAssumption
<1>8. net' \intersect bySeq' = {} /\ net' \union bySeq' \subseteq 1..length'
  BY DEF Places
<1> QED
  BY <1>4, <1>5, <1>6, <1>7, <1>8 DEF Places

\* A packet kept by its seq.
LEMMA PlacesKept ==
  ASSUME TypeOK, Places, NEW k \in net, hand' = hand, net' = net \ {k}, bySeq' = bySeq \union {k},
         length' = length
  PROVE  Places' /\ Fresh' \subseteq Fresh
<1>1. ToCome' \subseteq ToCome /\ InHandStill' = InHandStill
  BY DEF ToCome, InHandStill
<1>2. net' \intersect bySeq' = {} /\ net' \union bySeq' \subseteq 1..length'
  BY DEF Places
<1> QED
  BY <1>1, <1>2 DEF Places, Fresh

\* The next update of the packet in hand.
LEMMA PlacesFed ==
  ASSUME TypeOK, Places, hand.list # <<>>, hand' = [hand EXCEPT !.list = Tail(@)],
         net' = net, bySeq' \subseteq bySeq, length' = length
  PROVE  /\ Places' /\ Fresh' \subseteq Fresh /\ Head(hand.list) \in Fresh \ Fresh'
         /\ Head(hand.list) \in Events /\ hand' \in Hands /\ BackStays
<1> DEFINE s == hand.list  t == Tail(s)
<1>1. hand \in Hands /\ s \in Seq(Events) /\ s # <<>>
  BY DEF TypeOK, Hands
<1>2. /\ t \in Seq(Events) /\ Len(t) = Len(s) - 1 /\ Len(s) \in Nat /\ Len(s) > 0
      /\ \A i \in 1..Len(t) : t[i] = s[i + 1] /\ Head(s) = s[1]
      /\ DOMAIN s = 1..Len(s) /\ DOMAIN t = 1..Len(t) /\ Head(s) = s[1] /\ s[1] \in Events
  BY <1>1
<1>3. hand'.list = t /\ hand'.busy = hand.busy /\ hand' \in Hands /\ BackStays
  BY <1>1, <1>2 DEF Hands, BackStays
<1>4. \A i, j \in 1..Len(s) : s[i] = s[j] => i = j
  BY <1>2 DEF Places
<1> HIDE DEF t
<1>5. \A i, j \in 1..Len(t) : t[i] = t[j] => i = j
  <2> SUFFICES ASSUME NEW i \in 1..Len(t), NEW j \in 1..Len(t), t[i] = t[j] PROVE i = j
    OBVIOUS
  <2>1. s[i + 1] = s[j + 1] /\ i + 1 \in 1..Len(s) /\ j + 1 \in 1..Len(s)
    BY <1>2
  <2>2. i + 1 = j + 1
    BY <1>4, <2>1
  <2> QED
    BY <2>2
<1>6. Head(s) \notin {t[i] : i \in 1..Len(t)} /\ {t[i] : i \in 1..Len(t)} \subseteq {s[i] : i \in 1..Len(s)}
  <2> SUFFICES ASSUME NEW i \in 1..Len(t) PROVE t[i] # Head(s) /\ t[i] \in {s[j] : j \in 1..Len(s)}
    OBVIOUS
  <2>1. t[i] = s[i + 1] /\ i + 1 \in 1..Len(s) /\ 1 \in 1..Len(s) /\ i + 1 # 1
    BY <1>2
  <2> QED
    BY <1>2, <1>4, <2>1
<1>7. InHandStill = {s[i] : i \in 1..Len(s)} /\ InHandStill' = {t[i] : i \in 1..Len(t)}
  BY <1>2, <1>3 DEF InHandStill
<1>8. ToCome' \subseteq ToCome
  BY DEF ToCome
<1>9. Head(s) \in InHandStill
  BY <1>2, <1>7
<1>10. Fresh' \subseteq Fresh /\ Head(s) \in Fresh
  BY <1>6, <1>7, <1>8, <1>9 DEF Fresh
<1>11. Head(s) \notin Fresh'
  BY <1>6, <1>7, <1>8, <1>9 DEF Fresh, Places
<1>12. Places'
  <2>1. \A i, j \in DOMAIN hand'.list : hand'.list[i] = hand'.list[j] => i = j
    BY <1>2, <1>3, <1>5
  <2>2. \A k \in ToCome' : EventsOf(k) \intersect InHandStill' = {}
    BY <1>6, <1>7, <1>8 DEF Places
  <2>3. hand'.list # <<>> => hand'.busy
    BY <1>1, <1>3 DEF Places
  <2> QED
    BY <2>1, <2>2, <2>3 DEF Places
<1> QED
  BY <1>2, <1>3, <1>10, <1>11, <1>12

\* What the client did itself, when it is told.
LEMMA OwnTold ==
  ASSUME TypeOK, Places, NEW k \in net, ~hand.busy, hand' = hand, net' = net \ {k},
         bySeq' = bySeq, length' = length, NEW e \in EventsOf(k)
  PROVE  e \in Fresh \ Fresh' /\ e \in Events
<1>1. k \in DOMAIN Log /\ length \in Nat /\ k =< length /\ net \subseteq DOMAIN Log /\ bySeq \subseteq DOMAIN Log
  BY LogAssumption DEF TypeOK, Places
<1>2. ToCome' \subseteq ToCome \ {k} /\ k \in ToCome /\ ToCome \subseteq DOMAIN Log
  BY <1>1, LogAssumption DEF ToCome, Places
<1>3. hand.list = <<>>
  BY DEF Places
<1>4. InHandStill' = {}
  BY <1>3 DEF InHandStill
<1>5. \A j \in ToCome' : e \notin EventsOf(j)
  BY <1>1, <1>2, OnceAssumption DEF EventsOf
<1> QED
  BY <1>1, <1>2, <1>4, <1>5, EventsInLog DEF Fresh

-----------------------------------------------------------------------------
(* The steps *)

\* What a step applies outside of a difference lies behind the pts reached.
AppliesBehind ==
  \A e \in applied' \ applied :
    length' = length /\ ~requesting[BoxOf[e]] /\ ~dropped'[BoxOf[e]] => PtsOf[e] =< good'[BoxOf[e]]

LEMMA UpdateStep ==
  ASSUME OInv, NEW b \in Boxes, NEW pts, NEW n, NEW new, Tells(b, pts, n, new),
         UpdateAndApply(b, pts, n, new),
         UNCHANGED <<requesting, shortPoll, failDue, seqVars, minTimer, active, askVars, length, faults>>,
         hand' \in Hands, BackStays, net' \subseteq net, Places', Fresh' \subseteq Fresh
  PROVE  OInv' /\ AppliesBehind
<1>0. TypeOK /\ \A x \in Boxes : AsksFromGood(x) /\ Waits(x) /\ CountingOf(x) /\ KnownOf(x)
  BY DEF OInv
<1>1. pts \in Nat /\ n \in Nat /\ new \in SUBSET Events
  BY <1>0, TellsTypes
<1>2. /\ good' \in [Boxes -> Nat] /\ last' \in [Boxes -> Nat] /\ count' \in [Boxes -> Nat]
      /\ queue' \in [Boxes -> SUBSET Events] /\ waiting' \in [Boxes -> BOOLEAN]
      /\ due' \in [Boxes -> BOOLEAN] /\ applied' \subseteq Events /\ applied \subseteq applied'
      /\ base' \in [Boxes -> Nat] /\ dropped' \in [Boxes -> BOOLEAN]
      /\ \A x \in Boxes : requesting[x] => queue'[x] = {}
  BY <1>0, <1>1, UpdateTypes
<1>3. TypeOK'
  BY <1>0, <1>2 DEF TypeOK, Hands, seqVars, askVars
<1>4. OwnApplied'
  BY <1>2 DEF OInv, OwnApplied
<1>5. /\ CountingOf(b)' /\ KnownOf(b)'
      /\ queue'[b] # {} => waiting'[b] /\ ~requesting'[b] /\ Inited(b)'
      /\ \A e \in applied' \ applied :
           BoxOf[e] = b /\ (~requesting[b] /\ ~dropped'[b] => PtsOf[e] =< good'[b])
  BY <1>0, UpdateCounts
<1>6. requesting[b] => UNCHANGED ptsVars
  BY <1>0 DEF UpdateAndApply, Uncounted
<1>7. AsksFromGood(b)' /\ Waits(b)'
  BY <1>0, <1>5, <1>6 DEF AsksFromGood, Waits, askVars, ptsVars, BackStays, Returns, Boundary
<1>8. ASSUME NEW x \in Boxes, x # b
      PROVE  AsksFromGood(x)' /\ Waits(x)' /\ CountingOf(x)' /\ KnownOf(x)'
  <2>1. /\ good'[x] = good[x] /\ last'[x] = last[x] /\ count'[x] = count[x] /\ base'[x] = base[x]
        /\ queue'[x] = queue[x] /\ waiting'[x] = waiting[x]
    BY <1>0, <1>8, UpdateElsewhere
  <2> QED
    BY <1>0, <1>2, <2>1, BoxStays DEF askVars
<1> QED
  BY <1>3, <1>4, <1>5, <1>7, <1>8 DEF OInv, AppliesBehind

LEMMA FeedStep == ASSUME OInv, FeedUpdate PROVE OInv' /\ AppliesBehind
<1> DEFINE e == Head(hand.list)
<1>0. TypeOK /\ Places /\ \A x \in Boxes : AsksFromGood(x) /\ Waits(x) /\ CountingOf(x) /\ KnownOf(x)
  BY DEF OInv
<1>1. /\ hand.list # <<>> /\ hand' = [hand EXCEPT !.list = Tail(@)]
      /\ UNCHANGED <<requesting, shortPoll, failDue, seqVars, minTimer, active, askVars, serverVars, faults>>
  BY DEF FeedUpdate
<1>2. /\ Places' /\ Fresh' \subseteq Fresh /\ e \in Fresh \ Fresh' /\ e \in Events /\ hand' \in Hands
      /\ BackStays
  BY <1>0, <1>1, PlacesFed DEF seqVars, serverVars
<1>3. ASSUME NEW b \in Boxes, b = BoxOf[e], UpdateAndApply(b, PtsOf[e], CountOf[e], {e})
      PROVE  OInv' /\ AppliesBehind
  <2>1. PtsOf[e] \in Nat /\ PtsOf[e] > 0 /\ Boundary(b, PtsOf[e])
    <3>1. PtsOf[e] \in Nat /\ CountOf[e] \in Nat /\ PtsOf[e] - CountOf[e] >= 1
      BY <1>2, EventTypes
    <3> HIDE DEF e
    <3> QED
      BY <1>2, <1>3, <3>1, EventBoundary
  <2>2. Tells(b, PtsOf[e], CountOf[e], {e})
    BY <1>2, <1>3, <2>1 DEF Tells
  <2> QED
    BY <1>1, <1>2, <1>3, <2>2, UpdateStep DEF serverVars
<1>4. CASE UNCHANGED <<ptsVars, waiting, due, queue, knownVars>>
  <2>1. TypeOK'
    BY <1>0, <1>1, <1>2, <1>4 DEF TypeOK, Hands, seqVars, askVars, ptsVars, serverVars, knownVars
  <2>2. OwnApplied'
    BY <1>1, <1>4 DEF OInv, OwnApplied, serverVars, knownVars
  <2>3. ASSUME NEW x \in Boxes PROVE AsksFromGood(x)' /\ Waits(x)' /\ CountingOf(x)' /\ KnownOf(x)'
    BY <1>0, <1>1, <1>2, <1>4, BoxStays DEF askVars, ptsVars, knownVars
  <2> QED
    BY <1>2, <1>4, <2>1, <2>2, <2>3 DEF OInv, AppliesBehind, knownVars
<1>5. BoxOf[e] \in Boxes
  BY <1>2, EventTypes
<1>6. \/ BoxOf[e] = "common" /\ UpdateAndApply("common", PtsOf[e], CountOf[e], {e})
      \/ BoxOf[e] = "channel" /\ UpdateAndApply("channel", PtsOf[e], CountOf[e], {e})
      \/ UNCHANGED <<ptsVars, waiting, due, queue, knownVars>>
  BY <1>5 DEF FeedUpdate, FeedChannel, Boxes
<1> QED
  BY <1>3, <1>4, <1>5, <1>6

LEMMA AffectedStep == ASSUME OInv, NEW k \in DOMAIN Log, AffectedReceived(k) PROVE OInv' /\ AppliesBehind
<1> DEFINE e == Log[k].list[1]  b == BoxOf[e]
<1>0. TypeOK /\ Places /\ OwnApplied
  BY DEF OInv
<1>1. /\ ~hand.busy /\ k \in net /\ Log[k].kind = "affected" /\ net' = net \ {k}
      /\ UpdateAndApply(b, PtsOf[e], CountOf[e], {})
      /\ UNCHANGED <<requesting, shortPoll, failDue, seqVars, minTimer, active, hand, askVars, length, faults>>
  BY DEF AffectedReceived, Ready
<1>2. Places' /\ Fresh' \subseteq Fresh
  BY <1>0, <1>1, PlacesShrink DEF seqVars
<1>3. e \in EventsOf(k) /\ e \in applied
  <2>1. Log[k].list \in Seq(Events) /\ Len(Log[k].list) = 1
    BY <1>1, LogEntry, LogAssumption DEF Packets
  <2>2. e \in EventsOf(k)
    BY <2>1 DEF EventsOf
  <2> QED
    BY <1>0, <1>1, <2>2 DEF OwnApplied, OwnEffect
<1>4. e \in Fresh \ Fresh' /\ e \in Events
  BY <1>0, <1>1, <1>3, OwnTold DEF seqVars
<1>5. PtsOf[e] \in Nat /\ PtsOf[e] > 0 /\ Boundary(b, PtsOf[e]) /\ b \in Boxes
  <2> HIDE DEF e
  <2>1. PtsOf[e] \in Nat /\ CountOf[e] \in Nat /\ PtsOf[e] - CountOf[e] >= 1
    BY <1>4, EventTypes
  <2> QED
    BY <1>4, <2>1, EventBoundary, EventTypes
<1>6. Tells(b, PtsOf[e], CountOf[e], {})
  <2> HIDE DEF e
  <2> QED
    BY <1>3, <1>4, <1>5 DEF Tells
<1>7. hand' \in Hands /\ BackStays /\ net' \subseteq net
  BY <1>0, <1>1 DEF TypeOK, Hands, BackStays
<1> HIDE DEF e, b
<1> QED
  BY <1>1, <1>2, <1>5, <1>6, <1>7, UpdateStep

LEMMA PtsReceivedStep == ASSUME OInv, NEW pts \in MerePts, PtsReceived(pts) PROVE OInv' /\ AppliesBehind
<1>0. TypeOK /\ Places
  BY DEF OInv
<1>1. /\ UpdateAndApply("channel", pts, 0, {})
      /\ UNCHANGED <<requesting, shortPoll, failDue, seqVars, minTimer, active, hand, askVars, length, net, faults>>
  BY DEF PtsReceived, serverVars
<1>2. Places' /\ Fresh' \subseteq Fresh
  BY <1>0, <1>1, PlacesShrink DEF seqVars
<1>3. Tells("channel", pts, 0, {})
  BY MereBoundary DEF Tells
<1>4. hand' \in Hands /\ BackStays /\ net' \subseteq net /\ "channel" \in Boxes
  BY <1>0, <1>1 DEF TypeOK, Hands, Boxes, BackStays
<1> QED
  BY <1>1, <1>2, <1>3, <1>4, UpdateStep

\* A step that counts nothing: a box asks for the difference, or its request ends, or not.
LEMMA StillStep ==
  ASSUME OInv, TypeOK', Places', Fresh' \subseteq Fresh, net' \subseteq net, NothingCounted, waiting' = waiting,
         BackStays,
         \A b \in Boxes :
           \/ /\ queue'[b] = queue[b] /\ requesting'[b] = requesting[b]
              /\ ask'[b] = "none" \/ (ask'[b] = ask[b] /\ askPts'[b] = askPts[b])
           \/ queue'[b] = {} /\ requesting'[b] /\ askPts'[b] = good[b]
  PROVE  OInv' /\ AppliesBehind
<1>1. \A b \in Boxes : AsksFromGood(b) /\ Waits(b) /\ CountingOf(b) /\ KnownOf(b)
  BY DEF OInv
<1>2. ptsVars' = ptsVars /\ applied' = applied /\ base' = base
  BY DEF NothingCounted, knownVars
<1>3. \A b \in Boxes : AsksFromGood(b)' /\ Waits(b)' /\ CountingOf(b)' /\ KnownOf(b)'
  BY <1>1, <1>2, BoxStays DEF ptsVars
<1>4. OwnApplied'
  BY <1>2 DEF OInv, OwnApplied
<1> QED
  BY <1>2, <1>3, <1>4 DEF OInv, AppliesBehind

\* A box that asks, or does not.
LEMMA AskTypes ==
  ASSUME TypeOK, NEW b \in Boxes, NoAsk \/ Ask(b)
  PROVE  /\ queue' \in [Boxes -> SUBSET Events] /\ requesting' \in [Boxes -> BOOLEAN]
         /\ ask' \in [Boxes -> {"none", "state", "difference"}] /\ askPts' \in [Boxes -> Nat]
         /\ upTo' \in [Boxes -> -1..Len(Log)]
         /\ \A x \in Boxes : requesting'[x] => queue'[x] = {}
         /\ \A x \in Boxes :
              \/ /\ queue'[x] = queue[x] /\ requesting'[x] = requesting[x]
                 /\ ask'[x] = ask[x] /\ askPts'[x] = askPts[x]
              \/ queue'[x] = {} /\ requesting'[x] /\ askPts'[x] = good[x]
<1>0. /\ good \in [Boxes -> Nat] /\ queue \in [Boxes -> SUBSET Events] /\ requesting \in [Boxes -> BOOLEAN]
      /\ ask \in [Boxes -> {"none", "state", "difference"}] /\ askPts \in [Boxes -> Nat]
      /\ upTo \in [Boxes -> -1..Len(Log)] /\ -1 \in -1..Len(Log)
      /\ \A x \in Boxes : requesting[x] => queue[x] = {}
  BY LogAssumption DEF TypeOK
<1>1. CASE NoAsk
  BY <1>0, <1>1 DEF NoAsk, askVars
<1>2. CASE Ask(b)
  BY <1>0, <1>2 DEF Ask
<1> QED
  BY <1>1, <1>2

\* getDifference, getChannelDifference.
LEMMA DifferenceTypes ==
  ASSUME TypeOK, NEW b \in Boxes, Difference(b)
  PROVE  /\ NoAsk \/ Ask(b)
         /\ due' \in [Boxes -> BOOLEAN] /\ failDue' \in [Boxes -> BOOLEAN]
         /\ bySeq' \subseteq bySeq /\ seqTimer' \in BOOLEAN /\ ranOut' \in BOOLEAN
         /\ waiting' = waiting /\ shortPoll' = shortPoll /\ seq' = seq
<1>0. /\ due \in [Boxes -> BOOLEAN] /\ failDue \in [Boxes -> BOOLEAN]
      /\ seqTimer \in BOOLEAN /\ ranOut \in BOOLEAN
  BY DEF TypeOK
<1>1. /\ waiting' = waiting /\ shortPoll' = shortPoll /\ seq' = seq
      /\ bySeq' \subseteq bySeq /\ seqTimer' \in BOOLEAN /\ ranOut' \in BOOLEAN
      /\ due' = [due EXCEPT ![b] = FALSE]
      /\ \/ NoAsk /\ failDue' = failDue
         \/ Ask(b) /\ failDue' = [failDue EXCEPT ![b] = FALSE]
  BY <1>0 DEF Difference, GetDifference, GetChannelDifference, NoneKept, Boxes, seqVars
<1> QED
  BY <1>0, <1>1

LEMMA DifferenceStep ==
  ASSUME OInv, NEW b \in Boxes, Difference(b), NothingCounted, hand' \in Hands, BackStays, Places',
         Fresh' \subseteq Fresh, net' \subseteq net, length' = length,
         minTimer' \in BOOLEAN, active' \in BOOLEAN, faults' \in 0..MaxFaults
  PROVE  OInv' /\ AppliesBehind
<1>1. TypeOK
  BY DEF OInv
<1>2. /\ queue' \in [Boxes -> SUBSET Events] /\ requesting' \in [Boxes -> BOOLEAN]
      /\ due' \in [Boxes -> BOOLEAN] /\ failDue' \in [Boxes -> BOOLEAN]
      /\ ask' \in [Boxes -> {"none", "state", "difference"}] /\ askPts' \in [Boxes -> Nat]
      /\ upTo' \in [Boxes -> -1..Len(Log)] /\ bySeq' \subseteq bySeq /\ seqTimer' \in BOOLEAN /\ ranOut' \in BOOLEAN
      /\ waiting' = waiting /\ shortPoll' = shortPoll /\ seq' = seq
      /\ \A x \in Boxes : requesting'[x] => queue'[x] = {}
      /\ \A x \in Boxes :
           \/ /\ queue'[x] = queue[x] /\ requesting'[x] = requesting[x]
              /\ ask'[x] = ask[x] /\ askPts'[x] = askPts[x]
           \/ queue'[x] = {} /\ requesting'[x] /\ askPts'[x] = good[x]
  BY <1>1, DifferenceTypes, AskTypes
<1>3. TypeOK'
  BY <1>1, <1>2 DEF TypeOK, Hands, NothingCounted, ptsVars, knownVars
<1> QED
  BY <1>2, <1>3, StillStep

\* The places of the packets when nothing is taken, fed or sent.
LEMMA PlacesStay ==
  ASSUME TypeOK, Places, UNCHANGED <<hand, net, length>>, bySeq' \subseteq bySeq
  PROVE  Places' /\ Fresh' \subseteq Fresh /\ hand' \in Hands /\ net' \subseteq net /\ BackStays
  BY PlacesShrink DEF TypeOK, Hands, BackStays

LEMMA TimersStep ==
  ASSUME OInv, NEW b \in Boxes,
         PtsTimer(b) \/ TooLong(b) \/ (b = "common" /\ MinTimer)
  PROVE  OInv' /\ AppliesBehind
<1>0. TypeOK /\ Places
  BY DEF OInv
<1>1. /\ Difference(b) /\ NothingCounted /\ UNCHANGED <<hand, net, length, active>>
      /\ minTimer' \in BOOLEAN /\ faults' \in 0..MaxFaults /\ active' \in BOOLEAN
  <2>0. minTimer \in BOOLEAN /\ active \in BOOLEAN /\ faults \in 0..MaxFaults /\ MaxFaults \in Nat
    BY <1>0, BoundAssumption DEF TypeOK
  <2>1. CASE PtsTimer(b)
    BY <2>0, <2>1 DEF PtsTimer, Asked, serverVars
  <2>2. CASE TooLong(b)
    BY <2>0, <2>2 DEF TooLong, Fault, Asked, serverVars
  <2>3. CASE b = "common" /\ MinTimer
    BY <2>0, <2>3 DEF MinTimer, Asked, serverVars
  <2> QED
    BY <2>1, <2>2, <2>3
<1>2. bySeq' \subseteq bySeq
  BY <1>0, <1>1, DifferenceTypes
<1> QED
  BY <1>0, <1>1, <1>2, PlacesStay, DifferenceStep

\* The timer of the packets kept by seq asks for the difference, or runs out.
LEMMA SeqTimerStep == ASSUME OInv, SeqTimer PROVE OInv' /\ AppliesBehind
<1>0. TypeOK /\ Places
  BY DEF OInv
<1>1. NothingCounted /\ UNCHANGED <<minTimer, active, hand, serverVars, faults>> /\ "common" \in Boxes
  BY DEF SeqTimer, Boxes
<1>2. CASE Difference("common")
  <2>1. bySeq' \subseteq bySeq
    BY <1>0, <1>1, <1>2, DifferenceTypes
  <2>2. minTimer' \in BOOLEAN /\ active' \in BOOLEAN /\ faults' \in 0..MaxFaults
    BY <1>0, <1>1 DEF TypeOK
  <2> QED
    BY <1>0, <1>1, <1>2, <2>1, <2>2, PlacesStay, DifferenceStep DEF serverVars
<1>3. CASE /\ due' = [due EXCEPT !["common"] = FALSE] /\ seqTimer' = FALSE /\ ranOut' = TRUE
           /\ NoAsk /\ UNCHANGED <<waiting, shortPoll, failDue, seq, bySeq>>
  <2>1. Places' /\ Fresh' \subseteq Fresh /\ net' \subseteq net /\ BackStays
    BY <1>0, <1>1, <1>3, PlacesStay DEF serverVars
  <2>2. TypeOK'
    BY <1>0, <1>1, <1>3 DEF TypeOK, NothingCounted, NoAsk, ptsVars, knownVars, askVars, serverVars
  <2> QED
    BY <1>1, <1>3, <2>1, <2>2, StillStep DEF NoAsk, askVars
<1> QED
  BY <1>2, <1>3 DEF SeqTimer, Difference

LEMMA FeedUnknownStep == ASSUME OInv, FeedUnknown PROVE OInv' /\ AppliesBehind
<1>0. TypeOK /\ Places
  BY DEF OInv
<1>1. /\ hand.list # <<>> /\ hand' = [hand EXCEPT !.list = Tail(@)] /\ NothingCounted
      /\ UNCHANGED <<net, length, active>> /\ faults' \in 0..MaxFaults /\ active' \in BOOLEAN
      /\ \/ Difference("common") /\ UNCHANGED minTimer
         \/ minTimer' = TRUE /\ UNCHANGED <<waitVars, failDue, seqVars, askVars>>
  BY <1>0, BoundAssumption DEF FeedUnknown, Fault, serverVars, TypeOK, Difference
<1>2. "common" \in Boxes /\ minTimer \in BOOLEAN
  BY <1>0 DEF Boxes, TypeOK
<1>3. bySeq' \subseteq bySeq
  BY <1>0, <1>1, <1>2, DifferenceTypes DEF seqVars
<1>4. Places' /\ Fresh' \subseteq Fresh /\ hand' \in Hands /\ net' \subseteq net /\ BackStays
  BY <1>0, <1>1, <1>3, PlacesFed
<1>5. CASE Difference("common") /\ UNCHANGED minTimer
  BY <1>1, <1>2, <1>4, <1>5, DifferenceStep
<1>6. CASE minTimer' = TRUE /\ UNCHANGED <<waitVars, failDue, seqVars, askVars>>
  <2>1. TypeOK'
    BY <1>0, <1>1, <1>4, <1>6 DEF TypeOK, Hands, NothingCounted, ptsVars, knownVars, waitVars, seqVars, askVars
  <2> QED
    BY <1>1, <1>4, <1>6, <2>1, StillStep DEF waitVars, askVars
<1> QED
  BY <1>1, <1>5, <1>6

LEMMA ReaskStep == ASSUME OInv, NEW b \in Boxes, FailTimer(b) PROVE OInv' /\ AppliesBehind
<1>0. TypeOK /\ Places
  BY DEF OInv
<1>1. /\ Reask(b) /\ NothingCounted /\ UNCHANGED <<minTimer, active, hand, serverVars, faults>>
  BY DEF FailTimer
<1>2. bySeq' \subseteq bySeq /\ seqTimer' \in BOOLEAN /\ ranOut' \in BOOLEAN
  BY <1>0, <1>1 DEF Reask, NoneKept, TypeOK
<1>3. Places' /\ Fresh' \subseteq Fresh /\ hand' \in Hands /\ net' \subseteq net /\ BackStays
  BY <1>0, <1>1, <1>2, PlacesStay DEF serverVars
<1>4. /\ queue' \in [Boxes -> SUBSET Events] /\ requesting' \in [Boxes -> BOOLEAN]
      /\ ask' \in [Boxes -> {"none", "state", "difference"}] /\ askPts' \in [Boxes -> Nat]
      /\ upTo' \in [Boxes -> -1..Len(Log)]
      /\ \A x \in Boxes : requesting'[x] => queue'[x] = {}
      /\ \A x \in Boxes :
           \/ /\ queue'[x] = queue[x] /\ requesting'[x] = requesting[x]
              /\ ask'[x] = ask[x] /\ askPts'[x] = askPts[x]
           \/ queue'[x] = {} /\ requesting'[x] /\ askPts'[x] = good[x]
  BY <1>0, <1>1, AskTypes DEF Reask
<1>5. /\ due' \in [Boxes -> BOOLEAN] /\ failDue' \in [Boxes -> BOOLEAN]
      /\ waiting' = waiting /\ shortPoll' = shortPoll /\ seq' = seq
  BY <1>0, <1>1 DEF Reask, TypeOK
<1>6. TypeOK'
  BY <1>0, <1>1, <1>2, <1>3, <1>4, <1>5 DEF TypeOK, Hands, NothingCounted, ptsVars, knownVars, serverVars
<1> QED
  BY <1>1, <1>3, <1>4, <1>5, <1>6, StillStep

LEMMA FailsStep == ASSUME OInv, NEW b \in Boxes, DifferenceFails(b) PROVE OInv' /\ AppliesBehind
<1>0. TypeOK /\ Places
  BY DEF OInv
<1>1. /\ RequestDone(b) /\ failDue' = [failDue EXCEPT ![b] = TRUE] /\ NothingCounted
      /\ UNCHANGED <<waitVars, seqVars, minTimer, active, hand, serverVars>> /\ faults' \in 0..MaxFaults
  BY <1>0, BoundAssumption DEF DifferenceFails, FailTimerFor, Fault, NothingCounted, TypeOK
<1>2. Places' /\ Fresh' \subseteq Fresh /\ hand' \in Hands /\ net' \subseteq net /\ BackStays
  BY <1>0, <1>1, PlacesStay DEF serverVars, seqVars
<1>3. /\ ask' \in [Boxes -> {"none", "state", "difference"}] /\ askPts' = askPts
      /\ upTo' \in [Boxes -> -1..Len(Log)] /\ failDue' \in [Boxes -> BOOLEAN]
      /\ \A x \in Boxes : ask'[x] = "none" \/ ask'[x] = ask[x]
  BY <1>0, <1>1, LogAssumption DEF RequestDone, TypeOK
<1>4. TypeOK'
  BY <1>0, <1>1, <1>2, <1>3 DEF TypeOK, Hands, NothingCounted, ptsVars, knownVars, serverVars, waitVars, seqVars
<1> QED
  BY <1>1, <1>2, <1>3, <1>4, StillStep DEF waitVars

LEMMA NewSessionStep == ASSUME OInv, NewSession PROVE OInv' /\ AppliesBehind
<1>0. TypeOK /\ Places
  BY DEF OInv
<1>1. /\ net' \subseteq net /\ NothingCounted /\ seq' = 0
      /\ due' = [due EXCEPT !["common"] = FALSE]
      /\ \/ NoAsk /\ UNCHANGED <<bySeq, seqTimer, ranOut, failDue>>
         \/ /\ Ask("common") /\ bySeq' = {} /\ seqTimer' = FALSE /\ ranOut' = FALSE
            /\ failDue' = [failDue EXCEPT !["common"] = FALSE]
      /\ UNCHANGED <<waiting, shortPoll, minTimer, active, hand, length>> /\ faults' \in 0..MaxFaults
  BY <1>0, BoundAssumption DEF NewSession, NoneKept, Fault, TypeOK
<1>2. Places' /\ Fresh' \subseteq Fresh /\ BackStays
  BY <1>0, <1>1, PlacesShrink DEF BackStays
<1>3. /\ queue' \in [Boxes -> SUBSET Events] /\ requesting' \in [Boxes -> BOOLEAN]
      /\ due' \in [Boxes -> BOOLEAN] /\ failDue' \in [Boxes -> BOOLEAN]
      /\ ask' \in [Boxes -> {"none", "state", "difference"}] /\ askPts' \in [Boxes -> Nat]
      /\ upTo' \in [Boxes -> -1..Len(Log)] /\ bySeq' \subseteq bySeq /\ seqTimer' \in BOOLEAN /\ ranOut' \in BOOLEAN
      /\ \A x \in Boxes : requesting'[x] => queue'[x] = {}
      /\ \A x \in Boxes :
           \/ /\ queue'[x] = queue[x] /\ requesting'[x] = requesting[x]
              /\ ask'[x] = ask[x] /\ askPts'[x] = askPts[x]
           \/ queue'[x] = {} /\ requesting'[x] /\ askPts'[x] = good[x]
  BY <1>0, <1>1, AskTypes DEF Boxes, TypeOK
<1>5. TypeOK'
  BY <1>0, <1>1, <1>3 DEF TypeOK, NothingCounted, ptsVars, knownVars
<1> QED
  BY <1>1, <1>2, <1>3, <1>5, StillStep

LEMMA ShownStep ==
  ASSUME OInv, ShowChannel \/ \E closed \in BOOLEAN : HideChannel(closed)
  PROVE  OInv' /\ AppliesBehind
<1>0. TypeOK /\ Places
  BY DEF OInv
<1>1. /\ NothingCounted /\ NoAsk /\ active' \in BOOLEAN /\ faults' \in 0..MaxFaults
      /\ UNCHANGED <<waiting, failDue, seqVars, minTimer, hand, serverVars>>
  <2>1. active \in BOOLEAN /\ faults \in 0..MaxFaults /\ MaxFaults \in Nat
    BY <1>0, BoundAssumption DEF TypeOK
  <2>2. CASE ShowChannel
    BY <2>1, <2>2 DEF ShowChannel, Fault
  <2>3. CASE \E closed \in BOOLEAN : HideChannel(closed)
    BY <2>1, <2>3 DEF HideChannel
  <2> QED
    BY <2>2, <2>3
<1>2. shortPoll' \in [Boxes -> BOOLEAN] /\ due' \in [Boxes -> BOOLEAN]
  <2>1. shortPoll \in [Boxes -> BOOLEAN] /\ due \in [Boxes -> BOOLEAN] /\ waiting \in [Boxes -> BOOLEAN]
        /\ "channel" \in Boxes
    BY <1>0 DEF TypeOK, Boxes
  <2>2. CASE ShowChannel
    BY <2>1, <2>2 DEF ShowChannel
  <2>3. CASE \E closed \in BOOLEAN : HideChannel(closed)
    BY <2>1, <2>3 DEF HideChannel, StopPolling
  <2> QED
    BY <2>2, <2>3
<1>3. Places' /\ Fresh' \subseteq Fresh /\ hand' \in Hands /\ net' \subseteq net /\ BackStays
  BY <1>0, <1>1, PlacesStay DEF seqVars, serverVars
<1>4. TypeOK'
  BY <1>0, <1>1, <1>2 DEF TypeOK, NothingCounted, NoAsk, ptsVars, knownVars, askVars, seqVars, serverVars
<1> QED
  BY <1>1, <1>3, <1>4, StillStep DEF NoAsk, askVars

LEMMA AnswersStep == ASSUME OInv, NEW b \in Boxes, ServerAnswers(b) PROVE OInv' /\ AppliesBehind
<1>0. TypeOK /\ Places
  BY DEF OInv
<1>1. /\ NothingCounted /\ upTo' = [upTo EXCEPT ![b] = length]
      /\ UNCHANGED <<waitVars, failDue, seqVars, minTimer, active, hand, ask, askPts, serverVars, faults>>
  BY DEF ServerAnswers, NothingCounted
<1>2. upTo' \in [Boxes -> -1..Len(Log)]
  BY <1>0, <1>1, LogAssumption DEF TypeOK
<1>3. Places' /\ Fresh' \subseteq Fresh /\ hand' \in Hands /\ net' \subseteq net /\ BackStays
  BY <1>0, <1>1, PlacesStay DEF seqVars, serverVars
<1>4. TypeOK'
  BY <1>0, <1>1, <1>2 DEF TypeOK, NothingCounted, waitVars, ptsVars, knownVars, seqVars, serverVars
<1> QED
  BY <1>1, <1>3, <1>4, StillStep DEF waitVars

LEMMA EmitsStep == ASSUME OInv, ServerEmits PROVE OInv' /\ AppliesBehind
<1>0. TypeOK /\ Places /\ OwnApplied /\ \A b \in Boxes : AsksFromGood(b) /\ Waits(b) /\ CountingOf(b) /\ KnownOf(b)
  BY DEF OInv
<1>1. /\ length < Len(Log) /\ length' = length + 1
      /\ net' = net \union {length + 1} /\ applied' = applied \union OwnEffect(length + 1)
      /\ UNCHANGED <<ptsVars, waitVars, failDue, seqVars, minTimer, active, hand, askVars, base, dropped, faults>>
  BY DEF ServerEmits
<1>2. Places' /\ Fresh' \subseteq Fresh
  BY <1>0, <1>1, PlacesEmitted DEF seqVars
<1>3. length \in Nat /\ length' \in 0..Len(Log) /\ length + 1 \in DOMAIN Log
  BY <1>0, <1>1, LogAssumption DEF TypeOK
<1>4. OwnEffect(length + 1) \subseteq Events
  BY <1>3, EventsInLog DEF OwnEffect
<1>5. TypeOK'
  BY <1>0, <1>1, <1>3, <1>4 DEF TypeOK, waitVars, ptsVars, seqVars, askVars
<1>6. OwnApplied'
  BY <1>0, <1>1 DEF OwnApplied
<1>7. \A b \in Boxes : AsksFromGood(b)' /\ Waits(b)' /\ CountingOf(b)' /\ KnownOf(b)'
  BY <1>0, <1>1, <1>2, BoxStays DEF ptsVars, waitVars, askVars, BackStays
<1>8. AppliesBehind
  BY <1>1, <1>3 DEF AppliesBehind
<1> QED
  BY <1>2, <1>5, <1>6, <1>7, <1>8 DEF OInv

LEMMA ReceivedStep ==
  ASSUME OInv, NEW k \in DOMAIN Log, UpdateReceived(k) \/ AnswerReceived(k) PROVE OInv' /\ AppliesBehind
<1>0. TypeOK /\ Places
  BY DEF OInv
<1>1. /\ ~hand.busy /\ k \in net /\ net' = net \ {k} /\ length' = length
      /\ UNCHANGED <<seqVars, hand>> \/ ApplyUpdates(k)
      /\ NothingCounted /\ UNCHANGED <<waitVars, failDue, minTimer, active, askVars, faults>>
  BY DEF UpdateReceived, AnswerReceived, Ready, NothingCounted
<1>2. hand \in Hands /\ bySeq \subseteq DOMAIN Log /\ seqTimer \in BOOLEAN /\ seq \in Nat
      /\ ranOut \in BOOLEAN /\ hand.list = <<>> /\ k \notin bySeq
  BY <1>0, <1>1 DEF TypeOK, Hands, Places
<1>6. hand.back = "loop"
  BY <1>1 DEF OInv, AsksFromGood, Returns, Boxes
<1>3. /\ Places' /\ Fresh' \subseteq Fresh /\ hand' \in Hands
      /\ bySeq' \subseteq DOMAIN Log /\ seqTimer' \in BOOLEAN /\ ranOut' \in BOOLEAN /\ seq' = seq
      /\ BackStays
  <2>1. CASE UNCHANGED <<seqVars, hand>>
    BY <1>0, <1>1, <1>2, <2>1, PlacesShrink DEF seqVars, BackStays
  <2>2. CASE bySeq' = bySeq \union {k} /\ seqTimer' = TRUE /\ ranOut' = FALSE /\ hand' = hand /\ seq' = seq
    BY <1>0, <1>1, <1>2, <2>2, PlacesKept DEF BackStays
  <2>3. CASE /\ hand' = [seq |-> Log[k].seq, list |-> Log[k].list, busy |-> TRUE, back |-> "loop"]
             /\ UNCHANGED <<bySeq, seqTimer, ranOut, seq>>
    <3>1. hand'.list = Log[k].list /\ hand'.busy /\ hand'.back = "loop" /\ hand' \in Hands
      BY <2>3, InHand
    <3> QED
      BY <1>0, <1>1, <1>2, <1>6, <2>3, <3>1, PlacesTaken DEF BackStays
  <2> QED
    BY <1>1, <2>1, <2>2, <2>3 DEF ApplyUpdates, seqVars
<1>4. net' \subseteq net
  BY <1>1
<1>5. TypeOK'
  BY <1>0, <1>1, <1>2, <1>3, <1>4 DEF TypeOK, Hands, NothingCounted, waitVars, ptsVars, knownVars, askVars
<1> QED
  BY <1>1, <1>3, <1>4, <1>5, StillStep DEF waitVars, askVars

\* The next of the packets kept by seq.
LEMMA TakeNextStep == ASSUME OInv, TakeNext PROVE OInv' /\ AppliesBehind
<1>0. TypeOK /\ Places
  BY DEF OInv
<1>1. /\ hand.list = <<>> /\ hand.busy /\ NothingCounted
      /\ seq' = hand.seq /\ seqTimer' = FALSE /\ ranOut' = FALSE /\ bySeq' = StillKept(hand.seq)
      /\ UNCHANGED <<waitVars, failDue, minTimer, active, askVars, net, length, faults>>
  BY DEF TakeNext, NothingCounted, serverVars
<1>2. PICK k \in NextPackets(hand.seq) : hand' = [hand EXCEPT !.seq = Log[k].seq, !.list = Log[k].list]
  BY DEF TakeNext
<1>3. hand \in Hands /\ bySeq \subseteq DOMAIN Log /\ hand.seq \in Nat
  BY <1>0 DEF TypeOK, Hands
<1>4. k \in bySeq /\ Log[k].seq = hand.seq + 1 /\ NewSeq(hand.seq)
  BY <1>2 DEF NextPackets
<1>5. bySeq' \subseteq bySeq \ {k}
  BY <1>1, <1>3, <1>4 DEF StillKept
<1>6. hand'.list = Log[k].list /\ hand'.busy /\ hand' \in Hands /\ BackStays
  BY <1>1, <1>2, <1>3, <1>4, InHand DEF Hands, BackStays
<1>7. Places' /\ Fresh' \subseteq Fresh
  <2>1. k \in net \union bySeq /\ net' \subseteq net \ {k} /\ length' = length
    BY <1>0, <1>1, <1>4 DEF Places
  <2> QED
    BY <1>0, <1>1, <1>5, <1>6, <2>1, PlacesTaken
<1>8. TypeOK'
  BY <1>0, <1>1, <1>3, <1>5, <1>6 DEF TypeOK, Hands, NothingCounted, waitVars, ptsVars, knownVars, askVars
<1> QED
  BY <1>1, <1>6, <1>7, <1>8, StillStep DEF waitVars, askVars

LEMMA FinishStep == ASSUME OInv, FinishUpdates PROVE OInv' /\ AppliesBehind
<1>0. TypeOK /\ Places /\ OwnApplied /\ \A x \in Boxes : AsksFromGood(x) /\ Waits(x) /\ CountingOf(x) /\ KnownOf(x)
  BY DEF OInv
<1>1. /\ hand.list = <<>> /\ hand' = Nothing /\ NothingCounted
      /\ seq' = IF hand.seq = 0 THEN seq ELSE hand.seq
      /\ UNCHANGED <<queue, waiting, shortPoll, minTimer, active, net, length, faults>>
      /\ \/ /\ hand.back = "loop" /\ KeepOthers(hand.seq) /\ UNCHANGED <<requesting, askVars, due, failDue>>
         \/ hand.back = "slice" /\ AskForRest
         \/ /\ hand.back = "final" /\ KeepOthers(hand.seq) /\ RequestDone("common")
            /\ requesting' = [requesting EXCEPT !["common"] = FALSE] /\ UNCHANGED <<due, failDue>>
  BY DEF FinishUpdates, NothingCounted, serverVars
<1>2. hand \in Hands /\ hand.seq \in Nat /\ "common" \in Boxes /\ -1 \in -1..Len(Log)
  BY <1>0, LogAssumption DEF TypeOK, Hands, Boxes
<1>3. /\ bySeq' \subseteq bySeq /\ seqTimer' \in BOOLEAN /\ ranOut' \in BOOLEAN /\ seq' \in Nat
  <2>1. seqTimer \in BOOLEAN /\ ranOut \in BOOLEAN /\ seq \in Nat
    BY <1>0 DEF TypeOK
  <2>2. KeepOthers(hand.seq) \/ NoneKept
    BY <1>1 DEF AskForRest
  <2> QED
    BY <1>1, <1>2, <2>1, <2>2 DEF KeepOthers, StillKept, NoneKept
<1>4. Places' /\ Fresh' \subseteq Fresh /\ hand' \in Hands
  <2>1. hand'.list = hand.list /\ hand' \in Hands
    BY <1>1 DEF Nothing, Hands
  <2>2. ToCome' \subseteq ToCome /\ InHandStill' = InHandStill
    BY <1>1, <1>3, <2>1 DEF ToCome, InHandStill
  <2> QED
    BY <1>0, <1>1, <1>3, <2>1, <2>2 DEF Places, Fresh
<1>5. /\ requesting' \in [Boxes -> BOOLEAN] /\ ask' \in [Boxes -> {"none", "state", "difference"}]
      /\ upTo' \in [Boxes -> -1..Len(Log)] /\ askPts' \in [Boxes -> Nat]
      /\ due' \in [Boxes -> BOOLEAN] /\ failDue' \in [Boxes -> BOOLEAN]
      /\ \A x \in Boxes : requesting'[x] => requesting[x]
      /\ \A x \in Boxes : x # "common" =>
           requesting'[x] = requesting[x] /\ ask'[x] = ask[x] /\ askPts'[x] = askPts[x]
  <2>1. /\ requesting \in [Boxes -> BOOLEAN] /\ ask \in [Boxes -> {"none", "state", "difference"}]
        /\ upTo \in [Boxes -> -1..Len(Log)] /\ askPts \in [Boxes -> Nat] /\ good \in [Boxes -> Nat]
        /\ due \in [Boxes -> BOOLEAN] /\ failDue \in [Boxes -> BOOLEAN]
    BY <1>0 DEF TypeOK
  <2>2. \/ UNCHANGED <<requesting, ask, askPts, upTo, due, failDue>>
        \/ AskForRest
        \/ /\ RequestDone("common") /\ requesting' = [requesting EXCEPT !["common"] = FALSE]
           /\ UNCHANGED <<due, failDue>>
    BY <1>1 DEF askVars
  <2>3. CASE UNCHANGED <<requesting, ask, askPts, upTo, due, failDue>>
    BY <2>1, <2>3
  <2>4. CASE AskForRest
    BY <1>2, <2>1, <2>4 DEF AskForRest
  <2>5. CASE /\ RequestDone("common") /\ requesting' = [requesting EXCEPT !["common"] = FALSE]
             /\ UNCHANGED <<due, failDue>>
    <3>1. \A x \in Boxes : (requesting'[x] => requesting[x]) /\ (x # "common" => requesting'[x] = requesting[x])
      BY <1>2, <2>1, <2>5
    <3>2. requesting' \in [Boxes -> BOOLEAN]
      BY <1>2, <2>1, <2>5
    <3> QED
      BY <1>2, <2>1, <2>5, <3>1, <3>2 DEF RequestDone
  <2> QED
    BY <2>2, <2>3, <2>4, <2>5
<1>6. TypeOK'
  BY <1>0, <1>1, <1>3, <1>4, <1>5 DEF TypeOK, Hands, NothingCounted, ptsVars, knownVars
<1>7. UNCHANGED <<good, last, count, applied, base>>
  BY <1>1 DEF NothingCounted, ptsVars, knownVars
<1>8. ASSUME NEW x \in Boxes, x # "common" PROVE AsksFromGood(x)' /\ Waits(x)' /\ CountingOf(x)' /\ KnownOf(x)'
  <2>1. AsksFromGood(x)' /\ Waits(x)'
    BY <1>0, <1>1, <1>5, <1>7, <1>8 DEF AsksFromGood, Waits, Returns, Inited
  <2> QED
    BY <1>0, <1>1, <1>4, <1>5, <1>7, <1>8, <2>1, KnownStays, CountingStays
<1>9. AsksFromGood("common")' /\ Waits("common")' /\ CountingOf("common")' /\ KnownOf("common")'
  <2> DEFINE b == "common"
  <2>1. KnownOf(b)' /\ ~Returns(b)'
    BY <1>0, <1>1, <1>2, <1>7, KnownStays DEF Returns, Nothing
  <2>2. CASE hand.back = "loop"
    <3>1. requesting' = requesting /\ ask' = ask /\ askPts' = askPts
      BY <1>1, <2>2 DEF askVars
    <3>2. AsksFromGood(b)' /\ Waits(b)'
      BY <1>0, <1>1, <1>2, <1>7, <2>1, <2>2, <3>1 DEF AsksFromGood, Waits, Returns, Inited
    <3> QED
      BY <1>0, <1>1, <1>2, <1>4, <1>7, <2>1, <3>1, <3>2, CountingStays
  <2>3. CASE hand.back # "loop"
    <3>1. /\ requesting[b] /\ Boundary(b, good[b]) /\ last[b] = good[b] /\ count[b] = good[b]
          /\ queue[b] = {} /\ good[b] \in Nat
      BY <1>0, <1>2, <2>3 DEF AsksFromGood, Returns, TypeOK
    <3>2. AsksFromGood(b)'
      <4>1. \/ ask'[b] = "none"
            \/ requesting'[b] /\ askPts'[b] = good[b]
        <5>1. ask \in [Boxes -> {"none", "state", "difference"}] /\ askPts \in [Boxes -> Nat]
          BY <1>0 DEF TypeOK
        <5> QED
          BY <1>1, <1>2, <2>3, <3>1, <5>1 DEF AskForRest, RequestDone
      <4> QED
        BY <1>7, <2>1, <4>1 DEF AsksFromGood
    <3>3. CountingOf(b)'
      BY <1>1, <1>2, <1>7, <3>1, CountingStarts
    <3> QED
      BY <1>1, <2>1, <3>1, <3>2, <3>3 DEF Waits
  <2> QED
    BY <2>2, <2>3
<1>10. OwnApplied'
  BY <1>0, <1>1, <1>7 DEF OwnApplied
<1> QED
  BY <1>4, <1>6, <1>7, <1>8, <1>9, <1>10 DEF OInv, AppliesBehind

\* A box stands at the pts of an answer; the other box is left alone.
LEMMA DoneStep ==
  ASSUME OInv, TypeOK', NEW b \in Boxes, NEW pts \in Nat, Boundary(b, pts), Start(b, pts),
         UNCHANGED <<net, length, waiting>>, bySeq' \subseteq bySeq, applied \subseteq applied',
         hand'.list = hand.list, hand.busy => hand'.busy, hand' = hand \/ b = "common",
         \A x \in Boxes \ {b} :
           /\ queue'[x] = queue[x] /\ requesting'[x] = requesting[x] /\ base'[x] = base[x]
           /\ ask'[x] = ask[x] /\ askPts'[x] = askPts[x],
         queue'[b] = {}, AsksFromGood(b)',
         KnownOf(b)', \A e \in applied' \ applied : requesting[BoxOf[e]]
  PROVE  OInv' /\ AppliesBehind
<1>0. TypeOK /\ Places /\ OwnApplied /\ \A x \in Boxes : AsksFromGood(x) /\ Waits(x) /\ CountingOf(x) /\ KnownOf(x)
  BY DEF OInv
<1>1. Places' /\ Fresh' \subseteq Fresh
  <2>1. ToCome' \subseteq ToCome /\ InHandStill' = InHandStill
    BY DEF ToCome, InHandStill
  <2> QED
    BY <1>0, <2>1 DEF Places, Fresh
<1>2. OwnApplied'
  BY <1>0 DEF OwnApplied
<1>3. /\ good' = [good EXCEPT ![b] = pts] /\ last' = [last EXCEPT ![b] = pts] /\ count' = [count EXCEPT ![b] = pts]
      /\ good \in [Boxes -> Nat] /\ last \in [Boxes -> Nat] /\ count \in [Boxes -> Nat]
  BY <1>0 DEF Start, TypeOK
<1>4. AsksFromGood(b)' /\ Waits(b)' /\ CountingOf(b)' /\ KnownOf(b)'
  BY <1>3, BoxStarts
<1>5. ASSUME NEW x \in Boxes, x # b PROVE AsksFromGood(x)' /\ Waits(x)' /\ CountingOf(x)' /\ KnownOf(x)'
  <2>1. good'[x] = good[x] /\ last'[x] = last[x] /\ count'[x] = count[x]
    BY <1>3, <1>5
  <2>2. Returns(x)' = Returns(x) /\ (Returns(x) => hand'.busy = hand.busy)
    BY <1>5 DEF Returns, Boxes
  <2>3. AsksFromGood(x)' /\ Waits(x)'
    BY <1>0, <1>5, <2>1, <2>2 DEF AsksFromGood, Waits, Inited, Boundary
  <2> QED
    BY <1>0, <1>1, <1>5, <2>1, <2>3, KnownStays, CountingStays
<1> QED
  BY <1>1, <1>2, <1>4, <1>5 DEF OInv, AppliesBehind

\* stateDone, differenceDone: setState takes the pts of the answer and goes on with
\* the packets kept by their seq.
LEMMA SetStateStep ==
  ASSUME OInv, NEW n \in 0..Len(Log), NEW back \in {"final", "slice"},
         Ready, ask["common"] # "none", SetState(n, PtsAt["common"][n], back),
         base' \in [Boxes -> Nat], base'["channel"] = base["channel"],
         applied' \subseteq Events, applied \subseteq applied', KnownOf("common")',
         \A e \in applied' \ applied : BoxOf[e] = "common"
  PROVE  OInv' /\ AppliesBehind
<1> DEFINE pts == PtsAt["common"][n]
<1>0. TypeOK /\ Places /\ AsksFromGood("common") /\ "common" \in Boxes /\ Boxes = {"common", "channel"}
  BY DEF OInv, Boxes
<1>1. pts \in Nat /\ Boundary("common", pts) /\ SeqAt[n] \in Nat
  BY <1>0, ServerPts, ServerSeq
<1>2. /\ Start("common", pts) /\ dropped' = [dropped EXCEPT !["common"] = FALSE]
      /\ hand' = [seq |-> SeqAt[n], list |-> <<>>, busy |-> TRUE, back |-> back]
      /\ queue' = [queue EXCEPT !["common"] = {}]
      /\ UNCHANGED <<requesting, waiting, shortPoll, due, failDue, seqVars, minTimer, active, askVars,
                     net, length, faults>>
  BY DEF SetState, serverVars
<1> HIDE DEF pts
<1>3. requesting["common"] /\ hand.list = <<>>
  BY <1>0 DEF AsksFromGood, Places, Ready
<1>4. /\ good' \in [Boxes -> Nat] /\ last' \in [Boxes -> Nat] /\ count' \in [Boxes -> Nat]
      /\ good'["common"] = pts /\ last'["common"] = pts /\ count'["common"] = pts
      /\ dropped' \in [Boxes -> BOOLEAN]
  BY <1>0, <1>1, <1>2 DEF TypeOK, Start
<1>5. /\ queue' \in [Boxes -> SUBSET Events] /\ queue'["common"] = {}
      /\ queue'["channel"] = queue["channel"] /\ \A x \in Boxes : requesting'[x] => queue'[x] = {}
  BY <1>0, <1>2 DEF TypeOK
<1>6. /\ hand' \in Hands /\ hand'.list = <<>> /\ hand'.busy /\ hand'.back # "loop"
  BY <1>1, <1>2 DEF Hands
<1>7. TypeOK'
  BY <1>0, <1>2, <1>4, <1>5, <1>6 DEF TypeOK, Hands, seqVars, askVars
<1>8. AsksFromGood("common")'
  BY <1>1, <1>2, <1>3, <1>4, <1>6 DEF AsksFromGood, Returns, Boundary
<1>9. \A e \in applied' \ applied : requesting[BoxOf[e]]
  BY <1>3
<1>10. \A x \in Boxes \ {"common"} :
         /\ queue'[x] = queue[x] /\ requesting'[x] = requesting[x] /\ base'[x] = base[x]
         /\ ask'[x] = ask[x] /\ askPts'[x] = askPts[x]
  BY <1>0, <1>2, <1>5 DEF askVars
<1>11. bySeq' \subseteq bySeq
  BY <1>2 DEF seqVars
<1> QED
  BY <1>0, <1>1, <1>2, <1>3, <1>5, <1>6, <1>7, <1>8, <1>9, <1>10, <1>11, DoneStep

LEMMA StateDoneStep == ASSUME OInv, StateDone PROVE OInv' /\ AppliesBehind
<1> DEFINE n == upTo["common"]  pts == PtsAt["common"][n]
<1>0. TypeOK
  BY DEF OInv
<1>1. "common" \in Boxes /\ n \in 0..Len(Log)
  <2>1. "common" \in Boxes /\ upTo \in [Boxes -> -1..Len(Log)] /\ upTo["common"] # -1
    BY <1>0 DEF StateDone, Answered, TypeOK, Boxes
  <2>2. upTo["common"] \in -1..Len(Log)
    BY <2>1
  <2>3. Len(Log) \in Nat
    BY LogAssumption
  <2> QED
    BY <2>1, <2>2, <2>3
<1>2. pts \in Nat
  BY <1>1, ServerPts
<1>3. /\ SetState(n, pts, "final") /\ Ready /\ ask["common"] # "none"
      /\ base' = [base EXCEPT !["common"] = pts] /\ UNCHANGED applied
  BY DEF StateDone, Answered
<1>4. good' = [good EXCEPT !["common"] = pts]
  BY <1>3 DEF SetState, Start
<1>5. /\ base' \in [Boxes -> Nat] /\ base'["channel"] = base["channel"] /\ applied \subseteq Events
      /\ good'["common"] = pts /\ base'["common"] = pts
  <2> HIDE DEF pts
  <2> QED
    BY <1>0, <1>1, <1>2, <1>3, <1>4 DEF TypeOK, Boxes
<1>6. KnownOf("common")'
  BY <1>5 DEF KnownOf, Known
<1> HIDE DEF n
<1> QED
  BY <1>1, <1>3, <1>5, <1>6, SetStateStep

\* The request after an answer: the rest is asked for, or nothing.
LEMMA AnswerTaken ==
  ASSUME TypeOK, NEW b \in Boxes, AsksFromGood(b), ask[b] = "difference", NEW pts \in Nat,
         queue' = [queue EXCEPT ![b] = {}],
         \/ /\ askPts' = [askPts EXCEPT ![b] = pts] /\ upTo' = [upTo EXCEPT ![b] = -1]
            /\ failDue' = [failDue EXCEPT ![b] = FALSE] /\ UNCHANGED <<requesting, ask>>
         \/ /\ requesting' = [requesting EXCEPT ![b] = FALSE]
            /\ ask' = [ask EXCEPT ![b] = "none"] /\ upTo' = [upTo EXCEPT ![b] = -1]
            /\ UNCHANGED <<askPts, failDue>>
  PROVE  /\ requesting' \in [Boxes -> BOOLEAN] /\ ask' \in [Boxes -> {"none", "state", "difference"}]
         /\ upTo' \in [Boxes -> -1..Len(Log)] /\ failDue' \in [Boxes -> BOOLEAN]
         /\ askPts' \in [Boxes -> Nat] /\ queue' \in [Boxes -> SUBSET Events] /\ queue'[b] = {}
         /\ \A x \in Boxes \ {b} :
              /\ queue'[x] = queue[x] /\ requesting'[x] = requesting[x]
              /\ ask'[x] = ask[x] /\ askPts'[x] = askPts[x]
         /\ requesting[b] /\ \A x \in Boxes : requesting'[x] => queue'[x] = {}
         /\ ask'[b] = "none" \/ (requesting'[b] /\ askPts'[b] = pts)
<1>1. /\ requesting \in [Boxes -> BOOLEAN] /\ ask \in [Boxes -> {"none", "state", "difference"}]
      /\ upTo \in [Boxes -> -1..Len(Log)] /\ failDue \in [Boxes -> BOOLEAN]
      /\ askPts \in [Boxes -> Nat] /\ queue \in [Boxes -> SUBSET Events] /\ -1 \in -1..Len(Log)
      /\ \A x \in Boxes : requesting[x] => queue[x] = {}
  BY LogAssumption DEF TypeOK
<1>2. requesting[b]
  BY DEF AsksFromGood
<1>3. upTo' \in [Boxes -> -1..Len(Log)]
  BY <1>1
<1>4. queue' \in [Boxes -> SUBSET Events] /\ queue'[b] = {} /\ \A x \in Boxes \ {b} : queue'[x] = queue[x]
  BY <1>1
<1>5. CASE /\ askPts' = [askPts EXCEPT ![b] = pts]
           /\ failDue' = [failDue EXCEPT ![b] = FALSE] /\ UNCHANGED <<requesting, ask>>
  <2>1. askPts' \in [Boxes -> Nat] /\ failDue' \in [Boxes -> BOOLEAN] /\ askPts'[b] = pts
    BY <1>1, <1>5
  <2>2. \A x \in Boxes \ {b} : askPts'[x] = askPts[x] /\ requesting'[x] = requesting[x] /\ ask'[x] = ask[x]
    BY <1>1, <1>5
  <2> QED
    BY <1>1, <1>2, <1>3, <1>4, <1>5, <2>1, <2>2
<1>6. CASE /\ requesting' = [requesting EXCEPT ![b] = FALSE]
           /\ ask' = [ask EXCEPT ![b] = "none"] /\ UNCHANGED <<askPts, failDue>>
  <2>1. /\ requesting' \in [Boxes -> BOOLEAN] /\ ask' \in [Boxes -> {"none", "state", "difference"}]
        /\ ask'[b] = "none"
    BY <1>1, <1>6
  <2>2. \A x \in Boxes \ {b} : askPts'[x] = askPts[x] /\ requesting'[x] = requesting[x] /\ ask'[x] = ask[x]
    BY <1>1, <1>6
  <2> QED
    BY <1>1, <1>2, <1>3, <1>4, <1>6, <2>1, <2>2
<1> QED
  BY <1>5, <1>6

\* A difference brings what lies between the pts it was asked from and the pts it tells.
LEMMA DifferenceKnown ==
  ASSUME TypeOK, NEW b \in Boxes, AsksFromGood(b), ~Returns(b), KnownOf(b), ask[b] = "difference",
         NEW pts \in Nat, good'[b] = pts, base'[b] = base[b], applied' = applied \union Between(b, askPts[b], pts)
  PROVE  KnownOf(b)'
<1>1. askPts[b] = good[b] /\ good[b] \in Nat
  BY DEF AsksFromGood, TypeOK
<1> SUFFICES ASSUME NEW e \in Events, BoxOf[e] = b, PtsOf[e] =< pts PROVE Known(e)'
  BY DEF KnownOf
<1>2. PtsOf[e] \in Nat
  BY EventTypes
<1>3. CASE PtsOf[e] =< good[b]
  BY <1>3 DEF KnownOf, Known
<1>4. CASE ~(PtsOf[e] =< good[b])
  <2>1. e \in Between(b, askPts[b], pts)
    BY <1>1, <1>2, <1>4 DEF Between
  <2> QED
    BY <2>1 DEF Known
<1> QED
  BY <1>3, <1>4

LEMMA DifferenceDoneStep ==
  ASSUME OInv, NEW n \in 0..Len(Log), DifferenceDone(n) PROVE OInv' /\ AppliesBehind
<1> DEFINE from == askPts["common"]  pts == PtsAt["common"][n]
<1>0. TypeOK /\ AsksFromGood("common") /\ KnownOf("common") /\ "common" \in Boxes
  BY DEF OInv, Boxes
<1>1. pts \in Nat
  BY <1>0, ServerPts
<1>2. /\ ask["common"] = "difference" /\ Ready /\ UNCHANGED base
      /\ applied' = applied \union Between("common", from, pts)
      /\ SetState(n, pts, "slice") \/ SetState(n, pts, "final")
  BY DEF DifferenceDone, SliceEnd, Answered
<1>3. good' = [good EXCEPT !["common"] = pts]
  BY <1>2 DEF SetState, Start
<1>4. ~Returns("common")
  BY <1>0, <1>2 DEF AsksFromGood, Ready
<1>5. KnownOf("common")'
  <2> HIDE DEF pts
  <2>1. good'["common"] = pts /\ base'["common"] = base["common"]
    BY <1>0, <1>2, <1>3 DEF TypeOK
  <2> QED
    BY <1>0, <1>1, <1>2, <1>4, <2>1, DifferenceKnown
<1>6. Between("common", from, pts) \subseteq Events /\ \A e \in Between("common", from, pts) : BoxOf[e] = "common"
  BY DEF Between
<1>7. /\ base' \in [Boxes -> Nat] /\ base'["channel"] = base["channel"]
      /\ applied' \subseteq Events /\ applied \subseteq applied'
      /\ \A e \in applied' \ applied : BoxOf[e] = "common"
  BY <1>0, <1>2, <1>6 DEF TypeOK
<1> HIDE DEF from
<1> QED
  BY <1>2, <1>5, <1>7, SetStateStep

LEMMA ChannelDifferenceDoneStep ==
  ASSUME OInv, NEW n \in 0..Len(Log), NEW tooLong \in BOOLEAN, ChannelDifferenceDone(n, tooLong)
  PROVE  OInv' /\ AppliesBehind
<1> DEFINE b == "channel"  from == askPts["channel"]  pts == PtsAt["channel"][n]
<1>0. TypeOK /\ AsksFromGood("channel") /\ KnownOf("channel")
  BY DEF OInv, Boxes
<1>1. b \in Boxes /\ pts \in Nat /\ Boundary("channel", pts)
  BY ServerPts DEF Boxes
<1>2. /\ ask["channel"] = "difference"
      /\ \/ base' = [base EXCEPT !["channel"] = pts] /\ applied' = applied
         \/ applied' = applied \union Between("channel", from, pts) /\ base' = base
      /\ Start("channel", pts) /\ dropped' = [dropped EXCEPT !["channel"] = FALSE]
      /\ queue' = [queue EXCEPT !["channel"] = {}]
      /\ \/ /\ askPts' = [askPts EXCEPT !["channel"] = pts] /\ upTo' = [upTo EXCEPT !["channel"] = -1]
            /\ due' = [due EXCEPT !["channel"] = FALSE] /\ failDue' = [failDue EXCEPT !["channel"] = FALSE]
            /\ UNCHANGED <<requesting, ask, shortPoll>>
         \/ /\ requesting' = [requesting EXCEPT !["channel"] = FALSE]
            /\ ask' = [ask EXCEPT !["channel"] = "none"] /\ upTo' = [upTo EXCEPT !["channel"] = -1]
            /\ UNCHANGED <<askPts, failDue>> /\ Polled
      /\ UNCHANGED <<waiting, seqVars, minTimer, active, hand, net, length, faults>>
  BY DEF ChannelDifferenceDone, RequestDone, serverVars
<1> HIDE DEF pts
<1>3. /\ requesting' \in [Boxes -> BOOLEAN] /\ ask' \in [Boxes -> {"none", "state", "difference"}]
      /\ upTo' \in [Boxes -> -1..Len(Log)] /\ failDue' \in [Boxes -> BOOLEAN]
      /\ askPts' \in [Boxes -> Nat] /\ queue' \in [Boxes -> SUBSET Events] /\ queue'["channel"] = {}
      /\ \A x \in Boxes \ {"channel"} :
           /\ queue'[x] = queue[x] /\ requesting'[x] = requesting[x]
           /\ ask'[x] = ask[x] /\ askPts'[x] = askPts[x]
      /\ requesting["channel"] /\ \A x \in Boxes : requesting'[x] => queue'[x] = {}
      /\ ask'["channel"] = "none" \/ (requesting'["channel"] /\ askPts'["channel"] = pts)
  BY <1>0, <1>1, <1>2, AnswerTaken
<1>4. due' \in [Boxes -> BOOLEAN] /\ shortPoll' \in [Boxes -> BOOLEAN]
  <2>1. due \in [Boxes -> BOOLEAN] /\ shortPoll \in [Boxes -> BOOLEAN] /\ active \in BOOLEAN
        /\ waiting \in [Boxes -> BOOLEAN]
    BY <1>0 DEF TypeOK
  <2>2. due' \in [Boxes -> BOOLEAN]
    BY <1>1, <1>2, <2>1 DEF Polled, StopPolling
  <2>3. shortPoll' \in [Boxes -> BOOLEAN]
    BY <1>1, <1>2, <2>1 DEF Polled
  <2> QED
    BY <2>2, <2>3
<1>5. Between("channel", from, pts) \subseteq Events /\ \A e \in Between("channel", from, pts) : BoxOf[e] = "channel"
  BY DEF Between
<1>6. TypeOK'
  <2>1. good' \in [Boxes -> Nat] /\ last' \in [Boxes -> Nat] /\ count' \in [Boxes -> Nat]
    BY <1>0, <1>1, <1>2 DEF TypeOK, Start
  <2>2. dropped' \in [Boxes -> BOOLEAN]
    BY <1>0, <1>2 DEF TypeOK
  <2>3. base' \in [Boxes -> Nat] /\ applied' \subseteq Events
    <3>1. base \in [Boxes -> Nat] /\ applied \subseteq Events
      BY <1>0 DEF TypeOK
    <3>2. [base EXCEPT !["channel"] = pts] \in [Boxes -> Nat]
      BY <1>1, <3>1
    <3> QED
      BY <1>2, <1>5, <3>1, <3>2
  <2> QED
    BY <1>0, <1>2, <1>3, <1>4, <2>1, <2>2, <2>3 DEF TypeOK, seqVars
<1>7. good'["channel"] = pts
  BY <1>0, <1>1, <1>2 DEF TypeOK, Start
<1>8. KnownOf("channel")'
  <2>1. CASE base' = [base EXCEPT !["channel"] = pts]
    <3>1. base'["channel"] = pts
      BY <1>0, <1>1, <2>1 DEF TypeOK
    <3> QED
      BY <1>7, <3>1 DEF KnownOf, Known
  <2>2. CASE applied' = applied \union Between("channel", from, pts) /\ base' = base
    <3>1. ~Returns("channel")
      BY DEF Returns
    <3> QED
      BY <1>0, <1>1, <1>2, <1>7, <2>2, <3>1, DifferenceKnown
  <2> QED
    BY <1>2, <2>1, <2>2
<1>9. /\ \A e \in applied' \ applied : requesting[BoxOf[e]]
      /\ bySeq' \subseteq bySeq /\ applied \subseteq applied'
  BY <1>2, <1>3, <1>5 DEF seqVars
<1>10. \A x \in Boxes \ {"channel"} : base'[x] = base[x]
  <2>1. base \in [Boxes -> Nat]
    BY <1>0 DEF TypeOK
  <2> QED
    BY <1>2, <2>1
<1>11. AsksFromGood("channel")'
  BY <1>2, <1>3, <1>7 DEF AsksFromGood, Returns
<1> QED
  BY <1>1, <1>2, <1>3, <1>6, <1>8, <1>9, <1>10, <1>11, DoneStep DEF seqVars

\* The initial states: nothing is on its way, and no box stands anywhere.
LEMMA InitOInv == Init => OInv
<1> SUFFICES ASSUME Init PROVE OInv
  OBVIOUS
<1>1. TypeOK
  <2>1. /\ Len(Log) \in Nat /\ MaxFaults \in Nat /\ Boxes = {"common", "channel"}
        /\ Nothing \in Hands
    BY LogAssumption, BoundAssumption DEF Boxes, Nothing, Hands
  <2>2. /\ good \in [Boxes -> Nat] /\ last \in [Boxes -> Nat] /\ count \in [Boxes -> Nat]
        /\ queue \in [Boxes -> SUBSET Events] /\ requesting \in [Boxes -> BOOLEAN]
        /\ waiting \in [Boxes -> BOOLEAN] /\ base \in [Boxes -> Nat]
    BY DEF Init
  <2>3. /\ ask \in [Boxes -> {"none", "state", "difference"}] /\ askPts \in [Boxes -> Nat]
        /\ upTo \in [Boxes -> -1..Len(Log)]
    BY <2>1 DEF Init
  <2>5. /\ shortPoll \in [Boxes -> BOOLEAN] /\ due \in [Boxes -> BOOLEAN]
        /\ failDue \in [Boxes -> BOOLEAN] /\ dropped \in [Boxes -> BOOLEAN]
        /\ waiting \in [Boxes -> BOOLEAN] /\ hand \in Hands
    BY <2>1 DEF Init
  <2>4. \A b \in Boxes : requesting[b] => queue[b] = {}
    BY DEF Init
  <2>6. /\ seq = 0 /\ bySeq = {} /\ seqTimer = FALSE /\ ranOut = FALSE /\ minTimer = FALSE
        /\ active = FALSE /\ length = 0 /\ net = {} /\ applied = {} /\ faults = 0
    BY DEF Init
  <2>7. length \in 0..Len(Log) /\ faults \in 0..MaxFaults /\ seq \in Nat
    BY <2>1, <2>6
  <2>8. /\ seqTimer \in BOOLEAN /\ ranOut \in BOOLEAN /\ minTimer \in BOOLEAN /\ active \in BOOLEAN
        /\ bySeq \subseteq DOMAIN Log /\ net \subseteq DOMAIN Log /\ applied \subseteq Events
    BY <2>6
  <2> QED
    BY <2>2, <2>3, <2>4, <2>5, <2>7, <2>8 DEF TypeOK, Hands
<1>2. Places
  <2>1. net = {} /\ bySeq = {} /\ hand.list = <<>>
    BY DEF Init, Nothing
  <2>2. InHandStill = {} /\ DOMAIN hand.list = {}
    BY <2>1 DEF InHandStill
  <2> QED
    BY <2>1, <2>2 DEF Places
<1>3. OwnApplied
  BY DEF Init, OwnApplied
<1>4. ASSUME NEW b \in Boxes PROVE AsksFromGood(b) /\ Waits(b) /\ CountingOf(b) /\ KnownOf(b)
  <2>1. good[b] = 0 /\ queue[b] = {} /\ requesting[b] = (b = "common")
        /\ ask[b] = (IF b = "common" THEN "state" ELSE "none")
    BY DEF Init
  <2>2. \A e \in Events : PtsOf[e] \in Nat /\ PtsOf[e] > 0
    BY EventTypes
  <2>3. AsksFromGood(b)
    BY <2>1 DEF AsksFromGood, Returns, Init, Nothing
  <2>4. Waits(b) /\ CountingOf(b)
    BY <2>1 DEF Waits, CountingOf, Inited
  <2>5. KnownOf(b)
    BY <2>1, <2>2 DEF KnownOf
  <2> QED
    BY <2>3, <2>4, <2>5
<1> QED
  BY <1>1, <1>2, <1>3, <1>4 DEF OInv

\* Nothing changes.
LEMMA StutterStep == ASSUME OInv, UNCHANGED vars PROVE OInv' /\ AppliesBehind
<1>0. TypeOK /\ Places
  BY DEF OInv
<1>1. /\ UNCHANGED <<ptsVars, waitVars, failDue, seqVars, minTimer, active, hand>>
      /\ UNCHANGED <<askVars, serverVars, knownVars, faults>>
  BY DEF vars
<1>2. TypeOK'
  BY <1>0, <1>1 DEF TypeOK, ptsVars, waitVars, seqVars, askVars, serverVars, knownVars
<1>3. Places' /\ Fresh' \subseteq Fresh /\ net' \subseteq net /\ BackStays
  BY <1>0, <1>1, PlacesStay DEF seqVars, serverVars
<1> QED
  BY <1>1, <1>2, <1>3, StillStep DEF NothingCounted, waitVars, askVars

LEMMA StepOInv == OInv /\ [Next]_vars => OInv' /\ AppliesBehind
<1> SUFFICES ASSUME OInv, [Next]_vars PROVE OInv' /\ AppliesBehind
  OBVIOUS
<1>0. "common" \in Boxes
  BY DEF Boxes
<1>1. CASE UNCHANGED vars
  BY <1>1, StutterStep
<1>2. CASE ServerEmits
  BY <1>2, EmitsStep
<1>3. ASSUME NEW b \in Boxes, ServerAnswers(b) PROVE OInv' /\ AppliesBehind
  BY <1>3, AnswersStep
<1>4. ASSUME NEW b \in Boxes, DifferenceFails(b) PROVE OInv' /\ AppliesBehind
  BY <1>4, FailsStep
<1>5. ASSUME NEW b \in Boxes, FailTimer(b) PROVE OInv' /\ AppliesBehind
  BY <1>5, ReaskStep
<1>6. ASSUME NEW b \in Boxes, PtsTimer(b) \/ TooLong(b) PROVE OInv' /\ AppliesBehind
  BY <1>6, TimersStep
<1>7. CASE SeqTimer \/ MinTimer
  BY <1>0, <1>7, TimersStep, SeqTimerStep
<1>8. ASSUME NEW k \in DOMAIN Log, UpdateReceived(k) \/ AnswerReceived(k)
      PROVE  OInv' /\ AppliesBehind
  BY <1>8, ReceivedStep
<1>9. ASSUME NEW k \in DOMAIN Log, AffectedReceived(k) PROVE OInv' /\ AppliesBehind
  BY <1>9, AffectedStep
<1>10. ASSUME NEW pts \in MerePts, PtsReceived(pts) PROVE OInv' /\ AppliesBehind
  BY <1>10, PtsReceivedStep
<1>11. CASE FeedUpdate
  BY <1>11, FeedStep
<1>12. CASE FeedUnknown
  BY <1>12, FeedUnknownStep
<1>13. CASE TakeNext \/ FinishUpdates
  BY <1>13, TakeNextStep, FinishStep
<1>14. CASE StateDone
  BY <1>14, StateDoneStep
<1>15. CASE AnyDifferenceDone
  BY <1>15, DifferenceDoneStep DEF AnyDifferenceDone
<1>16. CASE AnyChannelDifferenceDone
  BY <1>16, ChannelDifferenceDoneStep DEF AnyChannelDifferenceDone
<1>17. CASE NewSession
  BY <1>17, NewSessionStep
<1>18. CASE ShowChannel \/ \E closed \in BOOLEAN : HideChannel(closed)
  BY <1>18, ShownStep
<1> QED
  BY <1>1, <1>2, <1>3, <1>4, <1>5, <1>6, <1>7, <1>8, <1>9, <1>10, <1>11, <1>12, <1>13, <1>14,
     <1>15, <1>16, <1>17, <1>18 DEF Next

-----------------------------------------------------------------------------
(* What follows *)

\* The order of the updates is kept by every step, from the start.
THEOREM OrderInvariant == Spec => []OInv
<1>1. OInv /\ [Next]_vars => OInv'
  BY StepOInv
<1> QED
  BY InitOInv, <1>1, PTL DEF Spec

\* The types: what a box waits with is empty while it asks for the difference, the
\* packets kept by seq and on the way are packets of the log.
THEOREM TypesAreKept == Spec => []TypeOK
<1>1. OInv => TypeOK
  BY DEF OInv
<1> QED
  BY <1>1, OrderInvariant, PTL

\* However updates are lost, late or out of order, and whatever difference is asked
\* for, fails or comes in slices: the client applied, or got with a snapshot, every
\* update up to the pts it stands at (PtsWaiter::updated, setRequesting, init).
THEOREM NothingIsSkipped == Spec => []NothingSkipped
<1>1. OInv => NothingSkipped
  <2> SUFFICES ASSUME OInv, NEW e \in Events, PtsOf[e] =< good[BoxOf[e]] PROVE Known(e)
    BY DEF NothingSkipped
  <2>1. BoxOf[e] \in Boxes
    BY EventTypes
  <2> QED
    BY <2>1 DEF OInv, KnownOf
<1> QED
  BY <1>1, OrderInvariant, PTL

\* Outside of a difference an update is applied when those before it in its box are,
\* unless a mere pts ended the wait for them (PtsWaiter::updateAndApply,
\* applySkippedUpdates).
THEOREM UpdatesInOrder == Spec => AppliedInOrder
<1> DEFINE Ordered ==
      \A e \in applied' \ applied, f \in Events :
        LET b == BoxOf[e] IN
        /\ length' = length /\ ~requesting[b] /\ ~dropped[b] /\ ~dropped'[b]
        /\ BoxOf[f] = b /\ PtsOf[f] < PtsOf[e]
        => f \in applied' \/ PtsOf[f] =< base'[b]
<1>1. OInv /\ [Next]_vars => [Ordered]_vars
  <2> SUFFICES ASSUME OInv, [Next]_vars,
                      NEW e \in applied' \ applied, NEW f \in Events,
                      length' = length, ~requesting[BoxOf[e]], ~dropped'[BoxOf[e]],
                      BoxOf[f] = BoxOf[e], PtsOf[f] < PtsOf[e]
               PROVE  f \in applied' \/ PtsOf[f] =< base'[BoxOf[e]]
    OBVIOUS
  <2>1. OInv' /\ AppliesBehind
    BY StepOInv
  <2>2. applied' \subseteq Events /\ good' \in [Boxes -> Nat] /\ \A b \in Boxes : KnownOf(b)'
    BY <2>1 DEF OInv, TypeOK
  <2>3. BoxOf[e] \in Boxes /\ PtsOf[e] \in Nat /\ PtsOf[f] \in Nat
    BY <2>2, EventTypes
  <2>4. PtsOf[e] =< good'[BoxOf[e]] /\ good'[BoxOf[e]] \in Nat
    BY <2>1, <2>2, <2>3 DEF AppliesBehind
  <2>5. PtsOf[f] =< good'[BoxOf[e]]
    BY <2>3, <2>4
  <2>6. Known(f)'
    BY <2>2, <2>3, <2>5 DEF KnownOf
  <2> QED
    BY <2>6 DEF Known
<1> QED
  BY <1>1, OrderInvariant, PTL DEF Spec, AppliedInOrder
=============================================================================
