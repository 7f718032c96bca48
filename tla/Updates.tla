------------------------------ MODULE Updates -------------------------------
(***************************************************************************)
(* The order of updates: Api::Updates and the PtsWaiter of the account and *)
(* of one channel.  The server numbers what happens in a box by pts; an    *)
(* update says the pts it leads to and how many numbers it takes.  Updates *)
(* that come too early wait in a queue; when one is missing for too long   *)
(* the client asks for the difference.  Packets of updates are numbered    *)
(* too, by seq.                                                            *)
(*                                                                         *)
(* All of it runs on the main thread.  A packet is fed update by update    *)
(* (Feed), and `hand` keeps every other event of that thread out.  The     *)
(* server is not in src/: it has a log of packets, pushes those that are   *)
(* not answers to the client's own requests in any order, and tells the    *)
(* difference between any pts and the log.                                 *)
(***************************************************************************)
EXTENDS Integers, Sequences, FiniteSets

CONSTANTS Events,    \* what happens: the updates
          BoxOf,     \* "common" or "channel"
          PtsOf,     \* the pts an update leads to
          CountOf,   \* its pts_count
          Log,       \* the server's packets in order: [seq, kind, list]
          MerePts,   \* the pts told with a list of messages of the channel
          MaxFaults  \* bound: failures, lost sessions, unknown senders, hints, showing a channel

Boxes == {"common", "channel"}
Kinds == {"push", "answer", "affected"}

ASSUME EventsAssumption ==
  /\ IsFiniteSet(Events) /\ BoxOf \in [Events -> Boxes]
  /\ PtsOf \in [Events -> Nat] /\ CountOf \in [Events -> Nat \ {0}]
  /\ \A e, f \in Events : BoxOf[e] = BoxOf[f] /\ e # f /\ PtsOf[e] =< PtsOf[f]
                          => PtsOf[e] =< PtsOf[f] - CountOf[f]
  /\ \A f \in Events : \/ PtsOf[f] = 1 + CountOf[f]
                       \/ \E e \in Events : BoxOf[e] = BoxOf[f] /\ PtsOf[e] = PtsOf[f] - CountOf[f]
ASSUME LogAssumption ==
  /\ Log \in Seq([seq : Nat, kind : Kinds, list : Seq(Events)])
  /\ \A k \in DOMAIN Log : Log[k].kind = "affected" => Len(Log[k].list) = 1
\* The client counts an update whenever it comes: the server puts it into one packet.
ASSUME OnceAssumption ==
  \A k, j \in DOMAIN Log : \A i \in DOMAIN Log[k].list, m \in DOMAIN Log[j].list :
    Log[k].list[i] = Log[j].list[m] => k = j /\ i = m
\* A mere pts is one that the channel had: of its first state, or after an update.
ASSUME MereAssumption ==
  MerePts \subseteq {1} \union {PtsOf[e] : e \in {x \in Events : BoxOf[x] = "channel"}}
ASSUME BoundAssumption == MaxFaults \in Nat /\ MerePts \subseteq Nat \ {0}

VARIABLES
  \* PtsWaiter, one for each box
  good, last, count,  \* _good, _last, _count
  queue,              \* the updates in _queue
  requesting,         \* _requesting
  waiting,            \* _waitingForSkipped
  shortPoll,          \* _waitingForShortPoll
  \* Updates
  due,                \* _getDifferenceTimeByPts, _whenGetDiffByPts
  failDue,            \* _getDifferenceTimeAfterFail, _whenGetDiffAfterFail
  seq,                \* _updatesSeq
  bySeq,              \* positions in the log of the packets in _bySeqUpdates
  seqTimer,           \* _bySeqTimer
  minTimer,           \* _byMinChannelTimer
  active,             \* the channel is among _activeChats
  hand,               \* the packet applyUpdates works on, and where setState returns to
  \* requests for a state or a difference
  ask,                \* none, state, difference
  askPts, upTo,       \* the pts asked from; the length of the log answered for, or -1
  \* the server, the network and history
  length,             \* packets in the log so far
  net,                \* packets on the way
  applied,            \* updates applied
  base,               \* what a snapshot told: everything up to this pts
  dropped,            \* a mere pts ended the wait for updates before this one
  ranOut,             \* _bySeqTimer ran out during a difference, which left _bySeqUpdates alone
  faults

ptsVars == <<good, last, count>>
waitVars == <<queue, requesting, waiting, shortPoll, due>>
seqVars == <<seq, bySeq, seqTimer, ranOut>>
askVars == <<ask, askPts, upTo>>
serverVars == <<length, net>>
knownVars == <<applied, base, dropped>>
vars == <<ptsVars, waitVars, failDue, seqVars, minTimer, active, hand, askVars, serverVars,
          knownVars, faults>>

Nothing == [seq |-> 0, list |-> <<>>, busy |-> FALSE, back |-> "loop"]

TypeOK ==
  /\ good \in [Boxes -> Nat] /\ last \in [Boxes -> Nat] /\ count \in [Boxes -> Nat]
  /\ queue \in [Boxes -> SUBSET Events]
  /\ requesting \in [Boxes -> BOOLEAN] /\ waiting \in [Boxes -> BOOLEAN]
  /\ shortPoll \in [Boxes -> BOOLEAN] /\ due \in [Boxes -> BOOLEAN]
  /\ failDue \in [Boxes -> BOOLEAN] /\ seq \in Nat /\ bySeq \subseteq DOMAIN Log
  /\ seqTimer \in BOOLEAN /\ minTimer \in BOOLEAN /\ active \in BOOLEAN
  /\ ranOut \in BOOLEAN
  /\ hand \in [seq : Nat, list : Seq(Events), busy : BOOLEAN, back : {"loop", "final", "slice"}]
  /\ ask \in [Boxes -> {"none", "state", "difference"}]
  /\ askPts \in [Boxes -> Nat] /\ upTo \in [Boxes -> -1..Len(Log)]
  /\ length \in 0..Len(Log) /\ net \subseteq DOMAIN Log
  /\ applied \subseteq Events /\ base \in [Boxes -> Nat] /\ dropped \in [Boxes -> BOOLEAN]
  /\ faults \in 0..MaxFaults
  /\ \A b \in Boxes : requesting[b] => queue[b] = {}

\* The account starts by asking for its state; the channel is not known yet.
Init ==
  /\ good = [b \in Boxes |-> 0] /\ last = good /\ count = good
  /\ queue = [b \in Boxes |-> {}] /\ requesting = [b \in Boxes |-> b = "common"]
  /\ waiting = [b \in Boxes |-> FALSE] /\ shortPoll = waiting /\ due = waiting
  /\ failDue = waiting /\ seq = 0 /\ bySeq = {} /\ seqTimer = FALSE /\ ranOut = FALSE
  /\ minTimer = FALSE /\ active = FALSE /\ hand = Nothing
  /\ ask = [b \in Boxes |-> IF b = "common" THEN "state" ELSE "none"]
  /\ askPts = [b \in Boxes |-> 0] /\ upTo = [b \in Boxes |-> -1]
  /\ length = 0 /\ net = {} /\ applied = {} /\ base = good
  /\ dropped = waiting /\ faults = 0

-----------------------------------------------------------------------------
(* What the server knows *)

EventsOf(k) == {Log[k].list[i] : i \in DOMAIN Log[k].list}
EventsIn(n) == UNION {EventsOf(k) : k \in 1..n}

\* The pts of a box, and the seq, after n packets of the log.
PtsAt ==
  [b \in Boxes |-> [n \in 0..Len(Log) |->
     LET P == {1} \union {PtsOf[e] : e \in {x \in EventsIn(n) : BoxOf[x] = b}}
     IN CHOOSE p \in P : \A q \in P : q =< p]]
SeqAt ==
  [n \in 0..Len(Log) |->
     LET S == {0} \union {Log[k].seq : k \in 1..n} IN CHOOSE s \in S : \A r \in S : r =< s]

Between(b, from, to) == {e \in Events : BoxOf[e] = b /\ from < PtsOf[e] /\ PtsOf[e] =< to}

Ready == ~hand.busy
Fault == faults < MaxFaults /\ faults' = faults + 1

-----------------------------------------------------------------------------
(* PtsWaiter *)

Inited(b) == good[b] > 0

\* init.
Start(b, pts) ==
  /\ good' = [good EXCEPT ![b] = pts] /\ last' = [last EXCEPT ![b] = pts]
  /\ count' = [count EXCEPT ![b] = pts]

\* applySkippedUpdates, with the update that filled the gap among new: the wait
\* ends, its timer with it unless a short poll needs it, and the queue is applied.
ApplySkipped(b, new, timer) ==
  /\ waiting' = [waiting EXCEPT ![b] = FALSE]
  /\ due' = [due EXCEPT ![b] = timer /\ shortPoll[b]]
  /\ applied' = applied \union queue[b] \union new
  /\ queue' = [queue EXCEPT ![b] = {}]

\* What updateAndApply does with an update it may apply: at once if nothing
\* waits for it.  A mere pts ends a wait even if nothing is in the queue.
Apply(b, new) ==
  IF waiting[b] /\ (queue[b] # {} \/ new = {})
    THEN ApplySkipped(b, new, due[b])
    ELSE applied' = applied \union new /\ UNCHANGED <<waiting, due, queue>>

Old(b, pts, n) == pts =< good[b] /\ n > 0

LastWith(b, pts) == IF pts > last[b] THEN pts ELSE last[b]

\* Mutant: a pts ahead of what was counted is in order.
InOrderOrAhead(b, pts, n) == LastWith(b, pts) >= count[b] + n

InOrder(b, pts, n) == LastWith(b, pts) = count[b] + n

\* What comes while the difference is asked for: the difference counts it.
Uncounted(b) == requesting[b]

\* updateAndApply with the updates new (one, or none for a mere pts).
UpdateAndApply(b, pts, n, new) ==
  \/ /\ Uncounted(b)
     /\ Apply(b, new) /\ UNCHANGED <<ptsVars, base, dropped>>
  \/ /\ ~Uncounted(b) /\ Old(b, pts, n)
     /\ UNCHANGED <<ptsVars, waiting, due, queue, knownVars>>
  \/ /\ ~Uncounted(b) /\ ~Old(b, pts, n) /\ ~Inited(b)
     /\ Start(b, pts) /\ base' = [base EXCEPT ![b] = pts]
     /\ Apply(b, new) /\ UNCHANGED dropped
  \/ /\ ~Uncounted(b) /\ ~Old(b, pts, n) /\ Inited(b)
     /\ last' = [last EXCEPT ![b] = LastWith(b, pts)]
     /\ count' = [count EXCEPT ![b] = @ + n]
     /\ UNCHANGED base
     /\ IF InOrder(b, pts, n)
          THEN /\ good' = [good EXCEPT ![b] = last'[b]]
               /\ Apply(b, new) /\ dropped' = [dropped EXCEPT ![b] = FALSE]
        ELSE IF n > 0
          THEN /\ waiting' = [waiting EXCEPT ![b] = TRUE] /\ due' = [due EXCEPT ![b] = TRUE]
               /\ queue' = [queue EXCEPT ![b] = @ \union new]
               /\ UNCHANGED <<good, applied, dropped>>
          ELSE /\ ApplySkipped(b, new, TRUE)
               /\ dropped' = [dropped EXCEPT ![b] = TRUE] /\ UNCHANGED good

-----------------------------------------------------------------------------
(* Updates: asking for the difference *)

\* Mutant: what waits is kept over the difference.
AskKeepsQueue(b) ==
  /\ requesting' = [requesting EXCEPT ![b] = TRUE] /\ UNCHANGED queue
  /\ ask' = [ask EXCEPT ![b] = "difference"]
  /\ askPts' = [askPts EXCEPT ![b] = good[b]] /\ upTo' = [upTo EXCEPT ![b] = -1]

\* setRequesting(true), and the request from the pts reached.
Ask(b) ==
  /\ requesting' = [requesting EXCEPT ![b] = TRUE]
  /\ queue' = [queue EXCEPT ![b] = {}]
  /\ ask' = [ask EXCEPT ![b] = "difference"]
  /\ askPts' = [askPts EXCEPT ![b] = good[b]] /\ upTo' = [upTo EXCEPT ![b] = -1]

NoAsk == UNCHANGED <<requesting, queue, askVars>>

\* No packet is kept by its seq any more.
NoneKept == bySeq' = {} /\ seqTimer' = FALSE /\ ranOut' = FALSE

\* getDifference.
GetDifference ==
  /\ due' = [due EXCEPT !["common"] = FALSE]
  /\ IF requesting["common"]
       THEN NoAsk /\ UNCHANGED <<bySeq, seqTimer, ranOut, failDue>>
       ELSE /\ Ask("common") /\ NoneKept
            /\ failDue' = [failDue EXCEPT !["common"] = FALSE]
  /\ UNCHANGED <<waiting, shortPoll, seq>>

\* getChannelDifference.
GetChannelDifference ==
  /\ due' = [due EXCEPT !["channel"] = FALSE]
  /\ IF requesting["channel"] \/ ~Inited("channel")
       THEN NoAsk /\ UNCHANGED failDue
       ELSE Ask("channel") /\ failDue' = [failDue EXCEPT !["channel"] = FALSE]
  /\ UNCHANGED <<waiting, shortPoll, seqVars>>

Difference(b) == IF b = "common" THEN GetDifference ELSE GetChannelDifference

NothingCounted == UNCHANGED <<ptsVars, knownVars>>

\* A difference asked for by something other than a packet being fed.
Asked(b) == Difference(b) /\ NothingCounted

-----------------------------------------------------------------------------
(* The server and the network *)

OwnEffect(k) == IF Log[k].kind = "affected" THEN EventsOf(k) ELSE {}

\* The next packet of the log.  What the client's own request does to the
\* history is applied by the client itself, before the answer tells its pts.
ServerEmits ==
  /\ length < Len(Log) /\ length' = length + 1
  /\ net' = net \union {length + 1} /\ applied' = applied \union OwnEffect(length + 1)
  /\ UNCHANGED <<ptsVars, waitVars, failDue, seqVars, minTimer, active, hand, askVars,
                 base, dropped, faults>>

ServerAnswers(b) ==
  /\ ask[b] # "none" /\ upTo[b] = -1 /\ upTo' = [upTo EXCEPT ![b] = length]
  /\ UNCHANGED <<ptsVars, waitVars, failDue, seqVars, minTimer, active, hand, ask, askPts,
                 serverVars, knownVars, faults>>

-----------------------------------------------------------------------------
(* Packets *)

\* applyUpdates up to feedUpdateVector: a packet that is no news, comes too
\* early, or is taken in hand.
ApplyUpdates(k) ==
  LET s == Log[k].seq IN
  /\ IF s # 0 /\ s =< seq
       THEN UNCHANGED <<bySeq, seqTimer, ranOut, hand>>
     ELSE IF s > seq + 1
       THEN /\ bySeq' = bySeq \union {k} /\ seqTimer' = TRUE /\ ranOut' = FALSE
            /\ UNCHANGED hand
       ELSE /\ hand' = [seq |-> s, list |-> Log[k].list, busy |-> TRUE, back |-> "loop"]
            /\ UNCHANGED <<bySeq, seqTimer, ranOut>>
  /\ UNCHANGED seq

\* mtpUpdateReceived: nothing pushed is looked at while the difference is asked for.
UpdateReceived(k) ==
  /\ Ready /\ k \in net /\ Log[k].kind = "push" /\ net' = net \ {k}
  /\ IF requesting["common"] THEN UNCHANGED <<seqVars, hand>> ELSE ApplyUpdates(k)
  /\ UNCHANGED <<ptsVars, waitVars, failDue, minTimer, active, askVars, length, knownVars, faults>>

\* The answer to a request of the client is fed whatever is asked for.
AnswerReceived(k) ==
  /\ Ready /\ k \in net /\ Log[k].kind = "answer" /\ net' = net \ {k} /\ ApplyUpdates(k)
  /\ UNCHANGED <<ptsVars, waitVars, failDue, minTimer, active, askVars, length, knownVars, faults>>

\* applyAffectedHistory, applyAffectedMessages: the pts of what is applied already.
AffectedReceived(k) ==
  LET e == Log[k].list[1] IN
  /\ Ready /\ k \in net /\ Log[k].kind = "affected" /\ net' = net \ {k}
  /\ UpdateAndApply(BoxOf[e], PtsOf[e], CountOf[e], {})
  /\ UNCHANGED <<requesting, shortPoll, failDue, seqVars, minTimer, active, hand, askVars,
                 length, faults>>

\* ptsReceived: a list of messages of the channel comes with the pts it had.
PtsReceived(pts) ==
  /\ Ready /\ pts =< PtsAt["channel"][length]
  /\ UpdateAndApply("channel", pts, 0, {})
  /\ UNCHANGED <<requesting, shortPoll, failDue, seqVars, minTimer, active, hand, askVars,
                 serverVars, faults>>

\* feedUpdate for a message of a channel that is loaded.
FeedChannel(e) ==
  IF requesting["channel"]
    THEN UNCHANGED <<ptsVars, waiting, due, queue, knownVars>>
    ELSE UpdateAndApply("channel", PtsOf[e], CountOf[e], {e})

\* feedUpdate for the next update of the packet.
FeedUpdate ==
  LET e == Head(hand.list) IN
  /\ hand.busy /\ hand.list # <<>> /\ hand' = [hand EXCEPT !.list = Tail(@)]
  /\ IF BoxOf[e] = "common"
       THEN UpdateAndApply("common", PtsOf[e], CountOf[e], {e})
       ELSE FeedChannel(e)
  /\ UNCHANGED <<requesting, shortPoll, failDue, seqVars, minTimer, active, askVars, serverVars,
                 faults>>

\* The same update when its sender or its chat is not loaded: the difference
\* brings them; for a channel only after a wait.
FeedUnknown ==
  LET e == Head(hand.list) IN
  /\ hand.busy /\ hand.list # <<>> /\ ~requesting["common"] /\ Fault
  /\ hand' = [hand EXCEPT !.list = Tail(@)] /\ NothingCounted
  /\ IF BoxOf[e] = "common"
       THEN GetDifference /\ UNCHANGED minTimer
       ELSE minTimer' = TRUE /\ UNCHANGED <<waitVars, failDue, seqVars, askVars>>
  /\ UNCHANGED <<active, serverVars>>

\* setState with a new seq: the packets kept that it makes old, and the one it makes next.
NewSeq(s) == s # 0 /\ s # seq
NextPackets(s) == {k \in bySeq : NewSeq(s) /\ Log[k].seq = s + 1}
StillKept(s) == {k \in bySeq : NewSeq(s) => Log[k].seq > s + 1}

\* setState at the end of applyUpdates or of a difference: the loop over the
\* packets kept returns into applyUpdates with the next one.
TakeNext ==
  LET s == hand.seq IN
  /\ hand.busy /\ hand.list = <<>>
  /\ \E k \in NextPackets(s) : hand' = [hand EXCEPT !.seq = Log[k].seq, !.list = Log[k].list]
  /\ seq' = s /\ bySeq' = StillKept(s) /\ seqTimer' = FALSE /\ ranOut' = FALSE
  /\ UNCHANGED <<ptsVars, waitVars, failDue, minTimer, active, askVars, serverVars, knownVars, faults>>

\* setState keeps the other packets, with a timer when the seq is a new one.
KeepOthers(s) ==
  /\ bySeq' = StillKept(s)
  /\ IF NewSeq(s) THEN seqTimer' = (bySeq' # {}) /\ ranOut' = FALSE
                  ELSE UNCHANGED <<seqTimer, ranOut>>

\* After a slice setRequesting(false), and getDifference asks for the rest.
AskForRest ==
  /\ NoneKept
  /\ askPts' = [askPts EXCEPT !["common"] = good["common"]]
  /\ upTo' = [upTo EXCEPT !["common"] = -1]
  /\ due' = [due EXCEPT !["common"] = FALSE] /\ failDue' = [failDue EXCEPT !["common"] = FALSE]
  /\ UNCHANGED <<requesting, ask>>

RequestDone(b) ==
  ask' = [ask EXCEPT ![b] = "none"] /\ upTo' = [upTo EXCEPT ![b] = -1] /\ UNCHANGED askPts

\* The end of setState, and of applyUpdates, stateDone or differenceDone that called it.
FinishUpdates ==
  LET s == hand.seq IN
  /\ hand.busy /\ hand.list = <<>> /\ NextPackets(s) = {} /\ hand' = Nothing
  /\ seq' = IF s = 0 THEN seq ELSE s
  /\ \/ hand.back = "loop" /\ KeepOthers(s) /\ UNCHANGED <<requesting, askVars, due, failDue>>
     \/ hand.back = "slice" /\ AskForRest
     \/ /\ hand.back = "final" /\ KeepOthers(s) /\ RequestDone("common")
        /\ requesting' = [requesting EXCEPT !["common"] = FALSE] /\ UNCHANGED <<due, failDue>>
  /\ UNCHANGED <<ptsVars, queue, waiting, shortPoll, minTimer, active, serverVars, knownVars, faults>>

-----------------------------------------------------------------------------
(* Answers about the state and the difference *)

Answered(b) == Ready /\ upTo[b] # -1

\* setState for the state after n packets: the pts, and in hand the rest of it,
\* as the loop over the packets kept by their seq runs before setRequesting(false).
SetState(n, pts, back) ==
  /\ Start("common", pts) /\ dropped' = [dropped EXCEPT !["common"] = FALSE]
  /\ hand' = [seq |-> SeqAt[n], list |-> <<>>, busy |-> TRUE, back |-> back]
  /\ queue' = [queue EXCEPT !["common"] = {}]
  /\ UNCHANGED <<requesting, waiting, shortPoll, due, failDue, seqVars, minTimer, active, askVars,
                 serverVars, faults>>

\* stateDone for the first state.
StateDone ==
  LET n == upTo["common"] pts == PtsAt["common"][n] IN
  /\ Answered("common") /\ ask["common"] = "state"
  /\ base' = [base EXCEPT !["common"] = pts] /\ SetState(n, pts, "final") /\ UNCHANGED applied

\* Mutant: the state of the whole difference is taken with its first slice.
SliceEndFull(n, whole) == whole

SliceEnd(n, whole) == n

\* differenceDone: empty, everything, or a slice with its intermediate state,
\* after which the rest is asked for.
DifferenceDone(n) ==
  LET from == askPts["common"]  whole == upTo["common"]
      pts == PtsAt["common"][SliceEnd(n, whole)]  wholePts == PtsAt["common"][whole]
      slice == n # whole IN
  /\ Answered("common") /\ ask["common"] = "difference"
  /\ n =< whole /\ (slice => from < PtsAt["common"][n] /\ PtsAt["common"][n] < wholePts)
  /\ applied' = applied \union Between("common", from, PtsAt["common"][n])
  /\ SetState(n, pts, IF slice THEN "slice" ELSE "final") /\ UNCHANGED base

\* Mutant: the timer is stopped whoever else waits for it.
StopPollingForAll == [due EXCEPT !["channel"] = FALSE]

\* The end of a short poll stops the timer unless an update is waited for.
StopPolling == [due EXCEPT !["channel"] = @ /\ waiting["channel"]]

\* The end of channelDifferenceDone when the difference is final: the short poll
\* of a channel that is shown, or the end of waiting.
Polled ==
  /\ shortPoll' = [shortPoll EXCEPT !["channel"] = active]
  /\ due' = IF active THEN [due EXCEPT !["channel"] = TRUE] ELSE StopPolling

\* channelDifferenceDone, up to the packet n.
ChannelDifferenceDone(n, tooLong) ==
  LET from == askPts["channel"]  whole == upTo["channel"]  pts == PtsAt["channel"][n]
      part == n # whole IN
  /\ Answered("channel") /\ ask["channel"] = "difference"
  /\ n =< whole /\ (tooLong => ~part)
  /\ part => from < pts /\ pts < PtsAt["channel"][whole]
  /\ IF tooLong
       THEN base' = [base EXCEPT !["channel"] = pts] /\ UNCHANGED applied
       ELSE applied' = applied \union Between("channel", from, pts) /\ UNCHANGED base
  /\ Start("channel", pts) /\ dropped' = [dropped EXCEPT !["channel"] = FALSE]
  /\ queue' = [queue EXCEPT !["channel"] = {}]
  /\ IF part
       THEN /\ askPts' = [askPts EXCEPT !["channel"] = pts] /\ upTo' = [upTo EXCEPT !["channel"] = -1]
            /\ due' = [due EXCEPT !["channel"] = FALSE]
            /\ failDue' = [failDue EXCEPT !["channel"] = FALSE]
            /\ UNCHANGED <<requesting, ask, shortPoll>>
       ELSE /\ requesting' = [requesting EXCEPT !["channel"] = FALSE] /\ RequestDone("channel")
            /\ Polled /\ UNCHANGED failDue
  /\ UNCHANGED <<waiting, seqVars, minTimer, active, hand, serverVars, faults>>

\* Mutant: the timer after a failure runs only for the account.
FailTimerForAccount(b) == [failDue EXCEPT ![b] = (b = "common")]

\* failDifferenceStartTimerFor.
FailTimerFor(b) == [failDue EXCEPT ![b] = TRUE]

\* differenceFail, channelDifferenceFail.
DifferenceFails(b) ==
  /\ Ready /\ ask[b] = "difference" /\ Fault
  /\ RequestDone(b) /\ failDue' = FailTimerFor(b)
  /\ UNCHANGED <<ptsVars, waitVars, seqVars, minTimer, active, hand, serverVars, knownVars>>

-----------------------------------------------------------------------------
(* Timers *)

\* Mutant: after a failure the request still counts as running.
ReaskKept(b) ==
  /\ failDue' = [failDue EXCEPT ![b] = FALSE]
  /\ NoAsk /\ UNCHANGED <<waiting, shortPoll, due, seqVars>>

\* The timer after a failure resets requesting before it asks again.
Reask(b) ==
  /\ failDue' = [failDue EXCEPT ![b] = FALSE]
  /\ due' = [due EXCEPT ![b] = FALSE] /\ Ask(b)
  /\ IF b = "common" THEN NoneKept ELSE UNCHANGED <<bySeq, seqTimer, ranOut>>
  /\ UNCHANGED <<waiting, shortPoll, seq>>

\* getDifferenceAfterFail.
FailTimer(b) ==
  /\ Ready /\ failDue[b] /\ Reask(b) /\ NothingCounted
  /\ UNCHANGED <<minTimer, active, hand, serverVars, faults>>

\* getDifferenceByPts.
PtsTimer(b) ==
  /\ Ready /\ due[b] /\ Asked(b) /\ UNCHANGED <<minTimer, active, hand, serverVars, faults>>

\* _bySeqTimer: while the difference is asked for it does nothing but run out.
SeqTimer ==
  /\ Ready /\ seqTimer /\ NothingCounted
  /\ IF requesting["common"]
       THEN /\ due' = [due EXCEPT !["common"] = FALSE] /\ seqTimer' = FALSE /\ ranOut' = TRUE
            /\ NoAsk /\ UNCHANGED <<waiting, shortPoll, failDue, seq, bySeq>>
       ELSE GetDifference
  /\ UNCHANGED <<minTimer, active, hand, serverVars, faults>>

MinTimer ==
  /\ Ready /\ minTimer /\ minTimer' = FALSE /\ Asked("common")
  /\ UNCHANGED <<active, hand, serverVars, faults>>

-----------------------------------------------------------------------------
(* Other reasons to ask *)

\* mtpNewSessionCreated: what was pushed in the session before it is lost.
NewSession ==
  /\ Ready /\ Fault /\ net' = {k \in net : Log[k].kind # "push"}
  /\ seq' = 0 /\ due' = [due EXCEPT !["common"] = FALSE]
  /\ IF requesting["common"]
       THEN NoAsk /\ UNCHANGED <<bySeq, seqTimer, ranOut, failDue>>
       ELSE /\ Ask("common") /\ NoneKept
            /\ failDue' = [failDue EXCEPT !["common"] = FALSE]
  /\ NothingCounted /\ UNCHANGED <<waiting, shortPoll, minTimer, active, hand, length>>

\* updatesTooLong, and updateChannelTooLong for a channel behind it.
TooLong(b) ==
  /\ Ready /\ Fault /\ (b = "channel" => good[b] < PtsAt[b][length]) /\ Asked(b)
  /\ UNCHANGED <<minTimer, active, hand, serverVars>>

\* addActiveChat: a channel that is shown is polled.
ShowChannel ==
  /\ Ready /\ ~active /\ Fault /\ active' = TRUE
  /\ shortPoll' = [shortPoll EXCEPT !["channel"] = TRUE]
  /\ due' = [due EXCEPT !["channel"] = TRUE]
  /\ NothingCounted /\ NoAsk
  /\ UNCHANGED <<waiting, failDue, seqVars, minTimer, hand, serverVars>>

\* Another chat is shown, or the window is closed; then the short poll runs out later.
HideChannel(closed) ==
  /\ Ready /\ active /\ active' = FALSE
  /\ IF closed
       THEN UNCHANGED <<shortPoll, due>>
       ELSE /\ shortPoll' = [shortPoll EXCEPT !["channel"] = FALSE]
            /\ due' = StopPolling
  /\ NothingCounted /\ NoAsk
  /\ UNCHANGED <<waiting, failDue, seqVars, minTimer, hand, serverVars, faults>>

-----------------------------------------------------------------------------
AnyDifferenceDone == \E n \in 0..Len(Log) : DifferenceDone(n)
AnyChannelDifferenceDone ==
  \E n \in 0..Len(Log), tooLong \in BOOLEAN : ChannelDifferenceDone(n, tooLong)

Next ==
  \/ ServerEmits
  \/ \E b \in Boxes : ServerAnswers(b) \/ DifferenceFails(b) \/ FailTimer(b) \/ PtsTimer(b) \/ TooLong(b)
  \/ \E k \in DOMAIN Log : UpdateReceived(k) \/ AnswerReceived(k) \/ AffectedReceived(k)
  \/ \E pts \in MerePts : PtsReceived(pts)
  \/ FeedUpdate \/ FeedUnknown \/ TakeNext \/ FinishUpdates
  \/ StateDone \/ AnyDifferenceDone \/ AnyChannelDifferenceDone
  \/ SeqTimer \/ MinTimer \/ NewSession
  \/ ShowChannel \/ \E closed \in BOOLEAN : HideChannel(closed)

Spec == Init /\ [][Next]_vars

\* The main thread runs, timers fire, and the server answers about the
\* difference; updates themselves may be lost or come late.
Fairness ==
  /\ WF_vars(FeedUpdate) /\ WF_vars(TakeNext) /\ WF_vars(FinishUpdates) /\ WF_vars(StateDone)
  /\ WF_vars(AnyDifferenceDone) /\ WF_vars(AnyChannelDifferenceDone)
  /\ \A b \in Boxes : WF_vars(ServerAnswers(b)) /\ WF_vars(FailTimer(b)) /\ WF_vars(PtsTimer(b))

FairSpec == Spec /\ Fairness

-----------------------------------------------------------------------------
(* Properties *)

Known(e) == e \in applied \/ PtsOf[e] =< base[BoxOf[e]]

\* The client never stands behind a pts whose updates it did not all apply or
\* get with a snapshot: the pts it asks differences from covers nothing it missed.
NothingSkipped == \A e \in Events : PtsOf[e] =< good[BoxOf[e]] => Known(e)

\* Whoever is missing an update, and does not ask for it, has a timer that will;
\* a mere pts (ptsReceived) ends that wait, until an update comes.  The same for a
\* packet kept by its seq, unless its timer ran out while the difference was asked for.
GapIsTimed ==
  /\ \A b \in Boxes : ~requesting[b] /\ last[b] # count[b] => due[b] \/ dropped[b]
  /\ bySeq # {} /\ Ready => seqTimer \/ ranOut

\* Who believes that it asks for the difference does: a request is on its way or
\* will be repeated.  Else every update is dropped for ever.
NoStuckRequest == \A b \in Boxes : requesting[b] => ask[b] # "none" \/ failDue[b]

\* Outside of a difference, updates are applied in the order of the server, unless
\* a mere pts ended the wait for one; what the client does itself comes before.
AppliedInOrder ==
  [][\A e \in applied' \ applied, f \in Events :
       LET b == BoxOf[e] IN
       /\ length' = length /\ ~requesting[b] /\ ~dropped[b] /\ ~dropped'[b]
       /\ BoxOf[f] = b /\ PtsOf[f] < PtsOf[e]
       => f \in applied' \/ PtsOf[f] =< base'[b]]_vars

\* Whoever was told of an update comes to stand behind it with nothing missing,
\* unless a mere pts ended the wait; by NothingSkipped all of it is then applied.
GapCloses == \A b \in Boxes : good[b] # last[b] ~> good[b] = last[b] \/ dropped[b]
=============================================================================
