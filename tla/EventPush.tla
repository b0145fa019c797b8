----------------------------- MODULE EventPush -----------------------------
(***************************************************************************)
(* cmd/sig/eventpush.go: every event line a run writes is mirrored to one  *)
(* HTTP receiver through a bounded queue and a single delivery goroutine.  *)
(* The runs' side (eventSink.Write) may drop a line but never waits; the   *)
(* delivery side may retry, give up, and is told to stop while runs still  *)
(* emit.                                                                   *)
(*                                                                         *)
(* A line is the emitter that wrote it and its number there.  The receiver *)
(* may have taken a line although its answer never arrived, so `got' may   *)
(* hold a line more than once.                                             *)
(***************************************************************************)
EXTENDS Integers, Sequences, FiniteSets

CONSTANTS Emitters,  \* runs with an event stream, and the watch loop
          Lines,     \* bound: lines an emitter writes
          Queue,     \* capacity of the channel (eventPushQueue)
          Attempts   \* eventPushAttempts

Line   == Emitters \X (1..Lines)
NoLine == << >>

ASSUME PushAssumption ==
    /\ Lines \in Nat /\ Queue \in Nat \ {0} /\ Attempts \in Nat \ {0}

VARIABLES written,   \* lines each emitter has finished writing
          total,     \* ... and all of them together (history)
          writing,   \* emitters between Write's two selects
          q,         \* p.q
          cancelled, \* the daemon's context is done
          loop,      \* where the delivery goroutine is
          hand,      \* the line it delivers
          attempt,
          sent, failed, dropped,
          leftover,  \* lines the last look at the queue counted
          got        \* what reached the receiver (history)

counters == <<sent, failed, dropped>>
pushVars == <<written, total, writing, q, cancelled, loop, hand, attempt, sent, failed, dropped,
              leftover, got>>

PushInit ==
    /\ written = [e \in Emitters |-> 0] /\ total = 0 /\ writing = {}
    /\ q = << >> /\ cancelled = FALSE
    /\ loop = "select" /\ hand = NoLine /\ attempt = 0
    /\ sent = 0 /\ failed = 0 /\ dropped = 0 /\ leftover = 0
    /\ got = << >>

Wrote(e) == written' = [written EXCEPT ![e] = @ + 1] /\ total' = total + 1

next(e) == <<e, written[e] + 1>>

-----------------------------------------------------------------------------
(* eventSink.Write: is the reader gone?  If not, enqueue or drop.           *)

Write(e) ==
    /\ e \notin writing /\ written[e] < Lines
    /\ \/ /\ loop = "stopped"
          /\ dropped' = dropped + 1 /\ Wrote(e)
          /\ UNCHANGED writing
       \/ /\ loop # "stopped" /\ writing' = writing \union {e}
          /\ UNCHANGED <<dropped, written, total>>
    /\ UNCHANGED <<q, cancelled, loop, hand, attempt, sent, failed, leftover, got>>

\* (mutant: a send without a default)
EnqueueWaits(e) ==
    /\ e \in writing /\ Len(q) < Queue
    /\ q' = Append(q, next(e))
    /\ writing' = writing \ {e} /\ Wrote(e)
    /\ UNCHANGED <<cancelled, loop, hand, attempt, counters, leftover, got>>

Enqueue(e) ==
    /\ e \in writing
    /\ \/ Len(q) < Queue /\ q' = Append(q, next(e)) /\ UNCHANGED dropped
       \/ Len(q) = Queue /\ dropped' = dropped + 1 /\ UNCHANGED q
    /\ writing' = writing \ {e} /\ Wrote(e)
    /\ UNCHANGED <<cancelled, loop, hand, attempt, sent, failed, leftover, got>>

-----------------------------------------------------------------------------
(* eventPusher.loop, deliver and post.                                      *)

Take ==
    /\ loop = "select" /\ q # << >>
    /\ hand' = Head(q) /\ q' = Tail(q)
    /\ attempt' = 1 /\ loop' = "post"
    /\ UNCHANGED <<written, total, writing, cancelled, counters, leftover, got>>

\* (mutant: a line that cannot be delivered goes back to the end of the queue)
RetryRequeues ==
    IF attempt < Attempts THEN loop' = "backoff" /\ UNCHANGED <<hand, attempt, failed, q>>
    ELSE /\ q' = Append(q, hand) /\ UNCHANGED failed
         /\ loop' = "select" /\ hand' = NoLine /\ attempt' = 0

\* Another attempt, if the budget has one left.
Retry ==
    IF attempt < Attempts THEN loop' = "backoff" /\ UNCHANGED <<hand, attempt, failed, q>>
    ELSE /\ failed' = failed + 1 /\ UNCHANGED q
         /\ loop' = "select" /\ hand' = NoLine /\ attempt' = 0

\* One POST: accepted; refused for good; or an error, of the kind that leaves open
\* whether the receiver has the line.  Under a cancelled context it is an error.
Post ==
    /\ loop = "post"
    /\ \/ /\ ~cancelled /\ got' = Append(got, hand) /\ sent' = sent + 1
          /\ loop' = "select" /\ hand' = NoLine /\ attempt' = 0
          /\ UNCHANGED <<failed, q>>
       \/ /\ ~cancelled /\ failed' = failed + 1
          /\ loop' = "select" /\ hand' = NoLine /\ attempt' = 0
          /\ UNCHANGED <<sent, got, q>>
       \/ Retry /\ got' \in {got, Append(got, hand)} /\ UNCHANGED sent
    /\ UNCHANGED <<written, total, writing, cancelled, dropped, leftover>>

Backoff ==
    /\ loop = "backoff"
    /\ \/ loop' = "post" /\ attempt' = attempt + 1 /\ UNCHANGED <<failed, hand>>
       \/ /\ cancelled /\ failed' = failed + 1
          /\ loop' = "select" /\ hand' = NoLine /\ attempt' = 0
    /\ UNCHANGED <<written, total, writing, q, cancelled, sent, dropped, leftover, got>>

\* (mutant: what is still queued is not counted)
LeaveUncounted ==
    /\ loop = "select" /\ cancelled /\ loop' = "leaving"
    /\ leftover' = Len(q)
    /\ UNCHANGED <<written, total, writing, q, cancelled, hand, attempt, counters, got>>

\* The context is done: count what will never ship, then close `stopped'.
Leave ==
    /\ loop = "select" /\ cancelled /\ loop' = "leaving"
    /\ leftover' = Len(q) /\ dropped' = dropped + Len(q)
    /\ UNCHANGED <<written, total, writing, q, cancelled, hand, attempt, sent, failed, got>>

Close ==
    /\ loop = "leaving" /\ loop' = "stopped"
    /\ UNCHANGED <<written, total, writing, q, cancelled, hand, attempt, counters, leftover, got>>

Cancel ==
    /\ ~cancelled /\ cancelled' = TRUE
    /\ UNCHANGED <<written, total, writing, q, loop, hand, attempt, counters, leftover, got>>

-----------------------------------------------------------------------------
Emit(e)  == Write(e) \/ Enqueue(e)
Deliver  == Take \/ Post \/ Backoff \/ Leave \/ Close

PushNext == (\E e \in Emitters : Emit(e)) \/ Deliver \/ Cancel

PushSpec == PushInit /\ [][PushNext]_pushVars

\* Goroutines are scheduled; a POST ends by its timeout.
PushFairness == WF_pushVars(Deliver) /\ \A e \in Emitters : WF_pushVars(Enqueue(e))

PushFairSpec == PushSpec /\ PushFairness

-----------------------------------------------------------------------------
(* Properties.                                                              *)

\* The queue never grows past its capacity, and no line is attempted more often than the
\* budget allows.
PushTypeOK ==
    /\ written \in [Emitters -> Nat] /\ total \in Nat /\ writing \in SUBSET Emitters
    /\ \A e \in Emitters : written[e] <= Lines /\ (e \in writing => written[e] < Lines)
    /\ q \in Seq(Line) /\ Len(q) <= Queue
    /\ cancelled \in BOOLEAN
    /\ loop \in {"select", "post", "backoff", "leaving", "stopped"}
    /\ hand \in Line \union {NoLine} /\ attempt \in 0..Attempts
    /\ sent \in Nat /\ failed \in Nat /\ dropped \in Nat /\ leftover \in Nat
    /\ got \in Seq(Line)

InHand == IF hand = NoLine THEN 0 ELSE 1

\* Every line is accounted for: sent, failed, dropped, or still on its way.  The only
\* lines nobody counts are those that enter the queue after the last look at it.
Conserved == total = sent + failed + dropped + InHand + Len(q) - leftover

\* A receiver sees the lines of a run in the order the run wrote them, however many
\* were dropped or sent again in between.
InOrder ==
    \A i, j \in 1..Len(got) :
        i < j /\ got[i][1] = got[j][1] => got[i][2] <= got[j][2]

\* Emitting never waits for the receiver, not even when nobody reads any more.
WritesReturn == \A e \in Emitters : e \in writing ~> e \notin writing
=============================================================================
