------------------------------- MODULE Blobs --------------------------------
(***************************************************************************)
(* Reading blobs through a long-lived `git cat-file --batch-command':      *)
(* pkg/gitobject's Reader (one process, one strictly sequential stream, a  *)
(* gate, poison, Close) and what a cell makes of it (cell/cell.go          *)
(* BlobsBatch: one daemon behind blobMu, discarded when anything is wrong  *)
(* with it, the call then served by a process of its own).                 *)
(*                                                                         *)
(* The stream carries no names: git answers the commands in order, and a   *)
(* reader that loses its place takes one object's record for another's.    *)
(* An answer is therefore the command that git really answered.  The calls *)
(* all go through a cell, or all share one Reader, reader 1.               *)
(***************************************************************************)
EXTENDS Integers, Sequences, FiniteSets

CONSTANTS Calls,
          Specs,
          Kind,       \* what each spec names: "blob", "tree", "missing", or "invalid"
          Size,
          Batch,      \* the specs each call asks for
          MaxBatch,   \* specs in one Read
          MaxBlob, MaxTotal,
          MaxFaults,  \* bound: processes that fail to start, die or fall silent
          None        \* no reader, no holder

Readers == 1..(2 * Cardinality(Calls) + 1)

ASSUME BlobsAssumption ==
    /\ IsFiniteSet(Calls) /\ None \notin Calls \union Readers /\ "closer" \notin Calls \union {None}
    /\ Kind \in [Specs -> {"blob", "tree", "missing", "invalid"}]
    /\ Size \in [Specs -> Nat]
    /\ Batch \in [Calls -> Seq(Specs) \ {<< >>}]
    /\ {MaxBatch, MaxTotal} \subseteq Nat \ {0} /\ {MaxBlob, MaxFaults} \subseteq Nat

VARIABLES via,      \* "cell", or "direct"
          mu,       \* blobMu
          blob,     \* the cell's daemon
          reader,   \* the readers and their processes
          call,     \* the calls
          fires,    \* readers that a cancelled context's AfterFunc is about to poison
          closer,   \* a Close of the cell, or of the shared reader
          faults    \* readers whose process failed (history)

vars == <<via, mu, blob, reader, call, fires, closer, faults>>

\* asked: commands git has not answered; told: answers nobody has read.
NoReader == [proc |-> "none", asked |-> << >>, told |-> << >>, doomed |-> FALSE,
             poison |-> FALSE, closed |-> FALSE, gate |-> TRUE]
Opened   == [NoReader EXCEPT !.proc = "up"]
Reaped   == [NoReader EXCEPT !.proc = "reaped", !.closed = TRUE]

\* k: the reader in use, the call's own or not; from: where the chunk starts;
\* heads: its info answers; read: how far its contents are; map: the result.
Idle == [pc |-> "idle", k |-> None, own |-> TRUE, from |-> 0, heads |-> << >>,
         read |-> 0, room |-> MaxTotal, map |-> {}, armed |-> None, cancelled |-> FALSE]

Init ==
    /\ via \in {"cell", "direct"}
    /\ mu = None /\ blob = None
    /\ reader = [k \in Readers |-> IF via = "direct" /\ k = 1 THEN Opened ELSE NoReader]
    /\ call = [c \in Calls |-> Idle]
    /\ fires = {} /\ closer = "idle" /\ faults = {}

Become(c, r) == call' = [call EXCEPT ![c] = r]

\* A Read is over; what it knew of the stream goes.
Leave(c, pc) == LET r == call[c]
                IN  Become(c, [Idle EXCEPT !.pc = pc, !.k = r.k, !.own = r.own, !.map = r.map,
                                           !.cancelled = r.cancelled])
Change(k, r) == reader' = [reader EXCEPT ![k] = r]
IsNext(k) == k \in Readers /\ \A j \in Readers : reader[j].proc = "none" <=> j >= k

-----------------------------------------------------------------------------
(* Processes and contexts.                                                   *)

\* Git answers in order.
Answer(k) ==
    /\ reader[k].proc = "up" /\ reader[k].asked # << >>
    /\ Change(k, [reader[k] EXCEPT !.asked = Tail(@), !.told = Append(@, Head(reader[k].asked))])
    /\ UNCHANGED <<via, mu, blob, call, fires, closer, faults>>

Fault(k) == Cardinality(faults) < MaxFaults /\ faults' = faults \union {k}

\* It dies, perhaps in the middle of a record, or lives on and never answers.
Break(k) ==
    /\ reader[k].proc = "up" /\ Fault(k)
    /\ \E s \in {"dead", "silent"} : Change(k, [reader[k] EXCEPT !.proc = s])
    /\ UNCHANGED <<via, mu, blob, call, fires, closer>>

\* CommandContext kills it when its context is cancelled.
Die(k) ==
    /\ reader[k].doomed /\ reader[k].proc \in {"up", "silent"}
    /\ Change(k, [reader[k] EXCEPT !.proc = "dead"])
    /\ UNCHANGED <<via, mu, blob, call, fires, closer, faults>>

\* poisonWith: kills the process too, unless the reader is closed.
poisonWith(r) == IF r.closed THEN r ELSE [r EXCEPT !.poison = TRUE, !.doomed = TRUE]

\* Close, up to its Wait.
Shut(r) == [r EXCEPT !.closed = TRUE, !.doomed = TRUE]

\* A call's context ends; what AfterFunc armed will run in a goroutine of its own.
CtxDone(c) ==
    /\ call[c].pc \notin {"idle", "ok", "error"} /\ ~call[c].cancelled
    /\ Become(c, [call[c] EXCEPT !.cancelled = TRUE, !.armed = None])
    /\ fires' = fires \union ({call[c].armed} \ {None})
    /\ UNCHANGED <<via, mu, blob, reader, closer, faults>>

Cancel(k) ==
    /\ k \in fires /\ fires' = fires \ {k}
    /\ Change(k, poisonWith(reader[k]))
    /\ UNCHANGED <<via, mu, blob, call, closer, faults>>

\* (mutant: no AfterFunc)
ArmNothing(c, r) == Become(c, r) /\ UNCHANGED fires

\* context.AfterFunc(ctx, poison the reader).
Arm(c, r) ==
    IF r.cancelled THEN Become(c, r) /\ fires' = fires \union {r.k}
    ELSE Become(c, [r EXCEPT !.armed = r.k]) /\ UNCHANGED fires

-----------------------------------------------------------------------------
(* Cell.BlobsBatch.                                                          *)

Begin(c) ==
    /\ call[c].pc = "idle"
    /\ Become(c, IF via = "cell" THEN [Idle EXCEPT !.pc = "lock"]
                  ELSE [Idle EXCEPT !.pc = "chunk", !.k = 1])
    /\ UNCHANGED <<via, mu, blob, reader, fires, closer, faults>>

Free == mu = None

\* blobMu, and the daemon, started when there is none: its Read does not run under
\* the call's context, so the call arms the daemon's Cancel.
Lock(c) ==
    /\ call[c].pc = "lock" /\ Free /\ mu' = c
    /\ \/ /\ blob # None
          /\ Arm(c, [call[c] EXCEPT !.pc = "chunk", !.k = blob, !.own = FALSE])
          /\ UNCHANGED <<blob, reader, faults>>
       \/ \E k \in Readers :
            /\ blob = None /\ IsNext(k)
            /\ \/ /\ Change(k, Opened) /\ blob' = k
                  /\ Arm(c, [call[c] EXCEPT !.pc = "chunk", !.k = k, !.own = FALSE])
                  /\ UNCHANGED faults
               \/ /\ Fault(k) /\ Change(k, Reaped)
                  /\ Become(c, [call[c] EXCEPT !.pc = "spawn"]) /\ UNCHANGED <<blob, fires>>
    /\ UNCHANGED <<via, closer>>

\* The fallback: gitx.BlobsBatch, with a reader of the call's own.
Spawn(c) == \E k \in Readers :
    /\ call[c].pc = "spawn" /\ IsNext(k)
    /\ \/ /\ Change(k, Opened)
          /\ Become(c, [Idle EXCEPT !.pc = "chunk", !.k = k, !.cancelled = call[c].cancelled])
          /\ UNCHANGED <<mu, faults>>
       \/ /\ Fault(k) /\ Change(k, Reaped)
          /\ Become(c, [call[c] EXCEPT !.pc = "error", !.k = k, !.own = TRUE]) /\ mu' = None
    /\ UNCHANGED <<via, blob, fires, closer>>

\* (mutant: the daemon's error goes to the caller)
FailedClosed(c, r) ==
    /\ Change(call[c].k, IF via = "direct" THEN r ELSE Shut(r))
    /\ blob' = IF call[c].own THEN blob ELSE None
    /\ Leave(c, IF via = "direct" THEN "error" ELSE "reapError")

\* A Read failed and left its reader as r.  A daemon is discarded and the call falls
\* back, a reader of the call's own is closed, a shared one is left alone.
Failed(c, r) ==
    /\ Change(call[c].k, IF via = "direct" THEN r ELSE Shut(r))
    /\ blob' = IF call[c].own THEN blob ELSE None
    /\ Leave(c, IF via = "direct" THEN "error"
                ELSE IF call[c].own THEN "reapError" ELSE "reapSpawn")

Unlock == mu' = IF via = "cell" THEN None ELSE mu

\* Close's Wait, bounded by WaitDelay.
Reap(c) ==
    /\ call[c].pc \in {"reapSpawn", "reapError", "reapOk"} /\ reader[call[c].k].proc = "dead"
    /\ Change(call[c].k, Reaped)
    /\ LET next == CASE call[c].pc = "reapSpawn" -> "spawn"
                     [] call[c].pc = "reapError" -> "error"
                     [] call[c].pc = "reapOk"    -> "ok"
       IN  /\ Become(c, [call[c] EXCEPT !.pc = next])
           /\ IF next = "spawn" THEN UNCHANGED mu ELSE Unlock
    /\ UNCHANGED <<via, blob, fires, closer, faults>>

-----------------------------------------------------------------------------
(* readBlobs and Reader.Read.                                                *)

Last(c) == call[c].from + MaxBatch >= Len(Batch[c])
Chunk(c) == SubSeq(Batch[c], call[c].from + 1,
                   IF Last(c) THEN Len(Batch[c]) ELSE call[c].from + MaxBatch)

Released(c) == [reader[call[c].k] EXCEPT !.gate = TRUE]
protocolError(c) == poisonWith(Released(c))

\* blobRequests, the budget, and the gate, which a cancelled call stops waiting for.
Turned(c) ==
    /\ call[c].pc = "chunk"
    /\ \/ \E i \in 1..Len(Chunk(c)) : Kind[Chunk(c)[i]] = "invalid"
       \/ call[c].room <= 0
       \/ call[c].own /\ call[c].cancelled
    /\ Failed(c, reader[call[c].k])
    /\ UNCHANGED <<via, mu, fires, closer, faults>>

\* (mutant: calls are not serialized)
OpenAlways(r) == TRUE
Open(r) == r.gate

Gate(c) ==
    LET r == reader[call[c].k]
        next == [call[c] EXCEPT !.pc = "ask", !.heads = << >>, !.read = 0]
    IN  /\ call[c].pc = "chunk" /\ Open(r)
        /\ \A i \in 1..Len(Chunk(c)) : Kind[Chunk(c)[i]] # "invalid"
        /\ call[c].room > 0
        /\ IF r.closed \/ r.poison THEN Failed(c, r) /\ UNCHANGED fires
           ELSE /\ Change(call[c].k, [r EXCEPT !.gate = FALSE]) /\ UNCHANGED blob
                /\ IF call[c].own THEN Arm(c, next) ELSE Become(c, next) /\ UNCHANGED fires
        /\ UNCHANGED <<via, mu, closer, faults>>

Available(s) == Kind[s] = "blob" /\ Size[s] <= MaxBlob

\* Every size first; then the contents of those that are admissible.
Infos(c) == Len(call[c].heads) < Len(Chunk(c))
Wanted(c) == {i \in 1..Len(call[c].heads) : i > call[c].read /\ Available(call[c].heads[i])}
NextOf(S) == CHOOSE i \in S : \A j \in S : i <= j
Command(c) == IF Infos(c) THEN <<"info", Chunk(c)[Len(call[c].heads) + 1]>>
              ELSE <<"contents", Chunk(c)[NextOf(Wanted(c))]>>

\* One command; it fails when the process is gone, or once Close closed the pipe.
Gone(r) == r.proc \in {"dead", "reaped"}

Ask(c) ==
    LET r == reader[call[c].k]
    IN  /\ call[c].pc = "ask" /\ (Infos(c) \/ Wanted(c) # {})
        /\ \/ (Gone(r) \/ r.closed) /\ Failed(c, protocolError(c))
           \/ /\ ~Gone(r)
              /\ Change(call[c].k, [r EXCEPT !.asked = Append(@, Command(c))])
              /\ Become(c, [call[c] EXCEPT !.pc = "hear"]) /\ UNCHANGED blob
        /\ UNCHANGED <<via, mu, fires, closer, faults>>

\* The stream is at its end, or Close's Wait took the pipe.
Eof(r) == (Gone(r) /\ r.told = << >>) \/ r.proc = "reaped"

\* The answer is taken for the command's unless it cannot be: it is a record of the
\* other kind, a missing object's echo of another spec, another object than info's.
Plausible(c, a) ==
    LET asked == Command(c)
    IN  /\ a[1] = asked[1]
        /\ IF a[1] = "info" THEN Kind[a[2]] = "missing" => a[2] = asked[2]
           ELSE a[2] = call[c].heads[NextOf(Wanted(c))]

Heard(c, a) ==
    IF a[1] = "info"
    THEN [call[c] EXCEPT !.pc = "ask", !.heads = Append(@, a[2]),
                         !.room = @ - IF Available(a[2]) THEN Size[a[2]] ELSE 0]
    ELSE [call[c] EXCEPT !.pc = "ask", !.read = NextOf(Wanted(c)),
                         !.map = @ \union {<<Command(c)[2], a[2]>>}]

\* AggregateLimitError leaves the stream where it was.
Hear(c) ==
    LET r == reader[call[c].k]
        a == Head(r.told)
        rest == [r EXCEPT !.told = Tail(@)]
    IN  /\ call[c].pc = "hear"
        /\ \/ Eof(r) /\ Failed(c, protocolError(c))
           \/ /\ r.told # << >> /\ ~Plausible(c, a)
              /\ Failed(c, protocolError(c))
           \/ /\ r.told # << >> /\ Plausible(c, a) /\ Heard(c, a).room < 0
              /\ Failed(c, [rest EXCEPT !.gate = TRUE])
           \/ /\ r.told # << >> /\ Plausible(c, a) /\ Heard(c, a).room >= 0
              /\ Change(call[c].k, rest) /\ Become(c, Heard(c, a)) /\ UNCHANGED blob
        /\ UNCHANGED <<via, mu, fires, closer, faults>>

TooLarge(c) == \E i \in 1..Len(call[c].heads) :
    Kind[call[c].heads[i]] = "blob" /\ ~Available(call[c].heads[i])

Interrupted(c) == call[c].own /\ call[c].cancelled

\* The end of a chunk: a last look at the context, then the sizes; and the next.
Return(c) ==
    LET r == call[c]
    IN  /\ r.pc = "ask" /\ ~Infos(c) /\ Wanted(c) = {}
        /\ \/ Interrupted(c) /\ Failed(c, protocolError(c)) /\ UNCHANGED mu
           \/ ~Interrupted(c) /\ TooLarge(c) /\ Failed(c, Released(c)) /\ UNCHANGED mu
           \/ /\ ~Interrupted(c) /\ ~TooLarge(c) /\ UNCHANGED blob
              /\ \/ /\ ~Last(c) /\ UNCHANGED mu
                    /\ Become(c, [r EXCEPT !.pc = "chunk", !.from = @ + MaxBatch,
                                           !.armed = IF r.own THEN None ELSE @])
                    /\ Change(r.k, Released(c))
                 \/ /\ Last(c)
                    /\ IF via = "cell" /\ r.own
                       THEN /\ Leave(c, "reapOk")
                            /\ Change(r.k, Shut(Released(c))) /\ UNCHANGED mu
                       ELSE /\ Leave(c, "ok")
                            /\ Change(r.k, Released(c)) /\ Unlock
        /\ UNCHANGED <<via, fires, closer, faults>>

-----------------------------------------------------------------------------
(* Close: of the cell, behind blobMu; or of the shared reader, at any time.  *)

Target == IF via = "cell" THEN blob ELSE 1

Close ==
    /\ closer = "idle" /\ (via = "cell" => Free)
    /\ IF Target = None THEN closer' = "end" /\ UNCHANGED <<mu, reader>>
       ELSE /\ closer' = "wait" /\ Change(Target, Shut(reader[Target]))
            /\ mu' = IF via = "cell" THEN "closer" ELSE mu
    /\ UNCHANGED <<via, blob, call, fires, faults>>

Closed ==
    /\ closer = "wait" /\ reader[Target].proc = "dead" /\ closer' = "end"
    /\ Change(Target, [Reaped EXCEPT !.gate = reader[Target].gate])
    /\ blob' = None /\ Unlock
    /\ UNCHANGED <<via, call, fires, faults>>

-----------------------------------------------------------------------------
CallStep(c) == Lock(c) \/ Spawn(c) \/ Turned(c) \/ Gate(c) \/ Ask(c) \/ Hear(c) \/ Return(c) \/ Reap(c)

Next == \/ \E c \in Calls : Begin(c) \/ CtxDone(c) \/ CallStep(c)
        \/ \E k \in Readers : Answer(k) \/ Break(k) \/ Die(k) \/ Cancel(k)
        \/ Close \/ Closed

Spec == Init /\ [][Next]_vars

\* A git that is not silent answers, a killed one dies, goroutines run on; nobody
\* need ever cancel a context, or close anything.
FairSpec ==
    /\ Spec /\ WF_vars(Closed)
    /\ \A c \in Calls : WF_vars(CallStep(c))
    /\ \A k \in Readers : WF_vars(Answer(k)) /\ WF_vars(Die(k)) /\ WF_vars(Cancel(k))

-----------------------------------------------------------------------------
(* Properties.                                                               *)

\* The streams carry commands, a call has got pairs of specs.
Commands == {"info", "contents"} \X Specs
ReaderRec ==
    [proc : {"none", "up", "silent", "dead", "reaped"}, asked : Seq(Commands), told : Seq(Commands),
     doomed : BOOLEAN, poison : BOOLEAN, closed : BOOLEAN, gate : BOOLEAN]
CallRec ==
    [pc : {"idle", "lock", "spawn", "chunk", "ask", "hear", "reapSpawn", "reapError", "reapOk",
           "ok", "error"},
     k : Readers \union {None}, own : BOOLEAN, from : Nat, heads : Seq(Specs), read : Nat,
     room : Int, map : SUBSET (Specs \X Specs), armed : Readers \union {None},
     cancelled : BOOLEAN]
TypeOK ==
    /\ via \in {"cell", "direct"} /\ mu \in Calls \union {None, "closer"}
    /\ blob \in Readers \union {None} /\ reader \in [Readers -> ReaderRec]
    /\ call \in [Calls -> CallRec] /\ fires \subseteq Readers
    /\ closer \in {"idle", "wait", "end"} /\ faults \subseteq Readers

InFlight(c) == call[c].pc \notin {"idle", "ok", "error"}
Asked(c) == {Batch[c][i] : i \in 1..Len(Batch[c])}

\* A call that returns a result returns every blob it asked for under its own
\* spec, and nothing else, whatever was cancelled, closed, killed or misread
\* around it (reader.go: "a strictly sequential protocol stream").
AnswersMatch ==
    \A c \in Calls : call[c].pc = "ok" =>
        call[c].map = {<<s, s>> : s \in {s \in Asked(c) : Kind[s] = "blob"}}

\* The total of the blobs among the first specs of a batch.
Bulk(b) ==
    LET upto[i \in 0..Len(b)] ==
            IF i = 0 THEN 0 ELSE upto[i - 1] + IF Kind[b[i]] = "blob" THEN Size[b[i]] ELSE 0
    IN  upto

\* What may be asked at all: valid specs, and blobs within the bounds.
Servable(b) ==
    /\ \A i \in 1..Len(b) : Kind[b[i]] # "invalid" /\ (Kind[b[i]] = "blob" => Available(b[i]))
    /\ Bulk(b)[Len(b)] < MaxTotal

\* A call through the cell fails only when its own context was cancelled, when it
\* asks for too much, or when the process it was given for itself failed: never
\* because of the daemon, nor of what other calls did to it (cell.go BlobsBatch:
\* "A broken daemon therefore only forfeits the speedup; it can never fail a run").
FailsOpen ==
    \A c \in Calls : via = "cell" /\ call[c].pc = "error" =>
        call[c].cancelled \/ ~Servable(Batch[c]) \/ (call[c].own /\ call[c].k \in faults)

\* Every call ends, behind blobMu, the gate or a dying process, unless a git is
\* silent under a context that nobody cancels; and so does Close.
Wedged == \E c \in Calls : call[c].pc = "hear" /\ ~call[c].cancelled
                             /\ reader[call[c].k].proc = "silent" /\ ~reader[call[c].k].doomed
CallsEnd ==
    /\ \A c \in Calls : InFlight(c) ~> (~InFlight(c) \/ Wedged)
    /\ closer = "wait" ~> closer = "end"
=============================================================================
