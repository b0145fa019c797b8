---------------------------- MODULE BlobsProofs ----------------------------
(***************************************************************************)
(* That a batch gets the blobs it asked for and no others, and that a call *)
(* through a cell never fails because of the daemon, for any calls,        *)
(* batches and limits, whatever is cancelled, closed, killed or misread.   *)
(*                                                                         *)
(* Nothing on the stream says which request an answer belongs to, so the   *)
(* result of one call is inductive only together with who may use the      *)
(* stream and what is on it: in a cell blobMu keeps every other call out,  *)
(* on a shared reader the gate does, and a reader that can still be used   *)
(* when its gate is open has nothing on its way.  Why a call fails takes   *)
(* its budget too, which the sizes it has heard use up one by one, and     *)
(* that nobody else poisons or closes the reader it was given for itself.  *)
(***************************************************************************)
EXTENDS Blobs, SequenceTheorems, FiniteSetTheorems, WellFoundedInduction, TLAPS

\* A call that is served, and one whose commands are on a stream.
Active(c)   == call[c].pc \notin {"idle", "lock", "ok", "error"}
InStream(c) == call[c].pc \in {"ask", "hear"}

\* In a cell, blobMu is held by the call that is served, or by Close while it waits.
Locked ==
    /\ via = "cell" => \A c \in Calls : Active(c) => mu = c
    /\ via = "cell" /\ closer = "wait" => mu = "closer" /\ blob \in Readers

\* A direct call has the shared reader, and a call at work has one.
Places ==
    \A c \in Calls :
        /\ via = "direct" => call[c].pc \in {"idle", "chunk", "ask", "hear", "ok", "error"}
        /\ Active(c) /\ call[c].pc # "spawn" => call[c].k \in Readers
        /\ via = "direct" /\ Active(c) => call[c].k = 1

\* The stream of a usable reader with an open gate is empty.
Clean(r) == r.gate /\ ~r.poison /\ ~r.closed => r.asked = << >> /\ r.told = << >>

\* What is on the stream of the call that has the gate: nothing, or its own command.
Expects(c) ==
    LET r == reader[call[c].k]
    IN  \/ r.asked = << >> /\ r.told = << >>
        \/ /\ call[c].pc = "hear"
           /\ \/ r.asked = <<Command(c)>> /\ r.told = << >>
              \/ r.asked = << >> /\ r.told = <<Command(c)>>

Streams ==
    /\ \A k \in Readers : Clean(reader[k])
    /\ \A c \in Calls : InStream(c) => ~reader[call[c].k].gate /\ Expects(c)
    /\ \A c, d \in Calls : InStream(c) /\ InStream(d) /\ call[c].k = call[d].k => c = d

\* The blobs among the first n specs of a batch, and among the first n of a chunk.
BlobsUpto(c, n) == {<<s, s>> : s \in {Batch[c][i] : i \in {j \in 1..n : Kind[Batch[c][j]] = "blob"}}}
ReadUpto(c, n)  == {<<s, s>> : s \in {Chunk(c)[i] : i \in {j \in 1..n : Available(Chunk(c)[j])}}}

\* What a call has got is what it has read so far, spec by spec.
Progress(c) ==
    LET r == call[c]
    IN  /\ r.pc = "lock" => r.from = 0 /\ r.map = {}
        /\ r.pc \in {"lock", "chunk", "ask", "hear"} => r.from < Len(Batch[c])
        /\ r.pc = "chunk" => r.map = BlobsUpto(c, r.from)
        /\ InStream(c) =>
             /\ Len(r.heads) <= Len(Chunk(c))
             /\ \A i \in 1..Len(r.heads) : r.heads[i] = Chunk(c)[i]
             /\ r.read <= Len(r.heads)
             /\ r.map = BlobsUpto(c, r.from) \union ReadUpto(c, r.read)
        /\ r.pc = "hear" => Infos(c) \/ Wanted(c) # {}
        /\ r.pc \in {"reapOk", "ok"} => r.map = BlobsUpto(c, Len(Batch[c]))

IInv == TypeOK /\ Locked /\ Places /\ Streams /\ \A c \in Calls : Progress(c)

-----------------------------------------------------------------------------
(* What the operators of the model return.                                   *)

\* A reader or no reader; reader 1 exists.
LEMMA ReadersExist == 1 \in Readers /\ None \notin Readers /\ Readers \subseteq Nat
  <1>1. Cardinality(Calls) \in Nat
    BY BlobsAssumption, FS_CardinalityType DEF BlobsAssumption
  <1> QED
    BY <1>1, BlobsAssumption DEF Readers, BlobsAssumption

\* Fresh readers and calls have the types of theirs.
LEMMA FreshTypes ==
    /\ NoReader \in ReaderRec /\ Opened \in ReaderRec /\ Reaped \in ReaderRec /\ Idle \in CallRec
    /\ Clean(NoReader) /\ Clean(Opened) /\ Clean(Reaped)
  <1>1. << >> \in Seq(Commands) /\ << >> \in Seq(Specs)
    BY EmptySeq
  <1>2. NoReader \in ReaderRec
    BY <1>1 DEF NoReader, ReaderRec
  <1>3. Opened \in ReaderRec /\ Reaped \in ReaderRec
    BY <1>1 DEF NoReader, Opened, Reaped, ReaderRec
  <1>4. MaxTotal \in Int
    BY BlobsAssumption DEF BlobsAssumption
  <1>5. Idle \in CallRec
    BY <1>1, <1>4 DEF Idle, CallRec
  <1>6. Clean(NoReader) /\ Clean(Opened) /\ Clean(Reaped)
    BY DEF NoReader, Opened, Reaped, Clean
  <1> QED
    BY <1>2, <1>3, <1>5, <1>6

\* The fields of a call and of a reader.
LEMMA CallFields ==
    ASSUME TypeOK, NEW c \in Calls
    PROVE  /\ call[c] \in CallRec
           /\ call[c].k \in Readers \union {None} /\ call[c].own \in BOOLEAN
           /\ call[c].from \in Nat /\ call[c].heads \in Seq(Specs) /\ Len(call[c].heads) \in Nat
           /\ call[c].read \in Nat /\ call[c].room \in Int
           /\ call[c].map \in SUBSET (Specs \X Specs) /\ call[c].armed \in Readers \union {None}
           /\ call[c].cancelled \in BOOLEAN
  <1>1. call[c] \in CallRec
    BY DEF TypeOK
  <1>2. call[c].heads \in Seq(Specs) /\ call[c].map \in SUBSET (Specs \X Specs)
    BY <1>1 DEF CallRec
  <1>3. Len(call[c].heads) \in Nat
    BY <1>2
  <1>4. /\ call[c].k \in Readers \union {None} /\ call[c].own \in BOOLEAN
        /\ call[c].from \in Nat /\ call[c].read \in Nat /\ call[c].room \in Int
    BY <1>1 DEF CallRec
  <1>5. call[c].armed \in Readers \union {None} /\ call[c].cancelled \in BOOLEAN
    BY <1>1 DEF CallRec
  <1> QED
    BY <1>1, <1>2, <1>3, <1>4, <1>5

LEMMA ReaderFields ==
    ASSUME NEW r \in ReaderRec
    PROVE  /\ r.proc \in {"none", "up", "silent", "dead", "reaped"}
           /\ r.asked \in Seq(Commands) /\ r.told \in Seq(Commands)
           /\ r.doomed \in BOOLEAN /\ r.poison \in BOOLEAN /\ r.closed \in BOOLEAN /\ r.gate \in BOOLEAN
  BY DEF ReaderRec

\* A batch is a non-empty sequence of specs.
LEMMA BatchType == ASSUME NEW c \in Calls
                   PROVE  Batch[c] \in Seq(Specs) /\ Len(Batch[c]) \in Nat \ {0}
  BY BlobsAssumption, EmptySeq DEF BlobsAssumption

\* The next chunk is a part of the batch, and not an empty one.
LEMMA ChunkIsPart ==
    ASSUME NEW c \in Calls, call[c].from \in Nat, call[c].from < Len(Batch[c])
    PROVE  /\ Chunk(c) \in Seq(Specs) /\ Len(Chunk(c)) \in Nat \ {0}
           /\ \A i \in 1..Len(Chunk(c)) : Chunk(c)[i] = Batch[c][call[c].from + i] /\ Chunk(c)[i] \in Specs
           /\ Last(c) => call[c].from + Len(Chunk(c)) = Len(Batch[c])
           /\ ~Last(c) => Len(Chunk(c)) = MaxBatch /\ call[c].from + MaxBatch < Len(Batch[c])
  <1> DEFINE b == Batch[c]
             m == call[c].from + 1
             n == IF Last(c) THEN Len(b) ELSE call[c].from + MaxBatch
  <1>1. b \in Seq(Specs) /\ Len(b) \in Nat
    BY BatchType
  <1>2. MaxBatch \in Nat \ {0}
    BY BlobsAssumption DEF BlobsAssumption
  <1>3. m \in 1..(Len(b) + 1) /\ n \in (m - 1)..Len(b) /\ m <= n
    BY <1>1, <1>2 DEF Last
  <1>4. Chunk(c) = SubSeq(b, m, n)
    BY DEF Chunk
  <1>5. /\ Chunk(c) \in Seq(Specs) /\ Len(Chunk(c)) = n - m + 1
        /\ \A i \in 1..(n - m + 1) : Chunk(c)[i] = b[m + i - 1]
    <2> HIDE DEF b, m, n
    <2> QED
      BY <1>1, <1>3, <1>4, SubSeqProperties
  <1>6. Len(Chunk(c)) \in Nat \ {0} /\ \A i \in 1..Len(Chunk(c)) : Chunk(c)[i] \in Specs
    BY <1>3, <1>5, <1>1
  <1>7. \A i \in 1..Len(Chunk(c)) : Chunk(c)[i] = Batch[c][call[c].from + i]
    <2> SUFFICES ASSUME NEW i \in 1..Len(Chunk(c)) PROVE Chunk(c)[i] = b[call[c].from + i]
      OBVIOUS
    <2>1. i \in 1..(n - m + 1) /\ m + i - 1 = call[c].from + i
      BY <1>5
    <2> QED
      BY <1>5, <2>1
  <1>8. Last(c) => call[c].from + Len(Chunk(c)) = Len(Batch[c])
    BY <1>1, <1>5
  <1>9. ~Last(c) => Len(Chunk(c)) = MaxBatch /\ call[c].from + MaxBatch < Len(Batch[c])
    BY <1>1, <1>2, <1>5 DEF Last
  <1> QED
    BY <1>5, <1>6, <1>7, <1>8, <1>9

\* A set of numbers that is not empty has a least one, and NextOf is it.
LEMMA NextIsLeast == ASSUME NEW S \in SUBSET Nat, S # {}
                     PROVE  NextOf(S) \in S /\ \A j \in S : NextOf(S) <= j
  <1>1. IsWellFoundedOn({ss \in Nat \X Nat : ss[1] < ss[2]}, Nat)
    BY NatLessThanWellFounded DEF OpToRel
  <1>2. PICK x \in S : \A y \in S : ~(<<y, x>> \in {ss \in Nat \X Nat : ss[1] < ss[2]})
    BY <1>1, WFMin
  <1>3. \A y \in S : x <= y
    <2> SUFFICES ASSUME NEW y \in S, y < x PROVE FALSE
      OBVIOUS
    <2>1. <<y, x>> \in Nat \X Nat
      OBVIOUS
    <2>2. <<y, x>> \in {ss \in Nat \X Nat : ss[1] < ss[2]}
      BY <2>1
    <2> QED
      BY <1>2, <2>2
  <1> QED
    BY <1>3 DEF NextOf

\* The wanted places of a call are places of its chunk.
LEMMA WantedPlaces ==
    ASSUME TypeOK, NEW c \in Calls, Wanted(c) # {}, Len(call[c].heads) <= Len(Chunk(c)),
           call[c].from < Len(Batch[c])
    PROVE  LET n == NextOf(Wanted(c))
           IN  /\ n \in 1..Len(call[c].heads) /\ n \in 1..Len(Chunk(c)) /\ call[c].read < n
               /\ Available(call[c].heads[n])
               /\ \A j \in 1..(n - 1) : j > call[c].read => ~Available(call[c].heads[j])
  <1>1. /\ call[c] \in CallRec /\ call[c].heads \in Seq(Specs) /\ call[c].read \in Nat
        /\ Len(call[c].heads) \in Nat /\ call[c].from \in Nat
    BY CallFields
  <1>2. Wanted(c) \in SUBSET Nat
    BY <1>1 DEF Wanted
  <1>3. NextOf(Wanted(c)) \in Wanted(c) /\ \A j \in Wanted(c) : NextOf(Wanted(c)) <= j
    BY <1>2, NextIsLeast
  <1>4. Len(Chunk(c)) \in Nat
    BY <1>1, ChunkIsPart
  <1> DEFINE n == NextOf(Wanted(c))
  <1> HIDE DEF n
  <1>5. /\ n \in 1..Len(call[c].heads) /\ n > call[c].read /\ Available(call[c].heads[n])
        /\ \A j \in Wanted(c) : n <= j
    BY <1>3 DEF Wanted, n
  <1>6. \A j \in 1..(n - 1) : j > call[c].read => ~Available(call[c].heads[j])
    <2> SUFFICES ASSUME NEW j \in 1..(n - 1), j > call[c].read, Available(call[c].heads[j])
                 PROVE  FALSE
      OBVIOUS
    <2>1. j \in 1..Len(call[c].heads) /\ j < n
      BY <1>1, <1>5
    <2>2. j \in Wanted(c)
      BY <2>1 DEF Wanted
    <2> QED
      BY <1>1, <1>5, <2>1, <2>2
  <1> QED
    BY <1>1, <1>4, <1>5, <1>6 DEF n

\* What a call sends is a command.
LEMMA CommandType ==
    ASSUME TypeOK, NEW c \in Calls, InStream(c), Progress(c), Infos(c) \/ Wanted(c) # {}
    PROVE  Command(c) \in Commands
  <1>1. /\ Len(call[c].heads) \in Nat /\ call[c].from \in Nat /\ call[c].from < Len(Batch[c])
        /\ Len(call[c].heads) <= Len(Chunk(c))
    BY CallFields DEF Progress, InStream
  <1>2. CASE Infos(c)
    <2>1. Len(call[c].heads) + 1 \in 1..Len(Chunk(c))
      BY <1>1, <1>2, ChunkIsPart DEF Infos
    <2> QED
      BY <1>1, <1>2, <2>1, ChunkIsPart DEF Command, Commands
  <1>3. CASE ~Infos(c)
    BY <1>1, <1>3, WantedPlaces, ChunkIsPart DEF Command, Commands
  <1> QED
    BY <1>2, <1>3

-----------------------------------------------------------------------------
(* What a step leaves alone.                                                 *)

LEMMA Changed == ASSUME TypeOK, NEW k \in Readers, NEW r \in ReaderRec, Change(k, r)
                 PROVE  /\ reader' \in [Readers -> ReaderRec] /\ reader'[k] = r
                        /\ \A j \in Readers \ {k} : reader'[j] = reader[j]
  BY DEF TypeOK, Change

LEMMA Became == ASSUME TypeOK, NEW c \in Calls, NEW r \in CallRec, Become(c, r)
                PROVE  /\ call' \in [Calls -> CallRec] /\ call'[c] = r
                       /\ \A d \in Calls \ {c} : call'[d] = call[d]
  BY DEF TypeOK, Become

\* Where a call is in its batch decides what it sends next.
LEMMA SamePlace ==
    ASSUME NEW d \in Calls, call'[d].from = call[d].from, call'[d].heads = call[d].heads,
           call'[d].read = call[d].read
    PROVE  /\ Chunk(d)' = Chunk(d) /\ Command(d)' = Command(d)
           /\ (Infos(d)' <=> Infos(d)) /\ Wanted(d)' = Wanted(d)
  <1>1. Chunk(d)' = Chunk(d) /\ Wanted(d)' = Wanted(d)
    BY DEF Chunk, Last, Wanted
  <1>2. Infos(d)' <=> Infos(d)
    BY <1>1 DEF Infos
  <1>3. Command(d)' = Command(d)
    BY <1>1, <1>2 DEF Command
  <1> QED
    BY <1>1, <1>2, <1>3

LEMMA ProgressStands ==
    ASSUME NEW d \in Calls, Progress(d), call'[d].pc = call[d].pc, call'[d].from = call[d].from,
           call'[d].heads = call[d].heads, call'[d].read = call[d].read, call'[d].map = call[d].map
    PROVE  Progress(d)'
  <1>1. /\ Chunk(d)' = Chunk(d) /\ (Infos(d)' <=> Infos(d)) /\ Wanted(d)' = Wanted(d)
    BY SamePlace
  <1>2. /\ BlobsUpto(d, call[d].from)' = BlobsUpto(d, call[d].from)
        /\ BlobsUpto(d, Len(Batch[d]))' = BlobsUpto(d, Len(Batch[d]))
        /\ ReadUpto(d, call[d].read)' = ReadUpto(d, call[d].read)
    BY <1>1 DEF BlobsUpto, ReadUpto
  <1> QED
    BY <1>1, <1>2 DEF Progress, InStream

\* A call stays in step with its stream if neither changes.
Stands(d) ==
    LET k == call[d].k
    IN  /\ call'[d].pc = call[d].pc /\ call'[d].k = k /\ call'[d].from = call[d].from
        /\ call'[d].heads = call[d].heads /\ call'[d].read = call[d].read
        /\ reader'[k].asked = reader[k].asked /\ reader'[k].told = reader[k].told
        /\ reader'[k].gate = reader[k].gate

LEMMA ExpectsStands == ASSUME NEW d \in Calls, InStream(d), Stands(d), Expects(d),
                              ~reader[call[d].k].gate
                       PROVE  ~reader'[call'[d].k].gate /\ Expects(d)'
  <1>1. Command(d)' = Command(d)
    BY SamePlace DEF Stands
  <1> QED
    BY <1>1 DEF Stands, Expects

LEMMA StreamsStand ==
    ASSUME Streams, \A k \in Readers : Clean(reader'[k]),
           \A d \in Calls : InStream(d)' => InStream(d) /\ Stands(d)
    PROVE  Streams'
  <1>1. \A d \in Calls : InStream(d)' => ~reader'[call'[d].k].gate /\ Expects(d)'
    BY ExpectsStands DEF Streams
  <1>2. \A c, d \in Calls : InStream(c)' /\ InStream(d)' /\ call'[c].k = call'[d].k => c = d
    BY DEF Streams, Stands
  <1> QED
    BY <1>1, <1>2 DEF Streams, Clean

\* One call moves, with a reader no other call has on its stream.
LEMMA StreamsMove ==
    ASSUME Streams, \A k \in Readers : Clean(reader'[k]), NEW c \in Calls,
           \A d \in Calls \ {c} : InStream(d)' => InStream(d) /\ Stands(d) /\ call[d].k # call'[c].k,
           ~reader'[call'[c].k].gate, Expects(c)'
    PROVE  Streams'
  <1>1. \A d \in Calls : InStream(d)' => ~reader'[call'[d].k].gate /\ Expects(d)'
    BY ExpectsStands DEF Streams
  <1>2. \A b, d \in Calls : InStream(b)' /\ InStream(d)' /\ call'[b].k = call'[d].k => b = d
    BY DEF Streams, Stands
  <1> QED
    BY <1>1, <1>2 DEF Streams, Clean

\* In a cell a call that is served is alone.
LEMMA Alone == ASSUME IInv, via = "cell", NEW c \in Calls, Active(c)
               PROVE  \A d \in Calls \ {c} : ~Active(d)
  BY DEF IInv, Locked

-----------------------------------------------------------------------------
(* Processes and contexts.                                                   *)

\* A step that changes readers only.
LEMMA ReaderStep ==
    ASSUME IInv, UNCHANGED <<via, mu, blob, call, closer>>, fires' \subseteq Readers,
           faults' \subseteq Readers, reader' \in [Readers -> ReaderRec], Streams'
    PROVE  IInv'
  <1>1. TypeOK' /\ Locked' /\ Places'
    BY DEF IInv, TypeOK, Locked, Places, Active
  <1>2. \A c \in Calls : Progress(c)'
    BY ProgressStands DEF IInv
  <1> QED
    BY <1>1, <1>2 DEF IInv

LEMMA AnswerOK == ASSUME IInv, NEW k \in Readers, Answer(k) PROVE IInv'
  <1> DEFINE r == reader[k]
             n == [r EXCEPT !.asked = Tail(@), !.told = Append(@, Head(r.asked))]
  <1>0. TypeOK /\ Streams /\ Places /\ r \in ReaderRec
    BY DEF IInv, TypeOK
  <1>1. r.asked \in Seq(Commands) /\ r.told \in Seq(Commands) /\ r.asked # << >> /\ Change(k, n)
    BY <1>0, ReaderFields DEF Answer
  <1>2. Tail(r.asked) \in Seq(Commands) /\ Append(r.told, Head(r.asked)) \in Seq(Commands)
    BY <1>1, HeadTailProperties
  <1>3. /\ n \in ReaderRec /\ n.asked = Tail(r.asked) /\ n.told = Append(r.told, Head(r.asked))
        /\ n.gate = r.gate /\ n.poison = r.poison /\ n.closed = r.closed
    BY <1>0, <1>2 DEF ReaderRec
  <1> HIDE DEF n
  <1>4. /\ reader' \in [Readers -> ReaderRec] /\ reader'[k] = n
        /\ \A j \in Readers \ {k} : reader'[j] = reader[j]
    BY <1>0, <1>1, <1>3, Changed
  <1>5. UNCHANGED <<via, mu, blob, call, fires, closer, faults>>
    BY DEF Answer
  <1>6. \A j \in Readers : Clean(reader'[j])
    BY <1>0, <1>1, <1>3, <1>4 DEF Streams, Clean
  <1>7. ASSUME NEW d \in Calls, InStream(d) PROVE ~reader'[call[d].k].gate /\ Expects(d)'
    <2>1. Command(d)' = Command(d)
      BY <1>5, SamePlace
    <2>2. ~reader[call[d].k].gate /\ Expects(d) /\ call[d].k \in Readers
      BY <1>0, <1>7 DEF Streams, Places, InStream, Active
    <2>3. CASE call[d].k # k
      BY <1>4, <1>5, <2>1, <2>2, <2>3 DEF Expects
    <2>4. CASE call[d].k = k
      <3>1. call[d].pc = "hear" /\ r.asked = <<Command(d)>> /\ r.told = << >>
        BY <1>1, <2>2, <2>4 DEF Expects
      <3>2. n.asked = << >> /\ n.told = <<Command(d)>>
        BY <1>3, <3>1
      <3> QED
        BY <1>3, <1>4, <1>5, <2>1, <2>2, <2>4, <3>1, <3>2 DEF Expects
    <2> QED
      BY <2>3, <2>4
  <1>8. Streams'
    BY <1>0, <1>5, <1>6, <1>7 DEF Streams, InStream
  <1> QED
    BY <1>0, <1>4, <1>5, <1>8, ReaderStep DEF TypeOK

LEMMA ProcessOK == ASSUME IInv, NEW k \in Readers, Break(k) \/ Die(k) \/ Cancel(k) PROVE IInv'
  <1> DEFINE Alike(r) == /\ r \in ReaderRec
                         /\ r.asked = reader[k].asked /\ r.told = reader[k].told
                         /\ r.gate = reader[k].gate /\ r.closed = reader[k].closed
                         /\ r.poison = reader[k].poison \/ r.poison = TRUE
  <1>0. TypeOK /\ Streams /\ Places /\ reader[k] \in ReaderRec
    BY DEF IInv, TypeOK
  <1>1. \A s \in {"dead", "silent"} : Alike([reader[k] EXCEPT !.proc = s])
    BY <1>0 DEF ReaderRec
  <1>2. Alike(poisonWith(reader[k]))
    BY <1>0 DEF ReaderRec, poisonWith
  <1> HIDE DEF Alike
  <1>3. \E r : Alike(r) /\ Change(k, r)
    BY <1>1, <1>2 DEF Break, Die, Cancel
  <1>4. PICK r : Alike(r) /\ Change(k, r)
    BY <1>3
  <1>5. /\ r \in ReaderRec /\ reader' \in [Readers -> ReaderRec] /\ reader'[k] = r
        /\ \A j \in Readers \ {k} : reader'[j] = reader[j]
    BY <1>0, <1>4, Changed DEF Alike
  <1>6. /\ UNCHANGED <<via, mu, blob, call, closer>> /\ fires' \subseteq Readers
        /\ faults' \subseteq Readers
    BY <1>0 DEF Break, Die, Cancel, Fault, TypeOK
  <1>7. \A j \in Readers : Clean(reader'[j])
    BY <1>0, <1>4, <1>5 DEF Alike, Streams, Clean
  <1>8. \A d \in Calls : InStream(d)' => InStream(d) /\ Stands(d)
    BY <1>0, <1>4, <1>5, <1>6 DEF Alike, InStream, Stands, Places, Active
  <1>9. Streams'
    BY <1>0, <1>7, <1>8, StreamsStand
  <1> QED
    BY <1>5, <1>6, <1>9, ReaderStep

-----------------------------------------------------------------------------
(* A step of one call.                                                       *)

\* A call that is served moves: the others stay where they are.
LEMMA MoveOK ==
    ASSUME IInv, NEW c \in Calls, Active(c), NEW r \in CallRec, Become(c, r),
           UNCHANGED <<via, closer>>,
           mu' = mu \/ (mu' = None /\ r.pc \in {"ok", "error"}), blob' \in {blob, None},
           reader' \in [Readers -> ReaderRec], fires' \subseteq Readers, faults' \subseteq Readers,
           via = "direct" => r.pc \in {"chunk", "ask", "hear", "ok", "error"},
           r.pc \notin {"idle", "lock", "spawn", "ok", "error"} =>
               r.k \in Readers /\ (via = "direct" => r.k = 1),
           Streams', Progress(c)'
    PROVE  IInv'
  <1>1. /\ call' \in [Calls -> CallRec] /\ call'[c] = r
        /\ \A d \in Calls \ {c} : call'[d] = call[d]
    BY Became DEF IInv
  <1>2. TypeOK'
    BY <1>1 DEF IInv, TypeOK
  <1>3. via = "cell" => mu = c /\ \A d \in Calls \ {c} : ~Active(d)
    BY Alone DEF IInv, Locked
  <1>4. via = "cell" => closer # "wait"
    BY <1>3, BlobsAssumption DEF BlobsAssumption, IInv, Locked
  <1>5. Locked'
    <2>1. ASSUME via = "cell", NEW d \in Calls, Active(d)' PROVE mu' = d
      <3>1. d = c
        BY <1>1, <1>3, <2>1 DEF Active
      <3> QED
        BY <1>1, <1>3, <2>1, <3>1 DEF Active
    <2> QED
      BY <1>4, <2>1 DEF Locked
  <1>6. Places'
    BY <1>1 DEF IInv, Places, Active
  <1>7. \A d \in Calls \ {c} : Progress(d)'
    BY <1>1, ProgressStands DEF IInv
  <1> QED
    BY <1>2, <1>5, <1>6, <1>7 DEF IInv

LEMMA CtxDoneOK == ASSUME IInv, NEW c \in Calls, CtxDone(c) PROVE IInv'
  <1> DEFINE r == [call[c] EXCEPT !.cancelled = TRUE, !.armed = None]
  <1>0. TypeOK /\ call[c] \in CallRec /\ call[c].armed \in Readers \union {None}
    BY CallFields DEF IInv
  <1>1. /\ r \in CallRec /\ r.pc = call[c].pc /\ r.k = call[c].k /\ r.from = call[c].from
        /\ r.heads = call[c].heads /\ r.read = call[c].read /\ r.map = call[c].map
    BY <1>0 DEF CallRec
  <1>2. Become(c, r) /\ UNCHANGED <<via, mu, blob, reader, closer, faults>> /\ fires' \subseteq Readers
    BY <1>0 DEF CtxDone, TypeOK
  <1> HIDE DEF r
  <1>3. /\ call' \in [Calls -> CallRec] /\ call'[c] = r
        /\ \A d \in Calls \ {c} : call'[d] = call[d]
    BY <1>0, <1>1, <1>2, Became
  <1>4. \A d \in Calls : /\ call'[d].pc = call[d].pc /\ call'[d].k = call[d].k
                         /\ call'[d].from = call[d].from /\ call'[d].heads = call[d].heads
                         /\ call'[d].read = call[d].read /\ call'[d].map = call[d].map
    BY <1>1, <1>3
  <1>5. TypeOK' /\ Locked' /\ Places'
    BY <1>2, <1>3, <1>4 DEF IInv, TypeOK, Locked, Places, Active
  <1>6. Streams'
    BY <1>2, <1>4, StreamsStand DEF IInv, Streams, InStream, Stands
  <1>7. \A d \in Calls : Progress(d)'
    BY <1>4, ProgressStands DEF IInv
  <1> QED
    BY <1>5, <1>6, <1>7 DEF IInv

LEMMA NothingYet == ASSUME NEW c \in Calls PROVE BlobsUpto(c, 0) = {}
  BY DEF BlobsUpto

LEMMA Starts == ASSUME NEW c \in Calls, call'[c].pc \in {"lock", "chunk"}, call'[c].from = 0,
                       call'[c].map = {}
                PROVE  Progress(c)'
  <1>1. 0 < Len(Batch[c])
    BY BatchType
  <1>2. BlobsUpto(c, call'[c].from) = {}
    BY NothingYet
  <1>3. BlobsUpto(c, call[c].from)' = BlobsUpto(c, call'[c].from)
    BY DEF BlobsUpto
  <1> QED
    BY <1>1, <1>2, <1>3 DEF Progress, InStream

LEMMA BeginOK == ASSUME IInv, NEW c \in Calls, Begin(c) PROVE IInv'
  <1> DEFINE r == IF via = "cell" THEN [Idle EXCEPT !.pc = "lock"]
                  ELSE [Idle EXCEPT !.pc = "chunk", !.k = 1]
  <1>0. TypeOK
    BY DEF IInv
  <1>1. /\ r \in CallRec /\ r.from = 0 /\ r.map = {} /\ r.pc = (IF via = "cell" THEN "lock" ELSE "chunk")
        /\ via # "cell" => r.k = 1
    BY FreshTypes, ReadersExist DEF CallRec, Idle
  <1>2. /\ Become(c, r) /\ call[c].pc = "idle"
        /\ UNCHANGED <<via, mu, blob, reader, fires, closer, faults>>
    BY DEF Begin
  <1> HIDE DEF r
  <1>3. /\ call' \in [Calls -> CallRec] /\ call'[c] = r
        /\ \A d \in Calls \ {c} : call'[d] = call[d]
    BY <1>0, <1>1, <1>2, Became
  <1>4. TypeOK'
    BY <1>0, <1>2, <1>3 DEF TypeOK
  <1>5. Locked'
    BY <1>1, <1>2, <1>3 DEF IInv, Locked, Active
  <1>6. Places'
    BY <1>0, <1>1, <1>2, <1>3, ReadersExist DEF IInv, Places, Active, TypeOK
  <1>7. Streams'
    BY <1>1, <1>2, <1>3, StreamsStand DEF IInv, Streams, InStream, Stands
  <1>8. Progress(c)'
    BY <1>1, <1>3, Starts
  <1>9. \A d \in Calls \ {c} : Progress(d)'
    BY <1>3, ProgressStands DEF IInv
  <1> QED
    BY <1>4, <1>5, <1>6, <1>7, <1>8, <1>9 DEF IInv

\* One reader changes under a call that is not in its stream, or leaves it.
LEMMA StreamsLeft ==
    ASSUME IInv, NEW c \in Calls, call'[c].pc \notin {"ask", "hear"},
           \A d \in Calls \ {c} : call'[d] = call[d] /\ (via = "cell" => ~InStream(d)),
           NEW k \in Readers, NEW r \in ReaderRec, Clean(r), Change(k, r),
           via = "direct" => /\ k = call[c].k
                             /\ \/ InStream(c)
                                \/ /\ r.asked = reader[k].asked /\ r.told = reader[k].told
                                   /\ r.gate = reader[k].gate
    PROVE  Streams' /\ reader' \in [Readers -> ReaderRec]
  <1>1. /\ reader' \in [Readers -> ReaderRec] /\ reader'[k] = r
        /\ \A j \in Readers \ {k} : reader'[j] = reader[j]
    BY Changed DEF IInv
  <1>2. \A j \in Readers : Clean(reader'[j])
    BY <1>1 DEF IInv, Streams
  <1>3. ASSUME NEW d \in Calls, InStream(d)' PROVE InStream(d) /\ Stands(d)
    <2>1. d # c /\ call'[d] = call[d] /\ InStream(d) /\ via = "direct"
      BY <1>3 DEF InStream, IInv, TypeOK
    <2>2. call[d].k \in Readers
      BY <2>1 DEF IInv, Places, InStream, Active
    <2>3. CASE call[d].k # k
      BY <1>1, <2>1, <2>2, <2>3 DEF Stands
    <2>4. CASE call[d].k = k
      <3>1. ~InStream(c)
        BY <2>1, <2>4 DEF IInv, Streams
      <3> QED
        BY <1>1, <2>1, <2>2, <2>4, <3>1 DEF Stands
    <2> QED
      BY <2>3, <2>4
  <1> QED
    BY <1>1, <1>2, <1>3, StreamsStand DEF IInv

\* A call without blobMu before it is served, or with a reader that failed, leaves.
LEMMA FailedOK ==
    ASSUME IInv, NEW c \in Calls, call[c].pc \in {"chunk", "ask", "hear"}, NEW r \in ReaderRec,
           Clean(r), InStream(c) \/ r = reader[call[c].k], Failed(c, r),
           UNCHANGED <<via, mu, closer, faults>>, fires' \subseteq Readers
    PROVE  IInv'
  <1> DEFINE k == call[c].k
             n == IF via = "direct" THEN r ELSE Shut(r)
             pc == IF via = "direct" THEN "error"
                   ELSE IF call[c].own THEN "reapError" ELSE "reapSpawn"
             m == [Idle EXCEPT !.pc = pc, !.k = call[c].k, !.own = call[c].own,
                               !.map = call[c].map, !.cancelled = call[c].cancelled]
  <1>0. TypeOK /\ Active(c) /\ k \in Readers /\ (via = "direct" => k = 1)
    BY DEF IInv, Active, Places
  <1>1. /\ n \in ReaderRec /\ Clean(n)
        /\ via = "direct" => n = r
    BY DEF ReaderRec, Shut, Clean
  <1>2. m \in CallRec /\ m.pc = pc /\ m.k = k
    <2>1. pc \in {"error", "reapError", "reapSpawn"}
      OBVIOUS
    <2> HIDE DEF pc
    <2> QED
      BY <1>0, <2>1, FreshTypes, CallFields DEF CallRec, Idle
  <1>3. Change(k, n) /\ blob' \in {blob, None} /\ Become(c, m)
    BY DEF Failed, Leave
  <1>4. pc \in {"error", "reapError", "reapSpawn"} /\ (via = "direct" => pc = "error")
    OBVIOUS
  <1> HIDE DEF n, m, pc, k
  <1>5. /\ call' \in [Calls -> CallRec] /\ call'[c] = m
        /\ \A d \in Calls \ {c} : call'[d] = call[d]
    BY <1>0, <1>2, <1>3, Became
  <1>6. \A d \in Calls \ {c} : call'[d] = call[d] /\ (via = "cell" => ~InStream(d))
    BY <1>0, <1>5, Alone DEF Active, InStream
  <1>7. call'[c].pc \notin {"ask", "hear"}
    BY <1>2, <1>4, <1>5
  <1>8. via = "direct" => /\ k = call[c].k
                          /\ \/ InStream(c)
                             \/ /\ n.asked = reader[k].asked /\ n.told = reader[k].told
                                /\ n.gate = reader[k].gate
    BY <1>1 DEF k
  <1>9. Streams' /\ reader' \in [Readers -> ReaderRec]
    BY <1>0, <1>1, <1>3, <1>6, <1>7, <1>8, StreamsLeft
  <1>10. Progress(c)'
    BY <1>2, <1>4, <1>5 DEF Progress, InStream
  <1>11. faults' \subseteq Readers
    BY <1>0 DEF TypeOK
  <1>12. /\ via = "direct" => m.pc \in {"chunk", "ask", "hear", "ok", "error"}
         /\ m.pc \notin {"idle", "lock", "spawn", "ok", "error"} =>
               m.k \in Readers /\ (via = "direct" => m.k = 1)
    BY <1>0, <1>2, <1>4
  <1> QED
    BY <1>0, <1>2, <1>3, <1>9, <1>10, <1>11, <1>12, MoveOK

-----------------------------------------------------------------------------
(* Cell.BlobsBatch.                                                          *)

\* A call like r but for what its context will poison.
Like(n, r) == /\ n \in CallRec /\ n.pc = r.pc /\ n.k = r.k /\ n.from = r.from /\ n.heads = r.heads
              /\ n.read = r.read /\ n.map = r.map

LEMMA ArmOK == ASSUME TypeOK, NEW c \in Calls, NEW r \in CallRec, r.k \in Readers, Arm(c, r)
               PROVE  (\E n : Like(n, r) /\ Become(c, n)) /\ fires' \subseteq Readers
  <1>1. CASE r.cancelled
    <2>1. Like(r, r) /\ Become(c, r)
      BY <1>1 DEF Arm, Like
    <2> QED
      BY <1>1, <2>1 DEF Arm, TypeOK
  <1>2. CASE ~r.cancelled
    <2> DEFINE n == [r EXCEPT !.armed = r.k]
    <2>1. Like(n, r)
      BY DEF CallRec, Like
    <2>2. Become(c, n) /\ fires' = fires
      BY <1>2 DEF Arm
    <2> HIDE DEF n
    <2> QED
      BY <2>1, <2>2 DEF TypeOK
  <1> QED
    BY <1>1, <1>2

\* Nobody is served when blobMu is free, nor is Close at work.
LEMMA NobodyServed == ASSUME IInv, via = "cell", Free
                      PROVE  closer # "wait" /\ \A d \in Calls : ~Active(d)
  BY BlobsAssumption DEF IInv, Locked, Free, BlobsAssumption

LEMMA LockOK == ASSUME IInv, NEW c \in Calls, Lock(c) PROVE IInv'
  <1>0. TypeOK /\ via = "cell" /\ mu = None /\ mu' = c /\ closer' = closer /\ via' = via
    BY DEF IInv, Places, Lock, Free, TypeOK
  <1>1. closer # "wait" /\ \A d \in Calls : ~Active(d)
    BY <1>0, NobodyServed DEF Free
  <1>2. call[c].pc = "lock" /\ call[c] \in CallRec /\ call[c].from = 0 /\ call[c].map = {}
    BY CallFields DEF IInv, Lock, Progress
  \* It is served with a daemon, or will be with a process of its own.
  <1>3. ASSUME NEW n \in CallRec, Become(c, n), n.pc \in {"chunk", "spawn"},
               n.pc = "chunk" => n.k \in Readers /\ n.from = 0 /\ n.map = {},
               reader' \in [Readers -> ReaderRec], \A k \in Readers : Clean(reader'[k]),
               blob' \in Readers \union {None}, fires' \subseteq Readers, faults' \subseteq Readers
        PROVE  IInv'
    <2>1. /\ call' \in [Calls -> CallRec] /\ call'[c] = n
          /\ \A d \in Calls \ {c} : call'[d] = call[d]
      BY <1>0, <1>3, Became
    <2>2. TypeOK'
      BY <1>0, <1>3, <2>1 DEF TypeOK
    <2>3. Locked'
      BY <1>0, <1>1, <2>1 DEF Locked, Active
    <2>4. Places'
      BY <1>0, <1>1, <1>3, <2>1 DEF IInv, Places, Active
    <2>5. \A d \in Calls : ~InStream(d)'
      BY <1>1, <1>3, <2>1 DEF InStream, Active
    <2>6. Streams'
      BY <1>3, <2>5 DEF Streams, Clean
    <2>7. Progress(c)'
      <3>1. CASE n.pc = "chunk"
        BY <1>3, <2>1, <3>1, Starts
      <3>2. CASE n.pc = "spawn"
        BY <2>1, <3>2 DEF Progress, InStream
      <3> QED
        BY <1>3, <3>1, <3>2
    <2>8. \A d \in Calls \ {c} : Progress(d)'
      BY <2>1, ProgressStands DEF IInv
    <2> QED
      BY <2>2, <2>3, <2>4, <2>6, <2>7, <2>8 DEF IInv
  <1>4. \A k \in Readers : reader[k] \in ReaderRec /\ Clean(reader[k])
    BY <1>0 DEF IInv, Streams, TypeOK
  <1>5. CASE blob # None
    <2> DEFINE r == [call[c] EXCEPT !.pc = "chunk", !.k = blob, !.own = FALSE]
    <2>1. r \in CallRec /\ r.pc = "chunk" /\ r.k = blob /\ r.from = 0 /\ r.map = {} /\ r.k \in Readers
      BY <1>0, <1>2, <1>5 DEF CallRec, TypeOK
    <2>2. Arm(c, r) /\ UNCHANGED <<blob, reader, faults>>
      BY <1>5 DEF Lock
    <2> HIDE DEF r
    <2>3. PICK n : Like(n, r) /\ Become(c, n)
      BY <1>0, <2>1, <2>2, ArmOK
    <2>4. fires' \subseteq Readers
      BY <1>0, <2>1, <2>2, ArmOK
    <2> QED
      BY <1>0, <1>3, <1>4, <2>1, <2>2, <2>3, <2>4 DEF Like, TypeOK
  <1>6. CASE blob = None
    <2>1. PICK k \in Readers :
            \/ /\ Change(k, Opened) /\ blob' = k
               /\ Arm(c, [call[c] EXCEPT !.pc = "chunk", !.k = k, !.own = FALSE])
               /\ UNCHANGED faults
            \/ /\ Fault(k) /\ Change(k, Reaped)
               /\ Become(c, [call[c] EXCEPT !.pc = "spawn"]) /\ UNCHANGED <<blob, fires>>
      BY <1>6 DEF Lock
    <2>2. CASE /\ Change(k, Opened) /\ blob' = k
               /\ Arm(c, [call[c] EXCEPT !.pc = "chunk", !.k = k, !.own = FALSE])
               /\ UNCHANGED faults
      <3> DEFINE r == [call[c] EXCEPT !.pc = "chunk", !.k = k, !.own = FALSE]
      <3>1. r \in CallRec /\ r.pc = "chunk" /\ r.k = k /\ r.from = 0 /\ r.map = {}
        BY <1>2 DEF CallRec
      <3>2. Arm(c, r)
        BY <2>2
      <3> HIDE DEF r
      <3>3. PICK n : Like(n, r) /\ Become(c, n)
        BY <1>0, <3>1, <3>2, ArmOK
      <3>4. fires' \subseteq Readers
        BY <1>0, <3>1, <3>2, ArmOK
      <3>5. reader' \in [Readers -> ReaderRec] /\ \A j \in Readers : Clean(reader'[j])
        BY <1>0, <1>4, <2>2, FreshTypes, Changed
      <3> QED
        BY <1>0, <1>3, <2>2, <3>1, <3>3, <3>4, <3>5 DEF Like, TypeOK
    <2>3. CASE /\ Fault(k) /\ Change(k, Reaped)
               /\ Become(c, [call[c] EXCEPT !.pc = "spawn"]) /\ UNCHANGED <<blob, fires>>
      <3> DEFINE r == [call[c] EXCEPT !.pc = "spawn"]
      <3>1. r \in CallRec /\ r.pc = "spawn"
        BY <1>2 DEF CallRec
      <3>2. Become(c, r)
        BY <2>3
      <3> HIDE DEF r
      <3>3. reader' \in [Readers -> ReaderRec] /\ \A j \in Readers : Clean(reader'[j])
        BY <1>0, <1>4, <2>3, FreshTypes, Changed
      <3>4. faults' \subseteq Readers
        BY <1>0, <2>3 DEF Fault, TypeOK
      <3> QED
        BY <1>0, <1>3, <2>3, <3>1, <3>2, <3>3, <3>4 DEF TypeOK
    <2> QED
      BY <2>1, <2>2, <2>3
  <1> QED
    BY <1>5, <1>6

\* A call on its own in a cell: no stream is in use while it waits or opens a reader.
LEMMA SpawnOK == ASSUME IInv, NEW c \in Calls, Spawn(c) PROVE IInv'
  <1>0. TypeOK /\ via = "cell" /\ call[c].pc = "spawn" /\ Active(c) /\ call[c] \in CallRec
    BY CallFields DEF IInv, Places, Spawn, Active, TypeOK
  <1>1. UNCHANGED <<via, blob, fires, closer>>
    BY DEF Spawn
  <1>2. PICK k \in Readers :
          \/ /\ Change(k, Opened)
             /\ Become(c, [Idle EXCEPT !.pc = "chunk", !.k = k, !.cancelled = call[c].cancelled])
             /\ UNCHANGED <<mu, faults>>
          \/ /\ Fault(k) /\ Change(k, Reaped)
             /\ Become(c, [call[c] EXCEPT !.pc = "error", !.k = k, !.own = TRUE]) /\ mu' = None
    BY DEF Spawn
  <1>3. ASSUME NEW n \in CallRec, Become(c, n), n.pc \in {"chunk", "error"},
               n.pc = "chunk" => n.k \in Readers /\ n.from = 0 /\ n.map = {},
               mu' = mu \/ (mu' = None /\ n.pc = "error"),
               NEW r \in ReaderRec, Clean(r), Change(k, r), faults' \subseteq Readers
        PROVE  IInv'
    <2>1. call'[c] = n /\ \A d \in Calls \ {c} : call'[d] = call[d] /\ ~InStream(d)
      BY <1>0, <1>3, Became, Alone DEF Active, InStream
    <2>2. Streams' /\ reader' \in [Readers -> ReaderRec]
      BY <1>0, <1>3, <2>1, StreamsLeft
    <2>3. Progress(c)'
      <3>1. CASE n.pc = "chunk"
        BY <1>3, <2>1, <3>1, Starts
      <3>2. CASE n.pc = "error"
        BY <2>1, <3>2 DEF Progress, InStream
      <3> QED
        BY <1>3, <3>1, <3>2
    <2> QED
      BY <1>0, <1>1, <1>3, <2>2, <2>3, MoveOK DEF TypeOK
  <1>4. CASE /\ Change(k, Opened)
             /\ Become(c, [Idle EXCEPT !.pc = "chunk", !.k = k, !.cancelled = call[c].cancelled])
             /\ UNCHANGED <<mu, faults>>
    <2> DEFINE n == [Idle EXCEPT !.pc = "chunk", !.k = k, !.cancelled = call[c].cancelled]
    <2>1. n \in CallRec /\ n.pc = "chunk" /\ n.k = k /\ n.from = 0 /\ n.map = {}
      BY <1>0, FreshTypes, CallFields DEF CallRec, Idle
    <2> HIDE DEF n
    <2>2. Become(c, n)
      BY <1>4 DEF n
    <2> QED
      BY <1>0, <1>3, <1>4, <2>1, <2>2, FreshTypes DEF TypeOK
  <1>5. CASE /\ Fault(k) /\ Change(k, Reaped)
             /\ Become(c, [call[c] EXCEPT !.pc = "error", !.k = k, !.own = TRUE]) /\ mu' = None
    <2> DEFINE n == [call[c] EXCEPT !.pc = "error", !.k = k, !.own = TRUE]
    <2>1. n \in CallRec /\ n.pc = "error"
      BY <1>0 DEF CallRec
    <2> HIDE DEF n
    <2>2. Become(c, n)
      BY <1>5 DEF n
    <2>3. faults' \subseteq Readers
      BY <1>0, <1>5 DEF Fault, TypeOK
    <2> QED
      BY <1>3, <1>5, <2>1, <2>2, <2>3, FreshTypes
  <1> QED
    BY <1>2, <1>4, <1>5

LEMMA ReapOK == ASSUME IInv, NEW c \in Calls, Reap(c) PROVE IInv'
  <1> DEFINE next == CASE call[c].pc = "reapSpawn" -> "spawn"
                       [] call[c].pc = "reapError" -> "error"
                       [] call[c].pc = "reapOk"    -> "ok"
             n == [call[c] EXCEPT !.pc = next]
  <1>0. /\ TypeOK /\ via = "cell" /\ call[c].pc \in {"reapSpawn", "reapError", "reapOk"} /\ Active(c)
        /\ call[c] \in CallRec /\ call[c].k \in Readers
    BY CallFields DEF IInv, Places, Reap, Active, TypeOK
  <1>1. /\ next \in {"spawn", "error", "ok"}
        /\ next = "ok" => call[c].pc = "reapOk"
    BY <1>0
  <1>2. /\ UNCHANGED <<via, blob, fires, closer, faults>> /\ Change(call[c].k, Reaped) /\ Become(c, n)
        /\ mu' = mu \/ (mu' = None /\ next # "spawn")
    BY <1>0 DEF Reap, Unlock
  <1> HIDE DEF next
  <1>3. n \in CallRec /\ n.pc = next /\ n.map = call[c].map
    BY <1>0, <1>1 DEF CallRec
  <1> HIDE DEF n
  <1>4. call'[c] = n /\ \A d \in Calls \ {c} : call'[d] = call[d] /\ ~InStream(d)
    BY <1>0, <1>2, <1>3, Became, Alone DEF Active, InStream
  <1>5. Streams' /\ reader' \in [Readers -> ReaderRec]
    BY <1>0, <1>1, <1>2, <1>3, <1>4, FreshTypes, StreamsLeft
  <1>6. Progress(c)'
    <2>1. next = "ok" => call[c].map = BlobsUpto(c, Len(Batch[c]))
      BY <1>1 DEF IInv, Progress
    <2>2. BlobsUpto(c, Len(Batch[c]))' = BlobsUpto(c, Len(Batch[c]))
      BY DEF BlobsUpto
    <2> QED
      BY <1>1, <1>3, <1>4, <2>1, <2>2 DEF Progress, InStream
  <1> QED
    BY <1>0, <1>1, <1>2, <1>3, <1>5, <1>6, MoveOK DEF TypeOK

-----------------------------------------------------------------------------
(* readBlobs and Reader.Read.                                                *)

\* A reader that is given up, or given back with nothing on its stream.
LEMMA GivenBack ==
    ASSUME IInv, NEW c \in Calls, Active(c), call[c].pc # "spawn"
    PROVE  /\ reader[call[c].k] \in ReaderRec
           /\ Released(c) \in ReaderRec /\ protocolError(c) \in ReaderRec
           /\ Clean(reader[call[c].k]) /\ Clean(protocolError(c))
           /\ call[c].pc = "ask" => Clean(Released(c))
  <1> DEFINE r == reader[call[c].k]
  <1>1. call[c].k \in Readers /\ r \in ReaderRec /\ Clean(r)
    BY DEF IInv, TypeOK, Places, Streams
  <1>2. Released(c) \in ReaderRec /\ protocolError(c) \in ReaderRec /\ Clean(protocolError(c))
    BY <1>1 DEF ReaderRec, Released, protocolError, poisonWith, Clean
  <1>3. ASSUME call[c].pc = "ask" PROVE Clean(Released(c))
    <2>1. r.asked = << >> /\ r.told = << >>
      BY <1>3 DEF IInv, Streams, InStream, Expects
    <2> QED
      BY <1>1, <2>1 DEF ReaderRec, Released, Clean
  <1> QED
    BY <1>1, <1>2, <1>3

LEMMA TurnedOK == ASSUME IInv, NEW c \in Calls, Turned(c) PROVE IInv'
  <1>1. Failed(c, reader[call[c].k]) /\ call[c].pc = "chunk" /\ Active(c)
    BY DEF Turned, Active
  <1>2. UNCHANGED <<via, mu, fires, closer, faults>>
    BY DEF Turned
  <1> QED
    BY <1>1, <1>2, GivenBack, FailedOK DEF IInv, TypeOK

\* A call moves on its stream, which no other call uses.
LEMMA StreamOK ==
    ASSUME IInv, NEW c \in Calls, Active(c), call[c].pc # "spawn",
           InStream(c) \/ reader[call[c].k].gate,
           NEW n \in CallRec, Become(c, n), n.k = call[c].k, n.pc \in {"ask", "hear"},
           NEW r \in ReaderRec, Change(call[c].k, r), Clean(r), ~r.gate,
           UNCHANGED <<via, mu, blob, closer, faults>>, fires' \subseteq Readers,
           Expects(c)', Progress(c)'
    PROVE  IInv'
  <1> DEFINE k == call[c].k
  <1>1. k \in Readers /\ (via = "direct" => k = 1) /\ TypeOK
    BY DEF IInv, Places
  <1>2. /\ reader' \in [Readers -> ReaderRec] /\ reader'[k] = r
        /\ \A j \in Readers \ {k} : reader'[j] = reader[j]
    BY <1>1, Changed
  <1>3. call'[c] = n /\ \A d \in Calls \ {c} : call'[d] = call[d]
    BY <1>1, Became
  <1>4. ASSUME NEW d \in Calls \ {c}, InStream(d)'
        PROVE  InStream(d) /\ Stands(d) /\ call[d].k # call'[c].k
    <2>1. InStream(d) /\ call[d].k \in Readers
      BY <1>3, <1>4 DEF IInv, InStream, Places, Active
    <2>2. call[d].k # k
      BY <2>1 DEF IInv, Streams
    <2> QED
      BY <1>2, <1>3, <2>1, <2>2 DEF Stands
  <1>5. \A j \in Readers : Clean(reader'[j])
    BY <1>2 DEF IInv, Streams
  <1>6. Streams'
    BY <1>2, <1>3, <1>4, <1>5, StreamsMove DEF IInv
  <1> QED
    BY <1>1, <1>2, <1>6, MoveOK DEF TypeOK

LEMMA GateOK == ASSUME IInv, NEW c \in Calls, Gate(c) PROVE IInv'
  <1> DEFINE r == reader[call[c].k]
             n == [call[c] EXCEPT !.pc = "ask", !.heads = << >>, !.read = 0]
             s == [r EXCEPT !.gate = FALSE]
  <1>0. /\ TypeOK /\ call[c].pc = "chunk" /\ Active(c) /\ r.gate /\ call[c] \in CallRec
        /\ call[c].k \in Readers /\ r \in ReaderRec /\ Clean(r)
        /\ UNCHANGED <<via, mu, closer, faults>>
    BY CallFields, GivenBack DEF IInv, Places, Gate, Open, Active
  <1>1. CASE r.closed \/ r.poison
    <2>1. Failed(c, r) /\ UNCHANGED fires
      BY <1>1 DEF Gate
    <2> QED
      BY <1>0, <2>1, FailedOK DEF TypeOK
  <1>2. CASE ~(r.closed \/ r.poison)
    <2>1. r.asked = << >> /\ r.told = << >>
      BY <1>0, <1>2 DEF Clean
    <2>2. s \in ReaderRec /\ ~s.gate /\ s.asked = << >> /\ s.told = << >> /\ Clean(s)
      BY <1>0, <2>1 DEF ReaderRec, Clean
    <2>3. /\ n \in CallRec /\ n.pc = "ask" /\ n.k = call[c].k /\ n.from = call[c].from
          /\ n.heads = << >> /\ n.read = 0 /\ n.map = call[c].map
      BY <1>0, EmptySeq DEF CallRec
    <2>4. /\ Change(call[c].k, s) /\ UNCHANGED blob
          /\ IF call[c].own THEN Arm(c, n) ELSE Become(c, n) /\ UNCHANGED fires
      BY <1>2 DEF Gate
    <2> HIDE DEF n, s
    <2>5. (\E m : Like(m, n) /\ Become(c, m)) /\ fires' \subseteq Readers
      <3>1. CASE call[c].own
        BY <1>0, <2>3, <2>4, <3>1, ArmOK
      <3>2. CASE ~call[c].own
        BY <1>0, <2>3, <2>4, <3>2 DEF Like, TypeOK
      <3> QED
        BY <3>1, <3>2
    <2>6. PICK m : Like(m, n) /\ Become(c, m)
      BY <2>5
    <2>7. /\ call'[c] = m /\ m \in CallRec /\ m.pc = "ask" /\ m.k = call[c].k
          /\ m.from = call[c].from /\ m.heads = << >> /\ m.read = 0 /\ m.map = call[c].map
      BY <1>0, <2>3, <2>6, Became DEF Like
    <2>8. Expects(c)'
      BY <1>0, <2>2, <2>4, <2>7, Changed DEF Expects
    <2>9. Progress(c)'
      <3>1. call[c].from < Len(Batch[c]) /\ call[c].map = BlobsUpto(c, call[c].from)
        BY <1>0 DEF IInv, Progress
      <3>2. Chunk(c)' = Chunk(c) /\ Len(Chunk(c)) \in Nat
        BY <1>0, <2>7, <3>1, CallFields, ChunkIsPart DEF Chunk, Last
      <3>3. BlobsUpto(c, call[c].from)' = BlobsUpto(c, call[c].from)
        BY <2>7 DEF BlobsUpto
      <3>4. ReadUpto(c, call[c].read)' = {}
        BY <2>7 DEF ReadUpto
      <3> QED
        BY <2>7, <3>1, <3>2, <3>3, <3>4 DEF Progress, InStream
    <2> QED
      BY <1>0, <2>2, <2>4, <2>5, <2>6, <2>7, <2>8, <2>9, StreamOK
  <1> QED
    BY <1>1, <1>2

LEMMA AskOK == ASSUME IInv, NEW c \in Calls, Ask(c) PROVE IInv'
  <1> DEFINE r == reader[call[c].k]
             n == [call[c] EXCEPT !.pc = "hear"]
             s == [r EXCEPT !.asked = Append(@, Command(c))]
  <1>0. /\ TypeOK /\ call[c].pc = "ask" /\ Active(c) /\ InStream(c) /\ call[c] \in CallRec
        /\ call[c].k \in Readers /\ r \in ReaderRec /\ Progress(c)
        /\ (Infos(c) \/ Wanted(c) # {})
        /\ UNCHANGED <<via, mu, fires, closer, faults>>
    BY CallFields, GivenBack DEF IInv, Places, Ask, Active, InStream
  <1>1. CASE Failed(c, protocolError(c))
    BY <1>0, <1>1, GivenBack, FailedOK DEF TypeOK
  <1>2. CASE Change(call[c].k, s) /\ Become(c, n) /\ UNCHANGED blob
    <2>1. r.asked = << >> /\ r.told = << >> /\ ~r.gate
      BY <1>0 DEF IInv, Streams, Expects
    <2>2. Command(c) \in Commands
      BY <1>0, CommandType
    <2>3. Append(r.asked, Command(c)) = <<Command(c)>> /\ <<Command(c)>> \in Seq(Commands)
      BY <2>1, <2>2
    <2>4. s \in ReaderRec /\ ~s.gate /\ s.asked = <<Command(c)>> /\ s.told = << >> /\ Clean(s)
      BY <1>0, <2>1, <2>3 DEF ReaderRec, Clean
    <2>5. /\ n \in CallRec /\ n.pc = "hear" /\ n.k = call[c].k /\ n.from = call[c].from
          /\ n.heads = call[c].heads /\ n.read = call[c].read /\ n.map = call[c].map
      BY <1>0 DEF CallRec
    <2> HIDE DEF n, s
    <2>6. call'[c] = n /\ reader'[call[c].k] = s
      BY <1>0, <1>2, <2>4, <2>5, Became, Changed
    <2>7. /\ Chunk(c)' = Chunk(c) /\ Command(c)' = Command(c)
          /\ (Infos(c)' <=> Infos(c)) /\ Wanted(c)' = Wanted(c)
      BY <2>5, <2>6, SamePlace
    <2>8. Expects(c)'
      BY <2>4, <2>5, <2>6, <2>7 DEF Expects
    <2>9. Progress(c)'
      <3>1. BlobsUpto(c, call[c].from)' = BlobsUpto(c, call[c].from)
        BY <2>5, <2>6 DEF BlobsUpto
      <3>2. ReadUpto(c, call[c].read)' = ReadUpto(c, call[c].read)
        BY <2>5, <2>6, <2>7 DEF ReadUpto
      <3> QED
        BY <1>0, <2>5, <2>6, <2>7, <3>1, <3>2 DEF Progress, InStream
    <2> QED
      BY <1>0, <1>2, <2>4, <2>5, <2>8, <2>9, StreamOK DEF TypeOK
  <1> QED
    BY <1>1, <1>2 DEF Ask

\* The next contents add the next available blob, and nothing else, to what was read.
LEMMA ReadOneMore ==
    ASSUME TypeOK, NEW c \in Calls, Progress(c), InStream(c), Wanted(c) # {}
    PROVE  LET n == NextOf(Wanted(c))
           IN  /\ n \in Nat /\ n <= Len(call[c].heads) /\ Chunk(c)[n] \in Specs
               /\ ReadUpto(c, n) = ReadUpto(c, call[c].read) \union {<<Chunk(c)[n], Chunk(c)[n]>>}
  <1> DEFINE n == NextOf(Wanted(c))
             m == call[c].read
             h == call[c].heads
  <1>1. /\ call[c].from \in Nat /\ call[c].from < Len(Batch[c]) /\ m \in Nat /\ Len(h) \in Nat
        /\ Len(h) <= Len(Chunk(c)) /\ \A i \in 1..Len(h) : h[i] = Chunk(c)[i]
    BY CallFields DEF Progress, InStream
  <1>2. /\ n \in 1..Len(h) /\ n \in 1..Len(Chunk(c)) /\ m < n /\ Available(h[n])
        /\ \A j \in 1..(n - 1) : j > m => ~Available(h[j])
    BY <1>1, WantedPlaces
  <1>3. Chunk(c)[n] \in Specs
    BY <1>1, <1>2, ChunkIsPart
  <1> HIDE DEF n, m, h
  <1>4. n \in Nat /\ n <= Len(h) /\ \A j \in 1..n : j \in 1..Len(h)
    BY <1>1, <1>2
  <1>5. {j \in 1..n : Available(Chunk(c)[j])} = {j \in 1..m : Available(Chunk(c)[j])} \union {n}
    <2>1. ASSUME NEW j \in 1..n, Available(Chunk(c)[j]), j # n PROVE j \in 1..m
      <3>1. j \in 1..(n - 1) /\ Available(h[j])
        BY <1>1, <1>4, <2>1
      <3> QED
        BY <1>1, <1>2, <3>1
    <2>2. Available(Chunk(c)[n]) /\ n \in 1..n
      BY <1>1, <1>2, <1>4
    <2>3. \A j \in 1..m : j \in 1..n
      BY <1>1, <1>2, <1>4
    <2> QED
      BY <2>1, <2>2, <2>3
  <1>6. ReadUpto(c, n) = ReadUpto(c, m) \union {<<Chunk(c)[n], Chunk(c)[n]>>}
    BY <1>5 DEF ReadUpto
  <1> QED
    BY <1>3, <1>4, <1>6 DEF n, m, h

\* The answer to the call's own command takes it one step on.
LEMMA HeardOwn ==
    ASSUME IInv, NEW c \in Calls, call[c].pc = "hear", Become(c, Heard(c, Command(c)))
    PROVE  /\ Heard(c, Command(c)) \in CallRec /\ Heard(c, Command(c)).pc = "ask"
           /\ Heard(c, Command(c)).k = call[c].k /\ Progress(c)'
  <1> DEFINE r == call[c]
             a == Command(c)
             n == Heard(c, a)
  <1>0. TypeOK /\ InStream(c) /\ Progress(c) /\ r \in CallRec /\ (Infos(c) \/ Wanted(c) # {})
    BY CallFields DEF IInv, InStream, Progress
  <1>1. /\ r.from \in Nat /\ r.from < Len(Batch[c]) /\ r.heads \in Seq(Specs) /\ Len(r.heads) \in Nat
        /\ Len(r.heads) <= Len(Chunk(c)) /\ r.read <= Len(r.heads) /\ r.read \in Nat
        /\ \A i \in 1..Len(r.heads) : r.heads[i] = Chunk(c)[i]
        /\ r.map = BlobsUpto(c, r.from) \union ReadUpto(c, r.read) /\ r.room \in Int
        /\ r.map \in SUBSET (Specs \X Specs)
    BY <1>0, CallFields DEF Progress
  <1>2. /\ Len(Chunk(c)) \in Nat /\ \A i \in 1..Len(Chunk(c)) : Chunk(c)[i] \in Specs
    BY <1>1, ChunkIsPart
  <1>3. ASSUME NEW m \in CallRec, m = n, m.from = r.from, m.pc = "ask", m.k = r.k,
               Len(m.heads) <= Len(Chunk(c)), \A i \in 1..Len(m.heads) : m.heads[i] = Chunk(c)[i],
               m.read <= Len(m.heads), m.map = BlobsUpto(c, r.from) \union ReadUpto(c, m.read)
        PROVE  n \in CallRec /\ n.pc = "ask" /\ n.k = r.k /\ Progress(c)'
    <2>1. call'[c] = m
      BY <1>0, <1>3, Became
    <2>2. Chunk(c)' = Chunk(c)
      BY <1>3, <2>1 DEF Chunk, Last
    <2>3. BlobsUpto(c, call[c].from)' = BlobsUpto(c, r.from)
      BY <1>3, <2>1 DEF BlobsUpto
    <2>4. ReadUpto(c, call[c].read)' = ReadUpto(c, m.read)
      BY <1>3, <2>1, <2>2 DEF ReadUpto
    <2>5. Progress(c)'
      BY <1>1, <1>3, <2>1, <2>2, <2>3, <2>4 DEF Progress, InStream
    <2> QED
      BY <1>3, <2>5
  <1>4. CASE Infos(c)
    <2> DEFINE spec == Chunk(c)[Len(r.heads) + 1]
               room == r.room - IF Available(spec) THEN Size[spec] ELSE 0
               m == [r EXCEPT !.pc = "ask", !.heads = Append(@, spec), !.room = room]
    <2>1. Len(r.heads) + 1 \in 1..Len(Chunk(c)) /\ spec \in Specs
      BY <1>1, <1>2, <1>4 DEF Infos
    <2>2. a = <<"info", spec>> /\ a[1] = "info" /\ a[2] = spec
      BY <1>4 DEF Command
    <2>3. n = m
      BY <2>2 DEF Heard
    <2>4. room \in Int
      <3>1. Size[spec] \in Nat
        BY <2>1, BlobsAssumption DEF BlobsAssumption
      <3> HIDE DEF spec
      <3>2. r.room - Size[spec] \in Int /\ r.room - 0 \in Int
        BY <1>1, <3>1
      <3> QED
        BY <3>2
    <2> HIDE DEF spec, room
    <2>5. Append(r.heads, spec) \in Seq(Specs) /\ Len(Append(r.heads, spec)) = Len(r.heads) + 1
      BY <1>1, <2>1
    <2>6. \A i \in 1..(Len(r.heads) + 1) : Append(r.heads, spec)[i] = Chunk(c)[i]
      BY <1>1, <2>1 DEF spec
    <2>7. /\ m \in CallRec /\ m.from = r.from /\ m.pc = "ask" /\ m.k = r.k /\ m.read = r.read
          /\ m.heads = Append(r.heads, spec) /\ m.map = r.map
      BY <1>0, <2>4, <2>5 DEF CallRec
    <2> HIDE DEF m
    <2>8. Len(m.heads) <= Len(Chunk(c)) /\ \A i \in 1..Len(m.heads) : m.heads[i] = Chunk(c)[i]
      BY <1>1, <1>2, <2>1, <2>5, <2>6, <2>7
    <2>9. m.read <= Len(m.heads) /\ m.map = BlobsUpto(c, r.from) \union ReadUpto(c, m.read)
      BY <1>1, <2>5, <2>7
    <2> HIDE DEF n
    <2>10. n \in CallRec /\ n.pc = "ask" /\ n.k = r.k /\ Progress(c)'
      BY <1>3, <2>3, <2>7, <2>8, <2>9
    <2> QED
      BY <2>10 DEF n
  <1>5. CASE ~Infos(c)
    <2> DEFINE w == NextOf(Wanted(c))
               spec == Chunk(c)[w]
               m == [r EXCEPT !.pc = "ask", !.read = w, !.map = @ \union {<<spec, spec>>}]
    <2>1. /\ w \in Nat /\ w <= Len(r.heads) /\ spec \in Specs
          /\ ReadUpto(c, w) = ReadUpto(c, r.read) \union {<<spec, spec>>}
      BY <1>0, <1>5, ReadOneMore
    <2>2. a = <<"contents", spec>> /\ a[1] # "info" /\ a[2] = spec
      BY <1>5 DEF Command
    <2>3. n = m
      BY <2>2 DEF Heard
    <2> HIDE DEF spec, w
    <2>4. r.map \union {<<spec, spec>>} \in SUBSET (Specs \X Specs)
      BY <1>1, <2>1
    <2>5. /\ m \in CallRec /\ m.from = r.from /\ m.pc = "ask" /\ m.k = r.k /\ m.read = w
          /\ m.heads = r.heads /\ m.map = r.map \union {<<spec, spec>>}
      BY <1>0, <2>1, <2>4 DEF CallRec
    <2> HIDE DEF m, n
    <2> QED
      BY <1>1, <1>3, <2>1, <2>3, <2>5 DEF n
  <1> QED
    BY <1>4, <1>5

LEMMA HearOK == ASSUME IInv, NEW c \in Calls, Hear(c) PROVE IInv'
  <1> DEFINE r == reader[call[c].k]
             a == Head(r.told)
             rest == [r EXCEPT !.told = Tail(@)]
  <1>0. /\ TypeOK /\ call[c].pc = "hear" /\ Active(c) /\ InStream(c)
        /\ call[c].k \in Readers /\ r \in ReaderRec /\ UNCHANGED <<via, mu, fires, closer, faults>>
    BY GivenBack DEF IInv, Places, Hear, Active, InStream
  <1>1. CASE Failed(c, protocolError(c))
    BY <1>0, <1>1, GivenBack, FailedOK DEF TypeOK
  <1>2. ASSUME r.told # << >>
        PROVE  /\ a = Command(c) /\ rest \in ReaderRec /\ rest.asked = << >> /\ rest.told = << >>
               /\ ~rest.gate
    <2>1. r.asked = << >> /\ r.told = <<Command(c)>> /\ ~r.gate
      BY <1>0, <1>2 DEF IInv, Streams, Expects
    <2>2. Head(r.told) = Command(c) /\ Tail(r.told) = << >> /\ << >> \in Seq(Commands)
      BY <2>1
    <2> QED
      BY <1>0, <2>1, <2>2 DEF ReaderRec
  <1>3. CASE r.told # << >> /\ Failed(c, [rest EXCEPT !.gate = TRUE])
    <2> DEFINE s == [rest EXCEPT !.gate = TRUE]
    <2>0. rest \in ReaderRec /\ rest.asked = << >> /\ rest.told = << >>
      BY <1>2, <1>3
    <2> HIDE DEF rest
    <2>1. s \in ReaderRec /\ Clean(s)
      BY <2>0 DEF ReaderRec, Clean
    <2>2. Failed(c, s)
      BY <1>3
    <2> HIDE DEF s
    <2> QED
      BY <1>0, <2>1, <2>2, FailedOK DEF TypeOK
  <1>4. CASE r.told # << >> /\ Change(call[c].k, rest) /\ Become(c, Heard(c, a)) /\ UNCHANGED blob
    <2> DEFINE n == Heard(c, a)
    <2>1. /\ a = Command(c) /\ rest \in ReaderRec /\ rest.asked = << >> /\ rest.told = << >>
          /\ ~rest.gate /\ Clean(rest)
      BY <1>2, <1>4 DEF Clean
    <2>2. n \in CallRec /\ n.pc = "ask" /\ n.k = call[c].k /\ Progress(c)'
      BY <1>0, <1>4, <2>1, HeardOwn
    <2> HIDE DEF n, rest
    <2>3. call'[c] = n /\ reader'[call[c].k] = rest
      BY <1>0, <1>4, <2>1, <2>2, Became, Changed DEF n
    <2>4. Expects(c)'
      BY <2>1, <2>2, <2>3 DEF Expects
    <2> QED
      BY <1>0, <1>4, <2>1, <2>2, <2>4, StreamOK DEF TypeOK, n
  <1> QED
    BY <1>1, <1>3, <1>4 DEF Hear

\* At the end of a chunk a call has got every blob up to there: none was too large,
\* and none is wanted any more.
LEMMA ChunkDone ==
    ASSUME TypeOK, NEW c \in Calls, call[c].pc = "ask", Progress(c), ~Infos(c), Wanted(c) = {},
           ~TooLarge(c)
    PROVE  call[c].map = BlobsUpto(c, call[c].from + Len(Chunk(c)))
  <1> DEFINE b == Batch[c]
             f == call[c].from
             m == call[c].read
             h == call[c].heads
             l == Len(Chunk(c))
  <1>1. /\ f \in Nat /\ f < Len(b) /\ m \in Nat /\ Len(h) \in Nat
        /\ Len(h) <= l /\ m <= Len(h) /\ \A i \in 1..Len(h) : h[i] = Chunk(c)[i]
        /\ call[c].map = BlobsUpto(c, f) \union ReadUpto(c, m)
    BY CallFields DEF Progress, InStream
  <1>2. l \in Nat /\ \A i \in 1..l : Chunk(c)[i] = b[f + i]
    BY <1>1, ChunkIsPart
  <1>3. l = Len(h)
    BY <1>1, <1>2 DEF Infos
  <1>4. \A i \in 1..l : /\ Available(b[f + i]) <=> Kind[b[f + i]] = "blob"
                        /\ Available(b[f + i]) => i <= m
    BY <1>1, <1>2, <1>3 DEF TooLarge, Wanted, Available
  <1> HIDE DEF b, f, m, h, l
  <1>5. \A x : x \in ReadUpto(c, m) <=>
                 \E i \in 1..m : Available(Chunk(c)[i]) /\ x = <<Chunk(c)[i], Chunk(c)[i]>>
    BY DEF ReadUpto
  <1>6. \A n, x : x \in BlobsUpto(c, n) <=> \E j \in 1..n : Kind[b[j]] = "blob" /\ x = <<b[j], b[j]>>
    BY DEF BlobsUpto, b
  <1>7. ASSUME NEW x \in BlobsUpto(c, f + l) PROVE x \in BlobsUpto(c, f) \union ReadUpto(c, m)
    <2>1. PICK j \in 1..(f + l) : Kind[b[j]] = "blob" /\ x = <<b[j], b[j]>>
      BY <1>6, <1>7
    <2>2. CASE j \in 1..f
      BY <1>6, <2>1, <2>2
    <2>3. CASE j \notin 1..f
      <3>1. j - f \in 1..l /\ f + (j - f) = j
        BY <1>1, <1>2, <2>1, <2>3
      <3>2. Chunk(c)[j - f] = b[j] /\ Available(b[j]) /\ j - f <= m
        BY <1>2, <1>4, <2>1, <3>1
      <3>3. j - f \in 1..m
        BY <1>1, <3>1, <3>2
      <3> QED
        BY <1>5, <2>1, <3>2, <3>3
    <2> QED
      BY <2>2, <2>3
  <1>8. ASSUME NEW x \in BlobsUpto(c, f) \union ReadUpto(c, m) PROVE x \in BlobsUpto(c, f + l)
    <2>1. CASE x \in BlobsUpto(c, f)
      <3>1. PICK j \in 1..f : Kind[b[j]] = "blob" /\ x = <<b[j], b[j]>>
        BY <1>6, <2>1
      <3>2. j \in 1..(f + l)
        BY <1>1, <1>2
      <3> QED
        BY <1>6, <3>1, <3>2
    <2>2. CASE x \in ReadUpto(c, m)
      <3>1. PICK i \in 1..m : Available(Chunk(c)[i]) /\ x = <<Chunk(c)[i], Chunk(c)[i]>>
        BY <1>5, <2>2
      <3>2. i \in 1..l /\ f + i \in 1..(f + l)
        BY <1>1, <1>2, <1>3
      <3>3. Kind[b[f + i]] = "blob" /\ x = <<b[f + i], b[f + i]>>
        BY <1>2, <1>4, <3>1, <3>2
      <3> QED
        BY <1>6, <3>2, <3>3
    <2> QED
      BY <1>8, <2>1, <2>2
  <1>9. BlobsUpto(c, f + l) = BlobsUpto(c, f) \union ReadUpto(c, m)
    BY <1>7, <1>8
  <1> QED
    BY <1>1, <1>9 DEF f, l

LEMMA ReturnOK == ASSUME IInv, NEW c \in Calls, Return(c) PROVE IInv'
  <1> DEFINE r == call[c]
             k == call[c].k
  <1>0. /\ TypeOK /\ r.pc = "ask" /\ Active(c) /\ InStream(c) /\ r \in CallRec /\ Progress(c)
        /\ k \in Readers /\ (via = "direct" => k = 1) /\ ~Infos(c) /\ Wanted(c) = {}
        /\ UNCHANGED <<via, fires, closer, faults>>
    BY CallFields DEF IInv, Places, Return, Active, InStream
  <1>1. /\ Released(c) \in ReaderRec /\ protocolError(c) \in ReaderRec
        /\ Clean(Released(c)) /\ Clean(protocolError(c))
    BY <1>0, GivenBack
  <1>2. CASE UNCHANGED mu /\ (Failed(c, protocolError(c)) \/ Failed(c, Released(c)))
    BY <1>0, <1>1, <1>2, FailedOK DEF TypeOK
  \* It gives back its reader, and goes on or ends.
  <1>3. ASSUME NEW n \in CallRec, Become(c, n), n.pc \in {"chunk", "reapOk", "ok"},
               n.pc = "reapOk" => via = "cell", n.k = k,
               n.pc # "chunk" => n.map = BlobsUpto(c, Len(Batch[c])),
               n.pc = "chunk" => n.from < Len(Batch[c]) /\ n.map = BlobsUpto(c, n.from),
               NEW s \in ReaderRec, Clean(s), Change(k, s), UNCHANGED blob,
               mu' = mu \/ (mu' = None /\ n.pc = "ok")
        PROVE  IInv'
    <2>1. /\ call'[c] = n
          /\ \A d \in Calls \ {c} : call'[d] = call[d] /\ (via = "cell" => ~InStream(d))
      BY <1>0, <1>3, Became, Alone DEF Active, InStream
    <2>2. Streams' /\ reader' \in [Readers -> ReaderRec]
      BY <1>0, <1>3, <2>1, StreamsLeft
    <2>3. /\ BlobsUpto(c, call[c].from)' = BlobsUpto(c, n.from)
          /\ BlobsUpto(c, Len(Batch[c]))' = BlobsUpto(c, Len(Batch[c]))
      BY <2>1 DEF BlobsUpto
    <2>4. Progress(c)'
      BY <1>3, <2>1, <2>3 DEF Progress, InStream
    <2>5. /\ via = "direct" => n.pc \in {"chunk", "ask", "hear", "ok", "error"}
          /\ n.pc \notin {"idle", "lock", "spawn", "ok", "error"} =>
                n.k \in Readers /\ (via = "direct" => n.k = 1)
      BY <1>0, <1>3
    <2> QED
      BY <1>0, <1>3, <2>2, <2>4, <2>5, MoveOK DEF TypeOK
  <1>4. CASE ~Interrupted(c) /\ ~TooLarge(c) /\ UNCHANGED blob
    <2>1. r.map = BlobsUpto(c, r.from + Len(Chunk(c)))
      BY <1>0, <1>4, ChunkDone
    <2>2. /\ r.from \in Nat /\ r.from < Len(Batch[c]) /\ r.own \in BOOLEAN /\ r.cancelled \in BOOLEAN
          /\ r.map \in SUBSET (Specs \X Specs)
      BY <1>0, CallFields DEF Progress
    <2>3. /\ Last(c) => r.from + Len(Chunk(c)) = Len(Batch[c])
          /\ ~Last(c) => Len(Chunk(c)) = MaxBatch /\ r.from + MaxBatch < Len(Batch[c])
      BY <2>2, ChunkIsPart
    <2>4. CASE /\ ~Last(c) /\ UNCHANGED mu
               /\ Become(c, [r EXCEPT !.pc = "chunk", !.from = @ + MaxBatch,
                                      !.armed = IF r.own THEN None ELSE @])
               /\ Change(r.k, Released(c))
      <3> DEFINE f == r.from + MaxBatch
                 a == IF r.own THEN None ELSE r.armed
                 n == [r EXCEPT !.pc = "chunk", !.from = f, !.armed = a]
      <3>1. f \in Nat /\ a \in Readers \union {None}
        BY <1>0, <2>2, CallFields, BlobsAssumption DEF BlobsAssumption
      <3>2. n \in CallRec /\ n.pc = "chunk" /\ n.k = k /\ n.map = r.map /\ n.from = f
        <4> HIDE DEF f, a
        <4> QED
          BY <1>0, <3>1 DEF CallRec
      <3>3. Become(c, n)
        BY <2>4
      <3> HIDE DEF n
      <3> QED
        BY <1>1, <1>3, <1>4, <2>1, <2>3, <2>4, <3>2, <3>3
    <2>5. ASSUME NEW pc \in {"reapOk", "ok"}, Last(c), Leave(c, pc),
                 pc = "reapOk" => via = "cell",
                 NEW s \in ReaderRec, Clean(s), Change(k, s), mu' = mu \/ (mu' = None /\ pc = "ok")
          PROVE  IInv'
      <3> DEFINE n == [Idle EXCEPT !.pc = pc, !.k = r.k, !.own = r.own, !.map = r.map,
                                   !.cancelled = r.cancelled]
      <3>1. n \in CallRec /\ n.pc = pc /\ n.k = k /\ n.map = r.map
        BY <1>0, <2>2, FreshTypes DEF CallRec, Idle
      <3>2. Become(c, n)
        BY <2>5 DEF Leave
      <3> HIDE DEF n
      <3> QED
        BY <1>3, <1>4, <2>1, <2>3, <2>5, <3>1, <3>2
    <2>6. CASE /\ Last(c) /\ via = "cell" /\ r.own
               /\ Leave(c, "reapOk") /\ Change(r.k, Shut(Released(c))) /\ UNCHANGED mu
      <3>1. Shut(Released(c)) \in ReaderRec /\ Clean(Shut(Released(c)))
        BY <1>1 DEF Shut, ReaderRec, Clean
      <3> QED
        BY <2>5, <2>6, <3>1
    <2>7. CASE /\ Last(c) /\ ~(via = "cell" /\ r.own)
               /\ Leave(c, "ok") /\ Change(r.k, Released(c)) /\ Unlock
      <3>1. mu' = mu \/ mu' = None
        BY <2>7 DEF Unlock
      <3> QED
        BY <1>1, <2>5, <2>7, <3>1
    <2> QED
      BY <1>4, <2>4, <2>6, <2>7 DEF Return
  <1> QED
    BY <1>2, <1>4 DEF Return

-----------------------------------------------------------------------------
(* Close, and the theorems.                                                  *)

LEMMA CloseOK == ASSUME IInv, Close PROVE IInv'
  <1>0. TypeOK /\ UNCHANGED <<via, blob, call, fires, faults>> /\ 1 \in Readers
    BY ReadersExist DEF IInv, Close
  <1>1. \A d \in Calls : Progress(d)'
    BY <1>0, ProgressStands DEF IInv
  <1>2. Places'
    BY <1>0 DEF IInv, Places, Active
  <1>3. via = "cell" => closer # "wait" /\ \A d \in Calls : ~Active(d)
    BY NobodyServed DEF Close
  <1>4. CASE closer' = "end" /\ UNCHANGED <<mu, reader>>
    <2>1. TypeOK' /\ Locked'
      BY <1>0, <1>4 DEF IInv, TypeOK, Locked, Active
    <2>2. Streams'
      BY <1>0, <1>4, StreamsStand DEF IInv, Streams, InStream, Stands
    <2> QED
      BY <1>1, <1>2, <2>1, <2>2 DEF IInv
  <1>5. CASE /\ Target # None /\ closer' = "wait" /\ Change(Target, Shut(reader[Target]))
             /\ mu' = IF via = "cell" THEN "closer" ELSE mu
    <2> DEFINE k == Target
               s == Shut(reader[k])
    <2>1. k \in Readers /\ (via = "cell" => blob \in Readers)
      BY <1>0, <1>5 DEF Target, TypeOK
    <2>2. /\ s \in ReaderRec /\ Clean(s) /\ s.asked = reader[k].asked /\ s.told = reader[k].told
          /\ s.gate = reader[k].gate
      BY <1>0, <2>1 DEF TypeOK, ReaderRec, Shut, Clean
    <2>3. Change(k, s)
      BY <1>5
    <2> HIDE DEF k, s
    <2>4. /\ reader' \in [Readers -> ReaderRec] /\ reader'[k] = s
          /\ \A j \in Readers \ {k} : reader'[j] = reader[j]
      BY <1>0, <2>1, <2>2, <2>3, Changed
    <2>5. TypeOK' /\ Locked'
      BY <1>0, <1>3, <1>5, <2>1, <2>4 DEF TypeOK, Locked, Active
    <2>6. \A d \in Calls : InStream(d)' => InStream(d) /\ Stands(d)
      BY <1>0, <2>1, <2>2, <2>4 DEF IInv, Places, InStream, Active, Stands
    <2>7. \A j \in Readers : Clean(reader'[j])
      BY <2>2, <2>4 DEF IInv, Streams
    <2>8. Streams'
      BY <2>6, <2>7, StreamsStand DEF IInv
    <2> QED
      BY <1>1, <1>2, <2>5, <2>8 DEF IInv
  <1> QED
    BY <1>4, <1>5 DEF Close

LEMMA ClosedOK == ASSUME IInv, Closed PROVE IInv'
  <1> DEFINE k == Target
             s == [Reaped EXCEPT !.gate = reader[k].gate]
  <1>0. /\ TypeOK /\ UNCHANGED <<via, call, fires, faults>> /\ closer = "wait" /\ closer' = "end"
        /\ blob' = None /\ Change(k, s) /\ mu' = (IF via = "cell" THEN None ELSE mu)
    BY DEF IInv, Closed, Unlock
  <1>1. k \in Readers /\ (via = "direct" => k = 1)
    BY <1>0, ReadersExist DEF IInv, Locked, Target, TypeOK
  <1>2. /\ s \in ReaderRec /\ Clean(s) /\ s.gate = reader[k].gate /\ s.asked = << >> /\ s.told = << >>
    BY <1>0, <1>1, FreshTypes DEF TypeOK, ReaderRec, Reaped, NoReader, Clean
  <1> HIDE DEF s, k
  <1>3. /\ reader' \in [Readers -> ReaderRec] /\ reader'[k] = s
        /\ \A j \in Readers \ {k} : reader'[j] = reader[j]
    BY <1>0, <1>1, <1>2, Changed
  <1>4. via = "cell" => \A d \in Calls : ~Active(d)
    BY <1>0, BlobsAssumption DEF IInv, Locked, BlobsAssumption
  <1>5. TypeOK' /\ Locked' /\ Places'
    BY <1>0, <1>3, <1>4 DEF IInv, TypeOK, Locked, Places, Active
  <1>6. ASSUME NEW d \in Calls, InStream(d)' PROVE ~reader'[call'[d].k].gate /\ Expects(d)'
    <2>1. InStream(d) /\ via = "direct" /\ call[d].k = 1 /\ k = 1 /\ call'[d] = call[d]
      BY <1>0, <1>1, <1>4, <1>6 DEF InStream, Active, IInv, Places, TypeOK
    <2> QED
      BY <1>2, <1>3, <2>1 DEF IInv, Streams, Expects
  <1>7. \A b, d \in Calls : InStream(b)' /\ InStream(d)' /\ call'[b].k = call'[d].k => b = d
    BY <1>0 DEF IInv, Streams, InStream
  <1>8. \A j \in Readers : Clean(reader'[j])
    BY <1>2, <1>3 DEF IInv, Streams
  <1>9. Streams'
    BY <1>6, <1>7, <1>8 DEF Streams, Clean
  <1>10. \A d \in Calls : Progress(d)'
    BY <1>0, ProgressStands DEF IInv
  <1> QED
    BY <1>5, <1>9, <1>10 DEF IInv

LEMMA InitOK == ASSUME Init PROVE IInv
  <1>1. \A k \in Readers : reader[k] \in ReaderRec /\ Clean(reader[k])
    BY FreshTypes DEF Init
  <1>2. reader \in [Readers -> ReaderRec] /\ call \in [Calls -> CallRec]
    BY <1>1, FreshTypes DEF Init
  <1>3. TypeOK
    BY <1>2 DEF Init, TypeOK
  <1>4. \A c \in Calls : call[c].pc = "idle"
    BY DEF Init, Idle
  <1>5. Locked /\ Places
    BY <1>4 DEF Init, Locked, Places, Active
  <1>6. Streams
    BY <1>1, <1>4 DEF Streams, InStream
  <1>7. \A c \in Calls : Progress(c)
    BY <1>4 DEF Progress, InStream
  <1> QED
    BY <1>3, <1>5, <1>6, <1>7 DEF IInv

LEMMA StepOK == IInv /\ [Next]_vars => IInv'
  <1> SUFFICES ASSUME IInv, [Next]_vars PROVE IInv'
    OBVIOUS
  <1>1. CASE \E c \in Calls : Begin(c) \/ CtxDone(c) \/ CallStep(c)
    <2>1. PICK c \in Calls : Begin(c) \/ CtxDone(c) \/ CallStep(c)
      BY <1>1
    <2>2. CASE Begin(c) \/ CtxDone(c)
      BY <2>2, BeginOK, CtxDoneOK
    <2>3. CASE Lock(c) \/ Spawn(c) \/ Reap(c)
      BY <2>3, LockOK, SpawnOK, ReapOK
    <2>4. CASE Turned(c) \/ Gate(c) \/ Ask(c) \/ Hear(c) \/ Return(c)
      BY <2>4, TurnedOK, GateOK, AskOK, HearOK, ReturnOK
    <2> QED
      BY <2>1, <2>2, <2>3, <2>4 DEF CallStep
  <1>2. CASE \E k \in Readers : Answer(k) \/ Break(k) \/ Die(k) \/ Cancel(k)
    BY <1>2, AnswerOK, ProcessOK
  <1>3. CASE Close \/ Closed
    BY <1>3, CloseOK, ClosedOK
  <1>4. CASE UNCHANGED vars
    <2>1. UNCHANGED <<via, mu, blob, reader, call, fires, closer, faults>>
      BY <1>4 DEF vars
    <2>2. Streams'
      BY <2>1, StreamsStand DEF IInv, Streams, InStream, Stands
    <2> QED
      BY <2>1, <2>2, ReaderStep DEF IInv, TypeOK
  <1> QED
    BY <1>1, <1>2, <1>3, <1>4 DEF Next

\* The variables keep their types: what is on a stream, what a call has got, and
\* who holds the lock.
THEOREM TypeCorrect == Spec => []TypeOK
  <1>1. Init => IInv
    BY InitOK
  <1>2. IInv /\ [Next]_vars => IInv'
    BY StepOK
  <1>3. IInv => TypeOK
    BY DEF IInv
  <1> QED
    BY <1>1, <1>2, <1>3, PTL DEF Spec

\* A call that returns a result returns the blobs it asked for, each under its own
\* spec, whatever was cancelled, closed, killed or misread on the way (reader.go).
THEOREM BatchesMatch == Spec => []AnswersMatch
  <1>1. Init => IInv
    BY InitOK
  <1>2. IInv /\ [Next]_vars => IInv'
    BY StepOK
  <1>3. IInv => AnswersMatch
    <2> SUFFICES ASSUME IInv, NEW c \in Calls, call[c].pc = "ok"
                 PROVE  call[c].map = {<<s, s>> : s \in {s \in Asked(c) : Kind[s] = "blob"}}
      BY DEF AnswersMatch
    <2>1. call[c].map = BlobsUpto(c, Len(Batch[c]))
      BY DEF IInv, Progress
    <2>2. {Batch[c][i] : i \in {j \in 1..Len(Batch[c]) : Kind[Batch[c][j]] = "blob"}}
            = {s \in Asked(c) : Kind[s] = "blob"}
      BY DEF Asked
    <2> QED
      BY <2>1, <2>2 DEF BlobsUpto
  <1> QED
    BY <1>1, <1>2, <1>3, PTL DEF Spec
-----------------------------------------------------------------------------
(* What the blobs of a batch come to.                                        *)

Weight(s) == IF Kind[s] = "blob" THEN Size[s] ELSE 0

\* A set of numbers with 0, and with the successor of each of its own, has them all.
LEMMA AllNumbers == ASSUME NEW S \in SUBSET Nat, 0 \in S, \A i \in S : i + 1 \in S
                    PROVE  Nat \subseteq S
  <1> SUFFICES ASSUME Nat \ S # {} PROVE FALSE
    OBVIOUS
  <1> DEFINE n == NextOf(Nat \ S)
  <1>1. n \in Nat \ S /\ \A j \in Nat \ S : n <= j
    BY NextIsLeast
  <1> HIDE DEF n
  <1>2. n - 1 \in Nat
    BY <1>1
  <1>3. n - 1 \in S
    BY <1>1, <1>2
  <1> QED
    BY <1>1, <1>2, <1>3

\* f is the running total of the first n specs of b.
Totals(f, b, n) == /\ f \in [0..n -> Nat] /\ f[0] = 0
                   /\ \A i \in 1..n : f[i] = f[i - 1] + Weight(b[i])

LEMMA WeightType == ASSUME NEW s \in Specs PROVE Weight(s) \in Nat
  BY BlobsAssumption DEF BlobsAssumption, Weight

LEMMA TotalsExist == ASSUME NEW b \in Seq(Specs) PROVE \E f : Totals(f, b, Len(b))
  <1> DEFINE S == {n \in Nat : n <= Len(b) => \E f : Totals(f, b, n)}
  <1>1. 0 \in S
    <2> DEFINE f == [i \in 0..0 |-> 0]
    <2>1. Totals(f, b, 0)
      BY DEF Totals
    <2> QED
      BY <2>1
  <1>2. ASSUME NEW n \in S PROVE n + 1 \in S
    <2> SUFFICES ASSUME n + 1 <= Len(b) PROVE \E g : Totals(g, b, n + 1)
      BY <1>2
    <2>1. Len(b) \in Nat /\ n \in Nat /\ n + 1 \in 1..Len(b)
      BY <1>2
    <2>2. PICK f : Totals(f, b, n)
      BY <1>2, <2>1
    <2>3. Weight(b[n + 1]) \in Nat
      BY <2>1, WeightType
    <2> DEFINE g == [i \in 0..(n + 1) |-> IF i = n + 1 THEN f[n] + Weight(b[n + 1]) ELSE f[i]]
    <2>4. f \in [0..n -> Nat] /\ f[0] = 0 /\ \A i \in 1..n : f[i] = f[i - 1] + Weight(b[i])
      BY <2>2 DEF Totals
    <2>5. g \in [0..(n + 1) -> Nat] /\ g[0] = 0
      BY <2>1, <2>3, <2>4
    <2>6. ASSUME NEW i \in 1..(n + 1) PROVE g[i] = g[i - 1] + Weight(b[i])
      <3>1. CASE i = n + 1
        <4>1. g[i] = f[n] + Weight(b[n + 1]) /\ g[i - 1] = f[n]
          BY <2>1, <3>1
        <4> QED
          BY <3>1, <4>1
      <3>2. CASE i # n + 1
        <4>1. i \in 1..n /\ g[i] = f[i] /\ g[i - 1] = f[i - 1]
          BY <2>1, <2>6, <3>2
        <4> QED
          BY <2>4, <4>1
      <3> QED
        BY <3>1, <3>2
    <2>7. Totals(g, b, n + 1)
      BY <2>5, <2>6 DEF Totals
    <2> QED
      BY <2>7
  <1>3. Len(b) \in S
    <2>1. Nat \subseteq S
      <3>1. S \in SUBSET Nat
        OBVIOUS
      <3> HIDE DEF S
      <3> QED
        BY <1>1, <1>2, <3>1, AllNumbers
    <2> QED
      BY <2>1
  <1> QED
    BY <1>3

\* Bulk is the running total, and its last is its largest.
LEMMA BulkAdds ==
    ASSUME NEW b \in Seq(Specs)
    PROVE  /\ Totals(Bulk(b), b, Len(b))
           /\ \A i \in 0..Len(b) : Bulk(b)[i] \in Nat /\ Bulk(b)[i] <= Bulk(b)[Len(b)]
  <1> DEFINE F(f) == [i \in 0..Len(b) |-> IF i = 0 THEN 0
                                        ELSE f[i - 1] + IF Kind[b[i]] = "blob" THEN Size[b[i]] ELSE 0]
             t == Bulk(b)
  <1>1. Len(b) \in Nat
    OBVIOUS
  <1>2. PICK f : Totals(f, b, Len(b))
    BY TotalsExist
  <1>3. f = F(f)
    <2>1. f \in [0..Len(b) -> Nat] /\ f[0] = 0
      BY <1>2 DEF Totals
    <2>2. \A i \in 0..Len(b) : f[i] = F(f)[i]
      BY <1>1, <1>2 DEF Totals, Weight
    <2> QED
      BY <2>1, <2>2
  <1>4. t = CHOOSE g : g = F(g)
    BY DEF Bulk
  <1>5. t = F(t)
    <2> HIDE DEF F, t
    <2> QED
      BY <1>3, <1>4
  <1> HIDE DEF t
  <1>6. t[0] = 0 /\ \A i \in 1..Len(b) : t[i] = t[i - 1] + Weight(b[i])
    BY <1>1, <1>5 DEF Weight
  <1>7. \A i \in 1..Len(b) : Weight(b[i]) \in Nat
    BY WeightType
  <1>8. \A i \in 0..Len(b) : t[i] \in Nat
    <2> DEFINE S == {n \in Nat : n <= Len(b) => t[n] \in Nat}
    <2>1. 0 \in S /\ S \in SUBSET Nat
      BY <1>6
    <2>2. ASSUME NEW n \in S PROVE n + 1 \in S
      BY <1>1, <1>6, <1>7
    <2>3. Nat \subseteq S
      <3> HIDE DEF S
      <3> QED
        BY <2>1, <2>2, AllNumbers
    <2> QED
      BY <1>1, <2>3
  <1>9. Totals(t, b, Len(b))
    <2>1. t \in [0..Len(b) -> Nat]
      BY <1>5, <1>8
    <2> QED
      BY <1>6, <2>1 DEF Totals
  <1>10. \A i \in 0..Len(b) : t[i] <= t[Len(b)]
    <2> DEFINE S == {n \in Nat : n <= Len(b) => \A i \in 0..n : t[i] <= t[n]}
    <2>1. 0 \in S /\ S \in SUBSET Nat
      BY <1>6
    <2>2. ASSUME NEW n \in S PROVE n + 1 \in S
      <3> SUFFICES ASSUME n + 1 <= Len(b), NEW i \in 0..(n + 1) PROVE t[i] <= t[n + 1]
        OBVIOUS
      <3>1. /\ t[n + 1] = t[n] + Weight(b[n + 1]) /\ Weight(b[n + 1]) \in Nat /\ t[n] \in Nat
            /\ n \in Nat /\ t[i] \in Nat
        BY <1>1, <1>6, <1>7, <1>8
      <3>2. CASE i = n + 1
        BY <3>1, <3>2
      <3>3. CASE i # n + 1
        <4>1. i \in 0..n
          BY <3>1, <3>3
        <4>2. t[i] <= t[n]
          BY <1>1, <2>2, <4>1
        <4> QED
          BY <3>1, <4>2
      <3> QED
        BY <3>2, <3>3
    <2>3. Nat \subseteq S
      <3> HIDE DEF S
      <3> QED
        BY <2>1, <2>2, AllNumbers
    <2> QED
      BY <1>1, <2>3
  <1> QED
    BY <1>8, <1>9, <1>10 DEF t

-----------------------------------------------------------------------------
(* What a call through a cell fails for.                                     *)

InRead(c) == call[c].pc \in {"chunk", "ask", "hear"}

\* What a call may still take, if all it asks for may be had.
Budget(c) ==
    LET r == call[c]
    IN  Servable(Batch[c]) =>
          /\ r.pc \in {"lock", "chunk"} => r.room = MaxTotal - Bulk(Batch[c])[r.from]
          /\ InStream(c) => r.room = MaxTotal - Bulk(Batch[c])[r.from + Len(r.heads)]

\* A reader of a call's own is nobody else's to close; only the call's context
\* poisons it.
Excused(c) == call[c].cancelled \/ call[c].k \in faults
Intact(c) ==
    LET r == reader[call[c].k]
    IN  InRead(c) /\ call[c].own =>
          /\ ~r.closed
          /\ r.proc # "up" \/ r.doomed \/ r.poison \/ call[c].k \in fires => Excused(c)

Explained(c) ==
    call[c].pc \in {"reapError", "error"} =>
        call[c].cancelled \/ ~Servable(Batch[c]) \/ (call[c].own /\ call[c].k \in faults)

Honest(c) == Budget(c) /\ Intact(c) /\ Explained(c)

\* Whatever may be poisoned has been started: a new reader is not among them.
Exists(k) == reader[k].proc # "none"
Started ==
    /\ blob # None => Exists(blob)
    /\ \A k \in fires : Exists(k)
    /\ \A c \in Calls : /\ InRead(c) => Exists(call[c].k)
                        /\ call[c].armed # None => InRead(c) /\ call[c].armed = call[c].k

\* In a cell.
HInv == Started /\ \A c \in Calls : Honest(c)

\* What is left of a budget that is not exceeded.
LEMMA RoomLeft ==
    ASSUME TypeOK, NEW c \in Calls, Progress(c), Budget(c), Servable(Batch[c]),
           call[c].pc \in {"chunk", "ask", "hear"}
    PROVE  call[c].room > 0
  <1> DEFINE b == Batch[c]
             n == IF call[c].pc = "chunk" THEN call[c].from ELSE call[c].from + Len(call[c].heads)
  <1>1. /\ b \in Seq(Specs) /\ Len(b) \in Nat /\ call[c].from \in Nat /\ call[c].from < Len(b)
        /\ Len(call[c].heads) \in Nat
    BY BatchType, CallFields DEF Progress
  <1>2. Len(Chunk(c)) \in Nat /\ call[c].from + Len(Chunk(c)) <= Len(b)
    <2>1. MaxBatch \in Nat
      BY BlobsAssumption DEF BlobsAssumption
    <2> QED
      BY <1>1, <2>1, ChunkIsPart
  <1>3. n \in 0..Len(b)
    BY <1>1, <1>2 DEF Progress, InStream
  <1>4. Bulk(b)[n] \in Nat /\ Bulk(b)[n] <= Bulk(b)[Len(b)] /\ Bulk(b)[Len(b)] \in Nat
    BY <1>1, <1>3, BulkAdds
  <1>5. Bulk(b)[Len(b)] < MaxTotal /\ MaxTotal \in Nat
    BY BlobsAssumption DEF Servable, BlobsAssumption
  <1>6. call[c].room = MaxTotal - Bulk(b)[n]
    BY DEF Budget, InStream
  <1> QED
    BY <1>4, <1>5, <1>6

\* A call that is not in a Read, and does not move, has nothing to answer for.
LEMMA OthersHonest ==
    ASSUME NEW d \in Calls, Honest(d), call'[d] = call[d], ~InRead(d), faults \subseteq faults'
    PROVE  Honest(d)'
  BY DEF Honest, Budget, Intact, Explained, InRead, InStream, Excused

\* A call moves, and changes one reader, while no other is served.
LEMMA Moves ==
    ASSUME TypeOK, HInv, NEW c \in Calls, \A d \in Calls \ {c} : ~Active(d),
           NEW n \in CallRec, Become(c, n), n.armed # None => n.armed = n.k,
           n.armed # None => n.pc \in {"chunk", "ask", "hear"},
           NEW k \in Readers, NEW r \in ReaderRec, Change(k, r), r.proc # "none",
           n.pc \in {"chunk", "ask", "hear"} => n.k = k,
           blob' \in {blob, None, k}, fires' \subseteq fires \union {k}, faults \subseteq faults',
           Honest(c)'
    PROVE  HInv'
  <1>1. /\ call'[c] = n /\ \A d \in Calls \ {c} : call'[d] = call[d]
    BY Became
  <1>2. reader'[k] = r /\ \A j \in Readers \ {k} : reader'[j] = reader[j]
    BY Changed
  <1>3. ASSUME NEW d \in Calls \ {c} PROVE ~InRead(d) /\ call'[d] = call[d] /\ Honest(d)'
    <2>1. ~InRead(d)
      BY <1>3 DEF InRead, Active
    <2> QED
      BY <1>1, <1>3, <2>1, OthersHonest DEF HInv
  <1>4. \A j \in Readers : Exists(j) \/ j = k => Exists(j)'
    BY <1>2 DEF Exists
  <1>5. blob' # None => Exists(blob)'
    BY <1>4 DEF HInv, Started, TypeOK
  <1>6. \A j \in fires' : Exists(j)'
    BY <1>4 DEF HInv, Started, TypeOK
  <1>7. \A d \in Calls : /\ InRead(d)' => Exists(call[d].k)'
                         /\ (call[d].armed # None)' => InRead(d)' /\ (call[d].armed = call[d].k)'
    <2>1. /\ InRead(c)' => Exists(call[c].k)'
          /\ (call[c].armed # None)' => InRead(c)' /\ (call[c].armed = call[c].k)'
      BY <1>1, <1>4 DEF InRead, Exists
    <2>2. ASSUME NEW d \in Calls \ {c}
          PROVE  ~InRead(d)' /\ (call[d].armed = None)'
      BY <1>3, <2>2 DEF HInv, Started, InRead
    <2> QED
      BY <2>1, <2>2
  <1>8. Started'
    BY <1>5, <1>6, <1>7 DEF Started
  <1> QED
    BY <1>3, <1>8 DEF HInv

\* A Read fails, of the daemon for whatever reason, of a reader of the call's own
\* for one that counts.
LEMMA FailedHonest ==
    ASSUME IInv, HInv, via = "cell", NEW c \in Calls, InRead(c), NEW r \in ReaderRec,
           r.proc # "none", Failed(c, r), UNCHANGED <<via, fires, faults>>,
           call[c].own => Excused(c) \/ ~Servable(Batch[c])
    PROVE  HInv'
  <1> DEFINE k == call[c].k
             n == Shut(r)
             pc == IF call[c].own THEN "reapError" ELSE "reapSpawn"
             m == [Idle EXCEPT !.pc = pc, !.k = call[c].k, !.own = call[c].own,
                               !.map = call[c].map, !.cancelled = call[c].cancelled]
  <1>1. TypeOK /\ k \in Readers /\ \A d \in Calls \ {c} : ~Active(d)
    BY Alone DEF IInv, Places, Active, InRead
  <1>2. n \in ReaderRec /\ n.proc # "none"
    BY DEF Shut, ReaderRec
  <1>3. m \in CallRec /\ m.pc = pc /\ m.k = k /\ m.own = call[c].own /\ m.armed = None
        /\ m.cancelled = call[c].cancelled
    <2>1. pc \in {"reapError", "reapSpawn"}
      OBVIOUS
    <2> HIDE DEF pc
    <2> QED
      BY <1>1, <2>1, FreshTypes, CallFields DEF CallRec, Idle
  <1>4. Change(k, n) /\ blob' \in {blob, None} /\ Become(c, m)
    BY DEF Failed, Leave
  <1>5. pc \in {"reapError", "reapSpawn"} /\ (pc = "reapError" => call[c].own)
    OBVIOUS
  <1> HIDE DEF n, m, pc
  <1>6. call'[c] = m
    BY <1>1, <1>3, <1>4, Became
  <1>7. Honest(c)'
    BY <1>3, <1>5, <1>6 DEF Honest, Budget, Intact, Explained, InRead, InStream, Excused
  <1> QED
    BY <1>1, <1>2, <1>3, <1>4, <1>5, <1>7, Moves

LEMMA ArmKeeps ==
    ASSUME TypeOK, NEW c \in Calls, NEW r \in CallRec, r.k \in Readers, Arm(c, r)
    PROVE  /\ \E n \in CallRec : /\ Become(c, n) /\ Like(n, r) /\ n.own = r.own /\ n.room = r.room
                                 /\ n.cancelled = r.cancelled /\ n.armed \in {r.armed, r.k}
           /\ fires' \subseteq fires \union {r.k}
           /\ r.k \in fires' => r.k \in fires \/ r.cancelled
  <1>1. CASE r.cancelled
    <2>1. Become(c, r) /\ Like(r, r)
      BY <1>1 DEF Arm, Like
    <2>2. fires' = fires \union {r.k}
      BY <1>1 DEF Arm
    <2> QED
      BY <1>1, <2>1, <2>2
  <1>2. CASE ~r.cancelled
    <2> DEFINE n == [r EXCEPT !.armed = r.k]
    <2>1. /\ Like(n, r) /\ n.own = r.own /\ n.room = r.room /\ n.cancelled = r.cancelled
          /\ n.armed = r.k
      BY DEF CallRec, Like
    <2>2. Become(c, n) /\ fires' = fires
      BY <1>2 DEF Arm
    <2>3. n \in CallRec
      BY <2>1 DEF Like
    <2> HIDE DEF n
    <2> QED
      BY <2>1, <2>2, <2>3
  <1> QED
    BY <1>1, <1>2

\* A call that starts has all of its budget.
LEMMA FreshBudget == ASSUME NEW c \in Calls, call'[c].pc \in {"lock", "chunk"}, call'[c].from = 0,
                            call'[c].room = MaxTotal
                     PROVE  Budget(c)'
  <1>1. Batch[c] \in Seq(Specs) /\ MaxTotal \in Nat
    BY BatchType, BlobsAssumption DEF BlobsAssumption
  <1>2. Bulk(Batch[c])[0] = 0
    BY <1>1, BulkAdds DEF Totals
  <1>3. call'[c].room = MaxTotal - Bulk(Batch[c])[call'[c].from]
    BY <1>1, <1>2
  <1> QED
    BY <1>3 DEF Budget, InStream

LEMMA BeginHonest == ASSUME IInv, HInv, via = "cell", NEW c \in Calls, Begin(c) PROVE HInv'
  <1> DEFINE r == [Idle EXCEPT !.pc = "lock"]
  <1>1. r \in CallRec /\ r.pc = "lock" /\ r.from = 0 /\ r.room = MaxTotal /\ r.armed = None
    BY FreshTypes DEF CallRec, Idle
  <1>2. Become(c, r) /\ UNCHANGED <<via, mu, blob, reader, fires, closer, faults>>
    BY DEF Begin
  <1> HIDE DEF r
  <1>3. call'[c] = r /\ \A d \in Calls \ {c} : call'[d] = call[d]
    BY <1>1, <1>2, Became DEF IInv
  <1>4. Honest(c)'
    <2>1. Budget(c)'
      BY <1>1, <1>3, FreshBudget
    <2> QED
      BY <1>1, <1>3, <2>1 DEF Honest, Intact, Explained, InRead
  <1>5. \A d \in Calls \ {c} : Honest(d)'
    BY <1>2, <1>3 DEF HInv, Honest, Budget, Intact, Explained, InRead, InStream, Excused
  <1>6. Started'
    BY <1>1, <1>2, <1>3 DEF HInv, Started, InRead, Exists
  <1> QED
    BY <1>4, <1>5, <1>6 DEF HInv

LEMMA CtxDoneHonest == ASSUME IInv, HInv, via = "cell", NEW c \in Calls, CtxDone(c) PROVE HInv'
  <1> DEFINE r == [call[c] EXCEPT !.cancelled = TRUE, !.armed = None]
  <1>0. TypeOK /\ call[c] \in CallRec
    BY DEF IInv, TypeOK
  <1>1. /\ r \in CallRec /\ r.pc = call[c].pc /\ r.k = call[c].k /\ r.from = call[c].from
        /\ r.heads = call[c].heads /\ r.room = call[c].room /\ r.own = call[c].own
        /\ r.cancelled /\ r.armed = None
    BY <1>0 DEF CallRec
  <1>2. /\ Become(c, r) /\ UNCHANGED <<via, mu, blob, reader, closer, faults>>
        /\ fires' = fires \union ({call[c].armed} \ {None})
    BY DEF CtxDone
  <1> HIDE DEF r
  <1>3. call'[c] = r /\ \A d \in Calls \ {c} : call'[d] = call[d]
    BY <1>0, <1>1, <1>2, Became
  <1>4. Honest(c)'
    BY <1>1, <1>2, <1>3 DEF HInv, Honest, Budget, Intact, Explained, InRead, InStream, Excused
  <1>5. ASSUME NEW d \in Calls \ {c} PROVE Honest(d)'
    <2>1. CASE ~InRead(d)
      BY <1>2, <1>3, <2>1, OthersHonest DEF HInv
    <2>2. CASE InRead(d)
      <3>1. ~InRead(c)
        BY <2>2, Alone DEF InRead, Active
      <3>2. fires' = fires
        BY <1>2, <3>1 DEF HInv, Started
      <3> QED
        BY <1>2, <1>3, <3>2 DEF HInv, Honest, Budget, Intact, Explained, InRead, InStream, Excused
    <2> QED
      BY <2>1, <2>2
  <1>6. Started'
    <2>1. \A k \in fires' : Exists(k)
      BY <1>2 DEF HInv, Started
    <2>2. \A d \in Calls : call'[d].pc = call[d].pc /\ call'[d].k = call[d].k
                            /\ call'[d].armed \in {call[d].armed, None}
      BY <1>1, <1>3
    <2> QED
      BY <1>2, <2>1, <2>2 DEF HInv, Started, InRead, Exists
  <1> QED
    BY <1>4, <1>5, <1>6 DEF HInv

\* A process answers, breaks, dies; or a reader is poisoned.
LEMMA ProcessHonest ==
    ASSUME IInv, HInv, via = "cell", NEW k \in Readers, Answer(k) \/ Break(k) \/ Die(k) \/ Cancel(k)
    PROVE  HInv'
  <1> DEFINE Worse(r) == r.proc # "up" \/ r.doomed \/ r.poison
             Kept(r) == /\ r \in ReaderRec /\ r.closed = reader[k].closed
                        /\ reader[k].proc # "none" => r.proc # "none"
                        /\ Worse(r) => Worse(reader[k]) \/ k \in fires \/ k \in faults'
  <1>0. TypeOK /\ reader[k] \in ReaderRec
    BY DEF IInv, TypeOK
  <1>1. /\ UNCHANGED <<via, mu, blob, call, closer>> /\ faults \subseteq faults'
        /\ fires' \subseteq fires
    BY DEF Answer, Break, Die, Cancel, Fault
  <1>2. \E r : Kept(r) /\ Change(k, r)
    <2>1. CASE Answer(k)
      <3> DEFINE r == [reader[k] EXCEPT !.asked = Tail(@), !.told = Append(@, Head(reader[k].asked))]
      <3>1. reader[k].asked \in Seq(Commands) /\ reader[k].told \in Seq(Commands) /\ reader[k].asked # << >>
        BY <1>0, <2>1, ReaderFields DEF Answer
      <3>2. Tail(reader[k].asked) \in Seq(Commands) /\ Append(reader[k].told, Head(reader[k].asked)) \in Seq(Commands)
        BY <3>1, HeadTailProperties
      <3>3. r \in ReaderRec /\ r.closed = reader[k].closed /\ r.proc = reader[k].proc
            /\ r.doomed = reader[k].doomed /\ r.poison = reader[k].poison
        BY <1>0, <3>2 DEF ReaderRec
      <3>4. Change(k, r)
        BY <2>1 DEF Answer
      <3> HIDE DEF r
      <3>5. Kept(r)
        BY <3>3
      <3> QED
        BY <3>4, <3>5
    <2>2. CASE Break(k)
      <3>1. PICK s \in {"dead", "silent"} : Change(k, [reader[k] EXCEPT !.proc = s])
        BY <2>2 DEF Break
      <3>2. k \in faults'
        BY <2>2 DEF Break, Fault
      <3>3. Kept([reader[k] EXCEPT !.proc = s])
        BY <1>0, <3>2 DEF ReaderRec
      <3> QED
        BY <3>1, <3>3
    <2>3. CASE Die(k)
      <3>1. Kept([reader[k] EXCEPT !.proc = "dead"])
        BY <1>0, <2>3 DEF ReaderRec, Die
      <3> QED
        BY <2>3, <3>1 DEF Die
    <2>4. CASE Cancel(k)
      <3>1. Kept(poisonWith(reader[k]))
        BY <1>0, <2>4 DEF ReaderRec, Cancel, poisonWith
      <3> QED
        BY <2>4, <3>1 DEF Cancel
    <2> QED
      BY <2>1, <2>2, <2>3, <2>4
  <1>3. PICK r : Kept(r) /\ Change(k, r)
    BY <1>2
  <1>4. reader'[k] = r /\ \A j \in Readers \ {k} : reader'[j] = reader[j]
    BY <1>0, <1>3, Changed
  <1>5. Started'
    BY <1>0, <1>1, <1>3, <1>4 DEF HInv, Started, Exists, InRead, IInv, Places, Active, TypeOK
  <1>6. ASSUME NEW d \in Calls PROVE Honest(d)'
    <2>1. CASE ~InRead(d) \/ ~call[d].own
      BY <1>1, <2>1 DEF HInv, Honest, Budget, Intact, Explained, InRead, InStream, Excused
    <2>2. CASE InRead(d) /\ call[d].own
      <3>1. call[d].k \in Readers
        BY <2>2 DEF IInv, Places, InRead, Active
      <3>2. Budget(d)' /\ Explained(d)'
        BY <1>1, <2>2 DEF HInv, Honest, Budget, Explained, InRead, InStream
      <3>3. CASE call[d].k # k
        BY <1>1, <1>4, <2>2, <3>1, <3>2, <3>3 DEF HInv, Honest, Intact, InRead, Excused
      <3>4. CASE call[d].k = k
        BY <1>1, <1>3, <1>4, <2>2, <3>2, <3>4 DEF HInv, Honest, Intact, InRead, Excused
      <3> QED
        BY <3>3, <3>4
    <2> QED
      BY <2>1, <2>2
  <1> QED
    BY <1>5, <1>6 DEF HInv

\* A call in the hands of a daemon.
Served(c, k) == [call[c] EXCEPT !.pc = "chunk", !.k = k, !.own = FALSE]

LEMMA LockHonest == ASSUME IInv, HInv, NEW c \in Calls, Lock(c) PROVE HInv'
  <1>a. call[c].pc = "lock" /\ Free
    BY DEF Lock
  <1>0. /\ TypeOK /\ via = "cell" /\ Free /\ call[c].pc = "lock" /\ call[c] \in CallRec
        /\ reader \in [Readers -> ReaderRec]
    BY <1>a DEF IInv, Places, TypeOK
  <1>1. \A d \in Calls \ {c} : ~Active(d)
    BY <1>0, NobodyServed
  <1>2. call[c].armed = None /\ Budget(c) /\ Explained(c)
    BY <1>0 DEF HInv, Started, Honest, InRead
  <1>3. \A k \in Readers : IsNext(k) => reader[k].proc = "none"
    BY <1>0 DEF IsNext, Readers
  \* Served with a daemon, it has all of its budget.
  <1>4. ASSUME NEW k \in Readers, NEW r \in ReaderRec, Change(k, r), r.proc # "none",
               blob' \in {blob, None, k}, faults' = faults,
               Arm(c, Served(c, k))
        PROVE  HInv'
    <2> DEFINE q == Served(c, k)
    <2>1. /\ q \in CallRec /\ q.pc = "chunk" /\ q.k = k /\ q.own = FALSE /\ q.armed = None
          /\ q.from = call[c].from /\ q.room = call[c].room
      BY <1>0, <1>2 DEF CallRec, Served
    <2>2. Arm(c, q)
      BY <1>4
    <2> HIDE DEF q
    <2>3. PICK n \in CallRec : /\ Become(c, n) /\ Like(n, q) /\ n.own = q.own /\ n.room = q.room
                               /\ n.armed \in {q.armed, q.k}
      BY <1>0, <2>1, <2>2, ArmKeeps
    <2>4. fires' \subseteq fires \union {k}
      BY <1>0, <2>1, <2>2, ArmKeeps
    <2>5. /\ n.pc = "chunk" /\ n.k = k /\ ~n.own /\ n.from = call[c].from /\ n.room = call[c].room
          /\ n.armed \in {None, k}
      BY <2>1, <2>3 DEF Like
    <2>6. call'[c] = n
      BY <1>0, <2>3, Became
    <2>7. Honest(c)'
      BY <1>0, <1>2, <2>5, <2>6 DEF Honest, Budget, Intact, Explained, InStream
    <2> QED
      BY <1>0, <1>1, <1>4, <2>3, <2>4, <2>5, <2>7, Moves
  <1>5. CASE blob # None
    <2>1. blob \in Readers /\ reader[blob] \in ReaderRec /\ reader[blob].proc # "none"
      BY <1>0, <1>5 DEF TypeOK, HInv, Started, Exists
    <2>2. UNCHANGED <<blob, reader, faults>>
      BY <1>5 DEF Lock
    <2>3. Arm(c, Served(c, blob))
      BY <1>5 DEF Lock, Served
    <2>4. Change(blob, reader[blob])
      BY <1>0, <2>1, <2>2 DEF Change
    <2> QED
      BY <1>4, <2>1, <2>2, <2>3, <2>4
  <1>6. CASE blob = None
    <2>1. PICK k \in Readers :
            \/ /\ Change(k, Opened) /\ blob' = k
               /\ Arm(c, [call[c] EXCEPT !.pc = "chunk", !.k = k, !.own = FALSE])
               /\ UNCHANGED faults
            \/ /\ Fault(k) /\ Change(k, Reaped)
               /\ Become(c, [call[c] EXCEPT !.pc = "spawn"]) /\ UNCHANGED <<blob, fires>>
      BY <1>6 DEF Lock
    <2>2. /\ Opened \in ReaderRec /\ Opened.proc # "none"
          /\ Reaped \in ReaderRec /\ Reaped.proc # "none"
      BY FreshTypes DEF Opened, Reaped, NoReader
    <2>3. CASE /\ Change(k, Opened) /\ blob' = k
               /\ Arm(c, [call[c] EXCEPT !.pc = "chunk", !.k = k, !.own = FALSE])
               /\ UNCHANGED faults
      <3>1. Arm(c, Served(c, k))
        BY <2>3 DEF Served
      <3>2. Change(k, Opened) /\ blob' = k /\ faults' = faults
        BY <2>3
      <3> QED
        BY <1>4, <2>2, <3>1, <3>2
    <2>4. CASE /\ Fault(k) /\ Change(k, Reaped)
               /\ Become(c, [call[c] EXCEPT !.pc = "spawn"]) /\ UNCHANGED <<blob, fires>>
      <3> DEFINE n == [call[c] EXCEPT !.pc = "spawn"]
      <3>1. n \in CallRec /\ n.pc = "spawn" /\ n.armed = None
        BY <1>0, <1>2 DEF CallRec
      <3>2. Become(c, n)
        BY <2>4
      <3> HIDE DEF n
      <3>3. call'[c] = n
        BY <1>0, <3>1, <3>2, Became
      <3>4. Honest(c)'
        BY <3>1, <3>3 DEF Honest, Budget, Intact, Explained, InRead, InStream
      <3>5. /\ Change(k, Reaped) /\ UNCHANGED <<blob, fires>> /\ faults \subseteq faults'
        BY <2>4 DEF Fault
      <3> QED
        BY <1>0, <1>1, <2>2, <3>1, <3>2, <3>4, <3>5, Moves
    <2> QED
      BY <2>1, <2>3, <2>4
  <1> QED
    BY <1>5, <1>6

\* A process of the call's own is new: nothing is about to poison it.
LEMMA SpawnHonest == ASSUME IInv, HInv, via = "cell", NEW c \in Calls, Spawn(c) PROVE HInv'
  <1>0. TypeOK /\ call[c].pc = "spawn" /\ Active(c)
    BY DEF IInv, Spawn, Active
  <1>1. \A d \in Calls \ {c} : ~Active(d)
    BY <1>0, Alone
  <1>2. PICK k \in Readers :
          /\ call[c].pc = "spawn" /\ IsNext(k)
          /\ \/ /\ Change(k, Opened)
                /\ Become(c, [Idle EXCEPT !.pc = "chunk", !.k = k, !.cancelled = call[c].cancelled])
                /\ UNCHANGED <<mu, faults>>
             \/ /\ Fault(k) /\ Change(k, Reaped)
                /\ Become(c, [call[c] EXCEPT !.pc = "error", !.k = k, !.own = TRUE]) /\ mu' = None
    BY DEF Spawn
  <1>3. UNCHANGED <<via, blob, fires, closer>> /\ call[c].armed = None
    BY <1>0 DEF Spawn, HInv, Started, InRead
  <1>4. k \notin fires
    BY <1>2 DEF IsNext, HInv, Started, Exists, Readers
  <1>5. /\ Opened \in ReaderRec /\ Opened.proc = "up" /\ ~Opened.doomed /\ ~Opened.poison
        /\ ~Opened.closed /\ Reaped \in ReaderRec /\ Reaped.proc # "none"
    BY FreshTypes DEF Opened, NoReader, Reaped
  <1>6. CASE /\ Change(k, Opened)
             /\ Become(c, [Idle EXCEPT !.pc = "chunk", !.k = k, !.cancelled = call[c].cancelled])
             /\ UNCHANGED <<mu, faults>>
    <2> DEFINE n == [Idle EXCEPT !.pc = "chunk", !.k = k, !.cancelled = call[c].cancelled]
    <2>1. /\ n \in CallRec /\ n.pc = "chunk" /\ n.k = k /\ n.from = 0 /\ n.room = MaxTotal
          /\ n.armed = None
      BY <1>0, FreshTypes, CallFields DEF CallRec, Idle
    <2>2. Become(c, n)
      BY <1>6
    <2> HIDE DEF n
    <2>3. call'[c] = n /\ reader'[k] = Opened
      BY <1>0, <1>5, <1>6, <2>1, <2>2, Became, Changed
    <2>4. Budget(c)'
      BY <2>1, <2>3, FreshBudget
    <2>5. Intact(c)'
      BY <1>3, <1>4, <1>5, <2>1, <2>3 DEF Intact
    <2>6. Honest(c)'
      BY <2>1, <2>3, <2>4, <2>5 DEF Honest, Explained
    <2> QED
      BY <1>0, <1>1, <1>3, <1>5, <1>6, <2>1, <2>2, <2>6, Moves
  <1>7. CASE /\ Fault(k) /\ Change(k, Reaped)
             /\ Become(c, [call[c] EXCEPT !.pc = "error", !.k = k, !.own = TRUE]) /\ mu' = None
    <2> DEFINE n == [call[c] EXCEPT !.pc = "error", !.k = k, !.own = TRUE]
    <2>0. call[c] \in CallRec /\ call[c].armed = None
      BY <1>0, <1>3, CallFields
    <2>1. n \in CallRec /\ n.pc = "error" /\ n.k = k /\ n.own /\ n.armed = None
      BY <2>0 DEF CallRec
    <2>2. Become(c, n) /\ k \in faults' /\ faults \subseteq faults'
      BY <1>7 DEF Fault
    <2> HIDE DEF n
    <2>3. call'[c] = n
      BY <1>0, <2>1, <2>2, Became
    <2>4. Honest(c)'
      BY <2>1, <2>2, <2>3 DEF Honest, Budget, Intact, Explained, InRead, InStream
    <2> QED
      BY <1>0, <1>1, <1>3, <1>5, <1>7, <2>1, <2>2, <2>4, Moves
  <1> QED
    BY <1>2, <1>6, <1>7

LEMMA ReapHonest == ASSUME IInv, HInv, via = "cell", NEW c \in Calls, Reap(c) PROVE HInv'
  <1> DEFINE next == CASE call[c].pc = "reapSpawn" -> "spawn"
                       [] call[c].pc = "reapError" -> "error"
                       [] call[c].pc = "reapOk"    -> "ok"
             n == [call[c] EXCEPT !.pc = next]
  <1>0. /\ TypeOK /\ call[c].pc \in {"reapSpawn", "reapError", "reapOk"} /\ Active(c)
        /\ call[c].k \in Readers /\ UNCHANGED <<via, blob, fires, closer, faults>>
    BY DEF IInv, Reap, Active, Places
  <1>1. call[c].armed = None /\ \A d \in Calls \ {c} : ~Active(d)
    BY <1>0, Alone DEF HInv, Started, InRead
  <1>2. next \in {"spawn", "error", "ok"} /\ (next = "error" => call[c].pc = "reapError")
    BY <1>0
  <1>3. Change(call[c].k, Reaped) /\ Become(c, n)
    BY DEF Reap
  <1> HIDE DEF next
  <1>4. /\ n \in CallRec /\ n.pc = next /\ n.k = call[c].k /\ n.own = call[c].own
        /\ n.cancelled = call[c].cancelled /\ n.armed = None
    BY <1>0, <1>1, <1>2, CallFields DEF CallRec
  <1> HIDE DEF n
  <1>5. call'[c] = n
    BY <1>0, <1>3, <1>4, Became
  <1>6. Honest(c)'
    BY <1>0, <1>2, <1>4, <1>5 DEF HInv, Honest, Budget, Intact, Explained, InRead, InStream
  <1>7. Reaped \in ReaderRec /\ Reaped.proc # "none"
    BY FreshTypes DEF Reaped, NoReader
  <1> QED
    BY <1>0, <1>1, <1>2, <1>3, <1>4, <1>6, <1>7, Moves

\* What holds of a call in a Read.
LEMMA Serving ==
    ASSUME IInv, HInv, via = "cell", NEW c \in Calls, InRead(c)
    PROVE  /\ TypeOK /\ Active(c) /\ call[c].pc # "spawn" /\ call[c] \in CallRec
           /\ call[c].k \in Readers /\ reader[call[c].k] \in ReaderRec
           /\ reader[call[c].k].proc # "none" /\ call[c].armed \in {None, call[c].k}
           /\ Progress(c) /\ Honest(c) /\ \A d \in Calls \ {c} : ~Active(d)
           /\ call[c].from \in Nat /\ call[c].from < Len(Batch[c])
  <1>1. TypeOK /\ Active(c) /\ call[c].pc # "spawn" /\ Progress(c)
    BY DEF IInv, Active, InRead
  <1>2. call[c].k \in Readers /\ \A d \in Calls \ {c} : ~Active(d)
    BY <1>1, Alone DEF IInv, Places
  <1>3. /\ reader[call[c].k].proc # "none" /\ call[c].armed \in {None, call[c].k} /\ Honest(c)
    BY DEF HInv, Started, Exists
  <1>4. call[c].from \in Nat /\ call[c].from < Len(Batch[c])
    BY <1>1, CallFields DEF Progress, InRead
  <1> QED
    BY <1>1, <1>2, <1>3, <1>4 DEF TypeOK

\* A reader of the call's own that cannot be used is an excuse.
LEMMA Unusable ==
    ASSUME IInv, HInv, via = "cell", NEW c \in Calls, InRead(c), call[c].own,
           LET r == reader[call[c].k] IN r.closed \/ r.poison \/ Gone(r)
    PROVE  Excused(c)
  BY DEF HInv, Honest, Intact, Gone

\* A Read goes on with its reader.
LEMMA GoesOn ==
    ASSUME IInv, HInv, via = "cell", NEW c \in Calls, InRead(c), NEW n \in CallRec, Become(c, n),
           n.pc \in {"chunk", "ask", "hear"}, n.k = call[c].k, n.own = call[c].own,
           n.cancelled = call[c].cancelled, n.armed \in {None, call[c].armed},
           NEW r \in ReaderRec, Change(call[c].k, r), r.proc = reader[call[c].k].proc,
           r.closed = reader[call[c].k].closed, r.poison = reader[call[c].k].poison,
           r.doomed = reader[call[c].k].doomed, UNCHANGED <<blob, fires, faults>>, Budget(c)'
    PROVE  HInv'
  <1>1. /\ TypeOK /\ call[c].k \in Readers /\ reader[call[c].k].proc # "none"
        /\ call[c].armed \in {None, call[c].k} /\ Honest(c) /\ \A d \in Calls \ {c} : ~Active(d)
    BY Serving
  <1>2. call'[c] = n /\ reader'[call[c].k] = r
    BY <1>1, Became, Changed
  <1>3. Honest(c)'
    BY <1>1, <1>2 DEF Honest, Intact, Explained, InRead, Excused
  <1> QED
    BY <1>1, <1>3, Moves

\* What a servable batch asks for is valid, and no blob of it is too large.
LEMMA ServableChunk ==
    ASSUME NEW c \in Calls, call[c].from \in Nat, call[c].from < Len(Batch[c]), Servable(Batch[c])
    PROVE  \A i \in 1..Len(Chunk(c)) : /\ Kind[Chunk(c)[i]] # "invalid"
                                       /\ Kind[Chunk(c)[i]] = "blob" => Available(Chunk(c)[i])
  <1> SUFFICES ASSUME NEW i \in 1..Len(Chunk(c))
               PROVE  /\ Kind[Chunk(c)[i]] # "invalid"
                      /\ Kind[Chunk(c)[i]] = "blob" => Available(Chunk(c)[i])
    OBVIOUS
  <1>1. Len(Batch[c]) \in Nat /\ MaxBatch \in Nat
    BY BatchType, BlobsAssumption DEF BlobsAssumption
  <1>2. call[c].from + i \in 1..Len(Batch[c]) /\ Chunk(c)[i] = Batch[c][call[c].from + i]
    BY <1>1, ChunkIsPart
  <1> QED
    BY <1>2 DEF Servable

LEMMA TurnedHonest == ASSUME IInv, HInv, via = "cell", NEW c \in Calls, Turned(c) PROVE HInv'
  <1>1. /\ InRead(c) /\ Failed(c, reader[call[c].k]) /\ UNCHANGED <<via, fires, faults>>
        /\ \/ \E i \in 1..Len(Chunk(c)) : Kind[Chunk(c)[i]] = "invalid"
           \/ call[c].room <= 0
           \/ call[c].own /\ call[c].cancelled
    BY DEF Turned, InRead
  <1>2. /\ TypeOK /\ reader[call[c].k] \in ReaderRec /\ reader[call[c].k].proc # "none"
        /\ Progress(c) /\ Honest(c) /\ call[c].from \in Nat /\ call[c].from < Len(Batch[c])
    BY <1>1, Serving
  <1>3. call[c].room \in Int
    BY <1>2, CallFields
  <1>4. Excused(c) \/ ~Servable(Batch[c])
    BY <1>1, <1>2, <1>3, ServableChunk, RoomLeft DEF Excused, InRead, Honest
  <1> QED
    BY <1>1, <1>2, <1>4, FailedHonest

LEMMA GateHonest == ASSUME IInv, HInv, via = "cell", NEW c \in Calls, Gate(c) PROVE HInv'
  <1> DEFINE r == reader[call[c].k]
             n == [call[c] EXCEPT !.pc = "ask", !.heads = << >>, !.read = 0]
             s == [r EXCEPT !.gate = FALSE]
  <1>0. call[c].pc = "chunk" /\ InRead(c) /\ UNCHANGED <<via, closer, faults>>
    BY DEF Gate, InRead
  <1>1. /\ TypeOK /\ call[c] \in CallRec /\ call[c].k \in Readers /\ r \in ReaderRec
        /\ r.proc # "none" /\ call[c].armed \in {None, call[c].k} /\ Honest(c)
        /\ \A d \in Calls \ {c} : ~Active(d)
    BY <1>0, Serving
  <1>2. CASE r.closed \/ r.poison
    <2>1. Failed(c, r) /\ UNCHANGED fires
      BY <1>2 DEF Gate
    <2>2. call[c].own => Excused(c)
      BY <1>0, <1>2, Unusable
    <2> QED
      BY <1>0, <1>1, <2>1, <2>2, FailedHonest
  <1>3. CASE ~(r.closed \/ r.poison)
    <2>1. /\ Change(call[c].k, s) /\ UNCHANGED blob
          /\ IF call[c].own THEN Arm(c, n) ELSE Become(c, n) /\ UNCHANGED fires
      BY <1>3 DEF Gate
    <2>2. /\ n \in CallRec /\ n.pc = "ask" /\ n.k = call[c].k /\ n.from = call[c].from
          /\ n.heads = << >> /\ n.own = call[c].own /\ n.room = call[c].room
          /\ n.cancelled = call[c].cancelled /\ n.armed = call[c].armed
      BY <1>1, EmptySeq DEF CallRec
    <2>3. /\ s \in ReaderRec /\ s.proc = r.proc /\ s.closed = r.closed /\ s.poison = r.poison
          /\ s.doomed = r.doomed
      BY <1>1 DEF ReaderRec
    <2> HIDE DEF n, s, r
    <2>4. ASSUME NEW m \in CallRec, Become(c, m), Like(m, n), m.room = n.room
          PROVE  call'[c] = m /\ Budget(c)'
      <3>1. /\ call'[c] = m /\ m.pc = "ask" /\ m.from = call[c].from /\ m.room = call[c].room
            /\ Len(m.heads) = 0 /\ call[c].from \in Nat
        BY <1>0, <1>1, <2>2, <2>4, Became, Serving DEF Like
      <3>2. m.from + Len(m.heads) = call[c].from
        BY <3>1
      <3> QED
        BY <1>0, <1>1, <3>1, <3>2 DEF Honest, Budget, InStream
    <2>5. CASE ~call[c].own
      <3>1. Become(c, n) /\ UNCHANGED fires /\ Like(n, n)
        BY <2>1, <2>2, <2>5 DEF Like
      <3> QED
        BY <1>0, <2>1, <2>2, <2>3, <2>4, <3>1, GoesOn DEF r
    <2>6. CASE call[c].own
      <3>1. Arm(c, n)
        BY <2>1, <2>6
      <3>2. PICK m \in CallRec : /\ Become(c, m) /\ Like(m, n) /\ m.own = n.own /\ m.room = n.room
                                 /\ m.cancelled = n.cancelled /\ m.armed \in {n.armed, n.k}
        BY <1>1, <2>2, <3>1, ArmKeeps
      <3>3. /\ fires' \subseteq fires \union {call[c].k}
            /\ call[c].k \in fires' => call[c].k \in fires \/ call[c].cancelled
        BY <1>1, <2>2, <3>1, ArmKeeps
      <3>4. /\ m.pc = "ask" /\ m.k = call[c].k /\ m.own /\ m.cancelled = call[c].cancelled
            /\ m.armed \in {None, call[c].k}
        BY <1>1, <2>2, <2>6, <3>2 DEF Like
      <3>5. call'[c] = m /\ Budget(c)' /\ reader'[call[c].k] = s
        BY <1>1, <2>1, <2>3, <2>4, <3>2, Changed
      <3>6. Intact(c)'
        BY <1>0, <1>1, <2>3, <2>6, <3>3, <3>4, <3>5 DEF Honest, Intact, InRead, Excused, r
      <3>7. Honest(c)'
        BY <3>4, <3>5, <3>6 DEF Honest, Explained
      <3> QED
        BY <1>0, <1>1, <2>1, <2>3, <3>2, <3>3, <3>4, <3>7, Moves DEF r
    <2> QED
      BY <2>5, <2>6
  <1> QED
    BY <1>2, <1>3

LEMMA AskHonest == ASSUME IInv, HInv, via = "cell", NEW c \in Calls, Ask(c) PROVE HInv'
  <1> DEFINE r == reader[call[c].k]
             n == [call[c] EXCEPT !.pc = "hear"]
             s == [r EXCEPT !.asked = Append(@, Command(c))]
  <1>0. /\ call[c].pc = "ask" /\ InRead(c) /\ InStream(c) /\ UNCHANGED <<via, fires, faults>>
        /\ (Infos(c) \/ Wanted(c) # {})
    BY DEF Ask, InRead, InStream
  <1>1. /\ TypeOK /\ Active(c) /\ call[c].pc # "spawn" /\ call[c] \in CallRec /\ r \in ReaderRec
        /\ r.proc # "none" /\ Progress(c) /\ Honest(c) /\ call[c].k \in Readers
    BY <1>0, Serving
  <1>2. CASE (Gone(r) \/ r.closed) /\ Failed(c, protocolError(c))
    <2>1. protocolError(c) \in ReaderRec /\ protocolError(c).proc # "none"
      BY <1>1, GivenBack DEF protocolError, poisonWith, Released, ReaderRec
    <2>2. call[c].own => Excused(c)
      BY <1>0, <1>2, Unusable
    <2> QED
      BY <1>0, <1>2, <2>1, <2>2, FailedHonest
  <1>3. CASE Change(call[c].k, s) /\ Become(c, n) /\ UNCHANGED blob
    <2>1. Command(c) \in Commands /\ r.asked \in Seq(Commands)
      BY <1>0, <1>1, CommandType, ReaderFields
    <2>2. /\ s \in ReaderRec /\ s.proc = r.proc /\ s.closed = r.closed /\ s.poison = r.poison
          /\ s.doomed = r.doomed
      <3>1. Append(r.asked, Command(c)) \in Seq(Commands)
        BY <2>1
      <3> QED
        BY <1>1, <3>1 DEF ReaderRec
    <2>3. /\ n \in CallRec /\ n.pc = "hear" /\ n.k = call[c].k /\ n.from = call[c].from
          /\ n.heads = call[c].heads /\ n.own = call[c].own /\ n.room = call[c].room
          /\ n.cancelled = call[c].cancelled /\ n.armed = call[c].armed
      BY <1>1 DEF CallRec
    <2>4. Change(call[c].k, s) /\ Become(c, n)
      BY <1>3
    <2> HIDE DEF n, s
    <2>5. call'[c] = n
      BY <1>1, <2>3, <2>4, Became
    <2>6. Budget(c)'
      BY <1>0, <1>1, <2>3, <2>5 DEF Honest, Budget, InStream
    <2> QED
      BY <1>0, <1>3, <2>2, <2>3, <2>4, <2>6, GoesOn
  <1> QED
    BY <1>2, <1>3 DEF Ask

\* The answer to the call's own command is taken for it.
LEMMA OwnIsPlausible == ASSUME TypeOK, NEW c \in Calls, call[c].pc = "hear", Progress(c)
                        PROVE  Plausible(c, Command(c))
  <1>0. /\ Infos(c) \/ Wanted(c) # {}
        /\ call[c].from < Len(Batch[c]) /\ Len(call[c].heads) <= Len(Chunk(c))
        /\ \A i \in 1..Len(call[c].heads) : call[c].heads[i] = Chunk(c)[i]
    BY DEF Progress, InStream
  <1>1. CASE Infos(c)
    <2>1. Command(c)[1] = "info"
      BY <1>1 DEF Command
    <2> QED
      BY <2>1 DEF Plausible
  <1>2. CASE ~Infos(c)
    <2> DEFINE n == NextOf(Wanted(c))
    <2>1. n \in 1..Len(call[c].heads)
      BY <1>0, <1>2, WantedPlaces
    <2>2. Command(c) = <<"contents", Chunk(c)[n]>>
      BY <1>2 DEF Command
    <2> HIDE DEF n
    <2>3. Command(c)[1] # "info" /\ Command(c)[2] = call[c].heads[n]
      BY <1>0, <2>1, <2>2
    <2> QED
      BY <2>3 DEF Plausible, n
  <1> QED
    BY <1>1, <1>2

\* What hearing the answer to its own command leaves of a call's budget.
LEMMA HeardBudget ==
    ASSUME IInv, NEW c \in Calls, call[c].pc = "hear", Budget(c)
    PROVE  LET n == Heard(c, Command(c))
           IN  /\ n.from = call[c].from /\ n.own = call[c].own /\ n.armed = call[c].armed
               /\ n.cancelled = call[c].cancelled
               /\ Servable(Batch[c]) =>
                    /\ n.room = MaxTotal - Bulk(Batch[c])[n.from + Len(n.heads)]
                    /\ ~(n.room < 0)
  <1> DEFINE r == call[c]
             b == Batch[c]
             n == Heard(c, Command(c))
  <1>0. TypeOK /\ Progress(c) /\ r \in CallRec /\ InStream(c)
    BY CallFields DEF IInv, InStream
  <1>1. /\ r.from \in Nat /\ r.from < Len(b) /\ r.heads \in Seq(Specs) /\ Len(r.heads) \in Nat
        /\ Len(r.heads) <= Len(Chunk(c)) /\ r.room \in Int /\ b \in Seq(Specs) /\ Len(b) \in Nat
    BY <1>0, CallFields, BatchType DEF Progress
  <1>2. Servable(b) => r.room > 0 /\ r.room = MaxTotal - Bulk(b)[r.from + Len(r.heads)]
    BY <1>0, RoomLeft DEF Budget
  <1>3. CASE Infos(c)
    <2> DEFINE spec == Chunk(c)[Len(r.heads) + 1]
               room == r.room - IF Available(spec) THEN Size[spec] ELSE 0
               m == [r EXCEPT !.pc = "ask", !.heads = Append(@, spec), !.room = room]
    <2>1. Len(r.heads) + 1 \in 1..Len(Chunk(c)) /\ Len(Chunk(c)) \in Nat
      BY <1>1, <1>3, ChunkIsPart DEF Infos
    <2>2. spec \in Specs /\ spec = b[r.from + Len(r.heads) + 1]
      <3>1. /\ spec = b[r.from + (Len(r.heads) + 1)] /\ spec \in Specs
        BY <1>1, <2>1, ChunkIsPart
      <3>2. \A i, j \in Nat : i + (j + 1) = i + j + 1
        OBVIOUS
      <3> QED
        BY <1>1, <3>1, <3>2
    <2>3. Command(c) = <<"info", spec>> /\ Command(c)[1] = "info" /\ Command(c)[2] = spec
      BY <1>3 DEF Command
    <2>4. n = m
      BY <2>3 DEF Heard
    <2>5. Servable(b) => (Kind[spec] = "blob" => Available(spec))
      BY <1>1, <2>1, ServableChunk
    <2> HIDE DEF spec, room
    <2>6. /\ m.from = r.from /\ m.own = r.own /\ m.armed = r.armed /\ m.cancelled = r.cancelled
          /\ m.room = room /\ m.heads = Append(r.heads, spec)
      BY <1>0 DEF CallRec
    <2> HIDE DEF m
    <2>7. Len(m.heads) = Len(r.heads) + 1
      BY <1>1, <2>2, <2>6
    <2>8. ASSUME Servable(b)
          PROVE  m.room = MaxTotal - Bulk(b)[m.from + Len(m.heads)] /\ ~(m.room < 0)
      <3>1. room = r.room - Weight(spec) /\ Weight(spec) \in Nat
        BY <2>2, <2>5, <2>8, WeightType DEF room, Weight, Available
      <3> DEFINE p == r.from + Len(r.heads)
      <3>2. p + 1 \in 1..Len(b) /\ p + 1 - 1 = p /\ p \in 0..Len(b) /\ p + 1 \in 0..Len(b)
        <4>1. MaxBatch \in Nat
          BY BlobsAssumption DEF BlobsAssumption
        <4>2. r.from + Len(Chunk(c)) <= Len(b)
          BY <1>1, <2>1, <4>1, ChunkIsPart
        <4>3. \A i, j, l, u \in Nat : j + 1 \in 1..l /\ i + l <= u =>
                /\ i + j + 1 \in 1..u /\ i + j + 1 - 1 = i + j
                /\ i + j \in 0..u /\ i + j + 1 \in 0..u
          OBVIOUS
        <4> QED
          BY <1>1, <2>1, <4>2, <4>3
      <3>3. m.from + Len(m.heads) = p + 1
        BY <1>1, <2>6, <2>7
      <3> HIDE DEF p
      <3>4. /\ Bulk(b)[p + 1] = Bulk(b)[p] + Weight(b[p + 1]) /\ Bulk(b)[p] \in Nat
            /\ Bulk(b)[p + 1] \in Nat /\ Bulk(b)[p + 1] <= Bulk(b)[Len(b)] /\ Bulk(b)[Len(b)] \in Nat
        <4>1. /\ \A i \in 1..Len(b) : Bulk(b)[i] = Bulk(b)[i - 1] + Weight(b[i])
              /\ \A i \in 0..Len(b) : Bulk(b)[i] \in Nat /\ Bulk(b)[i] <= Bulk(b)[Len(b)]
          BY <1>1, BulkAdds DEF Totals
        <4>2. Bulk(b)[p + 1] = Bulk(b)[p + 1 - 1] + Weight(b[p + 1])
          BY <3>2, <4>1
        <4>3. Bulk(b)[p] \in Nat /\ Bulk(b)[p + 1] \in Nat /\ Bulk(b)[p + 1] <= Bulk(b)[Len(b)]
          BY <3>2, <4>1
        <4>4. Len(b) \in 0..Len(b)
          BY <1>1
        <4>5. Bulk(b)[Len(b)] \in Nat
          BY <4>1, <4>4
        <4> QED
          BY <3>2, <4>2, <4>3, <4>5
      <3>5. b[p + 1] = spec
        BY <2>2 DEF p
      <3>6. MaxTotal \in Nat /\ Bulk(b)[Len(b)] < MaxTotal
        BY <2>8, BlobsAssumption DEF Servable, BlobsAssumption
      <3>7. r.room = MaxTotal - Bulk(b)[p]
        BY <1>2, <2>8 DEF p
      <3>8. room = MaxTotal - Bulk(b)[p + 1] /\ ~(room < 0)
        BY <3>1, <3>4, <3>5, <3>6, <3>7
      <3> QED
        BY <2>6, <3>3, <3>8
    <2> QED
      BY <2>4, <2>6, <2>8
  <1>4. CASE ~Infos(c)
    <2> DEFINE w == NextOf(Wanted(c))
               spec == Chunk(c)[w]
               m == [r EXCEPT !.pc = "ask", !.read = w, !.map = @ \union {<<spec, spec>>}]
    <2>1. Command(c) = <<"contents", spec>> /\ Command(c)[1] # "info" /\ Command(c)[2] = spec
      BY <1>4 DEF Command
    <2>2. n = m
      BY <2>1 DEF Heard
    <2> HIDE DEF spec, w
    <2>3. /\ m.from = r.from /\ m.own = r.own /\ m.armed = r.armed /\ m.cancelled = r.cancelled
          /\ m.room = r.room /\ m.heads = r.heads
      BY <1>0 DEF CallRec
    <2> HIDE DEF m, n
    <2>4. Servable(b) => /\ m.room = MaxTotal - Bulk(b)[m.from + Len(m.heads)]
                         /\ ~(m.room < 0)
      BY <1>1, <1>2, <2>3
    <2> QED
      BY <2>2, <2>3, <2>4 DEF n
  <1> QED
    BY <1>3, <1>4

LEMMA HearHonest == ASSUME IInv, HInv, via = "cell", NEW c \in Calls, Hear(c) PROVE HInv'
  <1> DEFINE r == reader[call[c].k]
             a == Head(r.told)
             rest == [r EXCEPT !.told = Tail(@)]
  <1>0. /\ call[c].pc = "hear" /\ InRead(c) /\ InStream(c) /\ UNCHANGED <<via, fires, faults>>
    BY DEF Hear, InRead, InStream
  <1>1. /\ TypeOK /\ Active(c) /\ call[c].pc # "spawn" /\ call[c] \in CallRec /\ r \in ReaderRec
        /\ r.proc # "none" /\ Progress(c) /\ Honest(c) /\ call[c].k \in Readers
        /\ call[c].armed \in {None, call[c].k}
    BY <1>0, Serving
  <1>2. protocolError(c) \in ReaderRec /\ protocolError(c).proc # "none"
    BY <1>1, GivenBack DEF protocolError, poisonWith, Released, ReaderRec
  <1>3. ASSUME r.told # << >>
        PROVE  /\ a = Command(c) /\ rest \in ReaderRec /\ rest.proc = r.proc /\ rest.closed = r.closed
               /\ rest.poison = r.poison /\ rest.doomed = r.doomed
    <2>1. r.told = <<Command(c)>>
      BY <1>0, <1>3 DEF IInv, Streams, Expects
    <2>2. Head(r.told) = Command(c) /\ Tail(r.told) = << >> /\ << >> \in Seq(Commands)
      BY <2>1
    <2> QED
      BY <1>1, <2>2 DEF ReaderRec
  <1>4. CASE Eof(r) /\ Failed(c, protocolError(c))
    <2>1. Gone(r)
      BY <1>4 DEF Eof, Gone
    <2>2. call[c].own => Excused(c)
      BY <1>0, <2>1, Unusable
    <2> QED
      BY <1>0, <1>2, <1>4, <2>2, FailedHonest
  <1>5. CASE r.told # << >> /\ ~Plausible(c, a)
    BY <1>0, <1>1, <1>3, <1>5, OwnIsPlausible
  <1>6. CASE r.told # << >> /\ Heard(c, a).room < 0 /\ Failed(c, [rest EXCEPT !.gate = TRUE])
    <2> DEFINE s == [rest EXCEPT !.gate = TRUE]
    <2>1. rest \in ReaderRec /\ rest.proc = r.proc /\ a = Command(c)
      BY <1>3, <1>6
    <2>2. Servable(Batch[c]) => ~(Heard(c, Command(c)).room < 0)
      BY <1>0, <1>1, HeardBudget DEF Honest
    <2>3. ~Servable(Batch[c])
      BY <1>6, <2>1, <2>2
    <2> HIDE DEF rest
    <2>4. s \in ReaderRec /\ s.proc # "none"
      BY <1>1, <2>1 DEF ReaderRec
    <2>5. Failed(c, s)
      BY <1>6
    <2> HIDE DEF s
    <2> QED
      BY <1>0, <2>3, <2>4, <2>5, FailedHonest
  <1>7. CASE /\ r.told # << >> /\ Change(call[c].k, rest) /\ Become(c, Heard(c, a)) /\ UNCHANGED blob
    <2> DEFINE n == Heard(c, Command(c))
    <2>1. /\ rest \in ReaderRec /\ rest.proc = r.proc /\ rest.closed = r.closed
          /\ rest.poison = r.poison /\ rest.doomed = r.doomed /\ Become(c, n)
      BY <1>3, <1>7
    <2>2. n \in CallRec /\ n.pc = "ask" /\ n.k = call[c].k
      BY <1>0, <2>1, HeardOwn
    <2>3. /\ n.own = call[c].own /\ n.armed = call[c].armed /\ n.cancelled = call[c].cancelled
          /\ Servable(Batch[c]) => n.room = MaxTotal - Bulk(Batch[c])[n.from + Len(n.heads)]
      BY <1>0, <1>1, HeardBudget DEF Honest
    <2> HIDE DEF n
    <2>4. call'[c] = n
      BY <1>1, <2>1, <2>2, Became
    <2>5. Budget(c)'
      BY <2>2, <2>3, <2>4 DEF Budget, InStream
    <2>6. Change(call[c].k, rest) /\ UNCHANGED <<blob, fires, faults>>
      BY <1>0, <1>7
    <2> HIDE DEF rest
    <2> QED
      BY <1>0, <2>1, <2>2, <2>3, <2>5, <2>6, GoesOn
  <1> QED
    BY <1>4, <1>5, <1>6, <1>7 DEF Hear

LEMMA ReturnHonest == ASSUME IInv, HInv, via = "cell", NEW c \in Calls, Return(c) PROVE HInv'
  <1> DEFINE r == call[c]
             q == reader[call[c].k]
  <1>0. /\ r.pc = "ask" /\ InRead(c) /\ InStream(c) /\ UNCHANGED <<via, fires, faults>>
        /\ ~Infos(c)
    BY DEF Return, InRead, InStream
  <1>1. /\ TypeOK /\ Active(c) /\ r.pc # "spawn" /\ r \in CallRec /\ q \in ReaderRec
        /\ q.proc # "none" /\ Progress(c) /\ Honest(c) /\ r.k \in Readers
        /\ r.armed \in {None, r.k} /\ r.from \in Nat /\ r.from < Len(Batch[c])
        /\ \A d \in Calls \ {c} : ~Active(d)
    BY <1>0, Serving
  <1>2. /\ protocolError(c) \in ReaderRec /\ protocolError(c).proc # "none"
        /\ Released(c) \in ReaderRec /\ Released(c).proc = q.proc /\ Released(c).closed = q.closed
        /\ Released(c).poison = q.poison /\ Released(c).doomed = q.doomed
    BY <1>1, GivenBack DEF protocolError, poisonWith, Released, ReaderRec
  <1>3. Len(r.heads) = Len(Chunk(c)) /\ \A i \in 1..Len(r.heads) : r.heads[i] = Chunk(c)[i]
    BY <1>0, <1>1, CallFields, ChunkIsPart DEF Infos, Progress
  <1>4. CASE Interrupted(c) /\ Failed(c, protocolError(c))
    BY <1>0, <1>2, <1>4, FailedHonest DEF Interrupted, Excused
  <1>5. CASE TooLarge(c) /\ Failed(c, Released(c))
    <2>1. ~Servable(Batch[c])
      BY <1>1, <1>3, <1>5, ServableChunk DEF TooLarge
    <2> QED
      BY <1>0, <1>1, <1>2, <1>5, <2>1, FailedHonest
  <1>6. CASE /\ ~Last(c) /\ UNCHANGED blob
             /\ Become(c, [r EXCEPT !.pc = "chunk", !.from = @ + MaxBatch,
                                    !.armed = IF r.own THEN None ELSE @])
             /\ Change(r.k, Released(c))
    <2> DEFINE f == r.from + MaxBatch
               a == IF r.own THEN None ELSE r.armed
               n == [r EXCEPT !.pc = "chunk", !.from = f, !.armed = a]
    <2>1. f \in Nat /\ a \in {None, r.armed} /\ a \in Readers \union {None}
      BY <1>1, CallFields, BlobsAssumption DEF BlobsAssumption
    <2>2. r.from + Len(r.heads) = f
      BY <1>1, <1>3, <1>6, ChunkIsPart
    <2>3. Become(c, n)
      BY <1>6
    <2> HIDE DEF f, a
    <2>4. /\ n \in CallRec /\ n.pc = "chunk" /\ n.k = r.k /\ n.own = r.own /\ n.armed = a
          /\ n.cancelled = r.cancelled /\ n.from = f /\ n.room = r.room
      BY <1>1, <2>1 DEF CallRec
    <2> HIDE DEF n
    <2>5. call'[c] = n
      BY <1>1, <2>3, <2>4, Became
    <2>6. Budget(c)'
      BY <1>0, <1>1, <2>2, <2>4, <2>5 DEF Honest, Budget, InStream
    <2>7. Change(call[c].k, Released(c)) /\ UNCHANGED <<blob, fires, faults>>
      BY <1>0, <1>6
    <2> QED
      BY <1>0, <1>2, <2>1, <2>3, <2>4, <2>6, <2>7, GoesOn
  <1>7. ASSUME NEW pc \in {"reapOk", "ok"}, Leave(c, pc), UNCHANGED blob,
               NEW s \in ReaderRec, s.proc # "none", Change(r.k, s)
        PROVE  HInv'
    <2> DEFINE n == [Idle EXCEPT !.pc = pc, !.k = r.k, !.own = r.own, !.map = r.map,
                                 !.cancelled = r.cancelled]
    <2>1. n \in CallRec /\ n.pc = pc /\ n.armed = None
      BY <1>1, FreshTypes, CallFields DEF CallRec, Idle
    <2>2. Become(c, n)
      BY <1>7 DEF Leave
    <2> HIDE DEF n
    <2>3. call'[c] = n
      BY <1>1, <2>1, <2>2, Became
    <2>4. Honest(c)'
      BY <1>7, <2>1, <2>3 DEF Honest, Budget, Intact, Explained, InRead, InStream
    <2> QED
      BY <1>0, <1>1, <1>7, <2>1, <2>2, <2>4, Moves
  <1>8. CASE Last(c) /\ UNCHANGED blob /\ Leave(c, "reapOk") /\ Change(r.k, Shut(Released(c)))
    <2>1. Shut(Released(c)) \in ReaderRec /\ Shut(Released(c)).proc # "none"
      BY <1>1, <1>2 DEF Shut, ReaderRec
    <2> QED
      BY <1>7, <1>8, <2>1
  <1>9. CASE Last(c) /\ UNCHANGED blob /\ Leave(c, "ok") /\ Change(r.k, Released(c))
    BY <1>1, <1>2, <1>7, <1>9
  <1> QED
    BY <1>4, <1>5, <1>6, <1>8, <1>9 DEF Return

\* Close waits for the calls, or they for it.
LEMMA ClosingHonest == ASSUME IInv, HInv, via = "cell", Close \/ Closed PROVE HInv'
  <1>0. TypeOK /\ UNCHANGED <<via, call, fires, faults>> /\ blob' \in {blob, None}
    BY DEF IInv, Close, Closed
  <1>1. \A d \in Calls : ~Active(d)
    <2>1. CASE Close
      BY <2>1, NobodyServed DEF Close
    <2>2. CASE Closed
      BY <2>2, BlobsAssumption DEF Closed, IInv, Locked, BlobsAssumption
    <2> QED
      BY <2>1, <2>2
  <1>2. \A j \in Readers : Exists(j) => Exists(j)'
    <2>1. CASE Close
      <3>1. CASE UNCHANGED reader
        BY <3>1 DEF Exists
      <3>2. CASE Target # None /\ Change(Target, Shut(reader[Target]))
        <4> DEFINE k == Target
                   s == Shut(reader[k])
        <4>1. k \in Readers /\ s \in ReaderRec /\ s.proc = reader[k].proc /\ Change(k, s)
          BY <1>0, <3>2 DEF Target, TypeOK, Shut, ReaderRec
        <4> HIDE DEF k, s
        <4> QED
          BY <1>0, <4>1, Changed DEF Exists
      <3> QED
        BY <2>1, <3>1, <3>2 DEF Close
    <2>2. CASE Closed
      <3> DEFINE k == Target
                 s == [Reaped EXCEPT !.gate = reader[k].gate]
      <3>1. k \in Readers /\ Change(k, s)
        BY <2>2 DEF Closed, IInv, Locked, Target
      <3>2. s \in ReaderRec /\ s.proc = "reaped"
        BY <1>0, <3>1, FreshTypes DEF TypeOK, ReaderRec, Reaped, NoReader
      <3> HIDE DEF k, s
      <3> QED
        BY <1>0, <3>1, <3>2, Changed DEF Exists
    <2> QED
      BY <2>1, <2>2
  <1>3. Started'
    BY <1>0, <1>1, <1>2 DEF HInv, Started, InRead, Active, TypeOK
  <1>4. \A d \in Calls : Honest(d)'
    BY <1>0, <1>1, OthersHonest DEF HInv, InRead, Active
  <1> QED
    BY <1>3, <1>4 DEF HInv

FInv == via = "cell" => HInv

LEMMA InitHonest == ASSUME Init PROVE FInv
  <1>1. \A c \in Calls : call[c].pc = "idle" /\ call[c].armed = None
    BY DEF Init, Idle
  <1>2. Started
    BY <1>1 DEF Init, Started, InRead
  <1>3. \A c \in Calls : Honest(c)
    BY <1>1 DEF Honest, Budget, Intact, Explained, InRead, InStream
  <1> QED
    BY <1>2, <1>3 DEF FInv, HInv

LEMMA StepHonest == IInv /\ FInv /\ [Next]_vars => FInv'
  <1> SUFFICES ASSUME IInv, FInv, [Next]_vars, via' = "cell" PROVE HInv'
    BY DEF FInv
  <1>1. via' = via
    BY DEF Next, Begin, CtxDone, CallStep, Lock, Spawn, Turned, Gate, Ask, Hear, Return, Reap,
           Answer, Break, Die, Cancel, Close, Closed, vars
  <1>2. via = "cell" /\ HInv
    BY <1>1 DEF FInv
  <1>3. CASE \E c \in Calls : Begin(c) \/ CtxDone(c) \/ CallStep(c)
    <2>1. PICK c \in Calls : Begin(c) \/ CtxDone(c) \/ CallStep(c)
      BY <1>3
    <2>2. CASE Begin(c) \/ CtxDone(c)
      BY <1>2, <2>2, BeginHonest, CtxDoneHonest
    <2>3. CASE Lock(c) \/ Spawn(c) \/ Reap(c)
      BY <1>2, <2>3, LockHonest, SpawnHonest, ReapHonest
    <2>4. CASE Turned(c) \/ Gate(c) \/ Ask(c) \/ Hear(c) \/ Return(c)
      BY <1>2, <2>4, TurnedHonest, GateHonest, AskHonest, HearHonest, ReturnHonest
    <2> QED
      BY <2>1, <2>2, <2>3, <2>4 DEF CallStep
  <1>4. CASE \E k \in Readers : Answer(k) \/ Break(k) \/ Die(k) \/ Cancel(k)
    BY <1>2, <1>4, ProcessHonest
  <1>5. CASE Close \/ Closed
    BY <1>2, <1>5, ClosingHonest
  <1>6. CASE UNCHANGED vars
    BY <1>2, <1>6 DEF vars, HInv, Started, Honest, Budget, Intact, Explained, InRead, InStream,
                      Excused, Exists
  <1> QED
    BY <1>3, <1>4, <1>5, <1>6 DEF Next

\* A call through the cell fails only when its own context was cancelled, when it
\* asks for too much, or when the process it was given for itself failed: never
\* because of the daemon, nor of what other calls did to it (cell.go BlobsBatch).
THEOREM DaemonFailsOpen == Spec => []FailsOpen
  <1>1. Init => IInv /\ FInv
    BY InitOK, InitHonest
  <1>2. IInv /\ FInv /\ [Next]_vars => IInv' /\ FInv'
    BY StepOK, StepHonest
  <1>3. IInv /\ FInv => FailsOpen
    BY DEF FInv, HInv, Honest, Explained, FailsOpen
  <1> QED
    BY <1>1, <1>2, <1>3, PTL DEF Spec
=============================================================================
