--------------------------- MODULE FileSinkProofs ---------------------------
(***************************************************************************)
(* Proofs about FileSink for any number of goroutines, any event bodies,   *)
(* files of any length and any subset of the faults.                       *)
(***************************************************************************)
EXTENDS FileSink, SequenceTheorems, WellFoundedInduction, TLAPS

-----------------------------------------------------------------------------
(* The inductive invariant.                                                *)

\* The mutex: whoever is inside Emit holds it, and the sink is open.
Mutex == \A g \in Callers : pc[g] # "idle" => mu = g /\ up = "open"

\* The event being emitted is linked to the current chain head; once
\* written it is the last chunk and nothing was reported for it yet.
InFlight ==
  \A g \in Callers :
    /\ pc[g] # "idle" =>
         /\ ev[g] \in Event
         /\ ev[g].hash = ComputeEventHash(ev[g].body, lastHash)
    /\ pc[g] = "sync" =>
         /\ Len(file) > 0
         /\ ev[g].at = Len(file)
         /\ file[Len(file)].body = ev[g].body
         /\ file[Len(file)].hash = ev[g].hash
         /\ file[Len(file)].part = "line"
         /\ file[Len(file)].st = "pending"

\* What was acknowledged is a whole line and durable.
AckedDurable ==
  \A i \in 1 .. Len(file) :
    file[i].st = "ok" => file[i].part = "line" /\ i <= durable

\* The head of the chain commits to every acknowledged, readable record.
HeadCommits ==
  up = "open" =>
    \A k \in 1 .. Len(file) :
      file[k].st = "ok" /\ Readable(k) => Covers(lastHash, file[k].hash)

\* The digest a chunk at position i is chained to when all is well.
Before(i) == IF i = 1 THEN NoHash ELSE file[i - 1].hash

CleanBelow(i) == \A k \in 1 .. i - 1 : Clean(k)

\* As long as the file is clean, each chunk is chained to the one before it.
Linked ==
  \A i \in 1 .. Len(file) :
    CleanBelow(i) => file[i].hash = ComputeEventHash(file[i].body, Before(i))

\* As long as the file is clean, its last chunk is the head of the chain.
HeadLinked ==
  up = "open" /\ CleanBelow(Len(file) + 1)
              /\ (\A g \in Callers : pc[g] # "sync")
    => lastHash = Before(Len(file) + 1)

IInv == /\ TypeOK
        /\ Mutex
        /\ InFlight
        /\ AckedDurable
        /\ HeadCommits
        /\ LaterRecordsCommit
        /\ Linked
        /\ HeadLinked

-----------------------------------------------------------------------------
(* Facts about digests and about the file as a sequence.                   *)

\* Chaining an event keeps everything the digest committed to.
LEMMA CoversAppend ==
  ASSUME NEW h \in Hash, NEW e \in Hash, NEW b \in Body, Covers(h, e)
  PROVE  Covers(ComputeEventHash(b, h), e)
BY DEF Covers, ComputeEventHash, Hash

\* A digest commits to itself.
LEMMA CoversItself ==
  ASSUME NEW h \in Hash
  PROVE  Covers(h, h)
BY DEF Covers, Hash

\* Digests are digests of something.
LEMMA HashType ==
  ASSUME NEW h \in Hash, NEW b \in Body
  PROVE  ComputeEventHash(b, h) \in Hash /\ NoHash \in Hash
BY DEF ComputeEventHash, Hash, NoHash

\* A nonempty set of positions up to n has a largest one.
LEMMA LargestPosition ==
  ASSUME NEW n \in Nat, NEW S \in SUBSET (1 .. n), S # {}
  PROVE  \E i \in S : \A j \in S : j <= i
<1> DEFINE T == {k \in Nat : n - k \in S}
<1>1. T \subseteq Nat /\ T # {}
  <2>1. PICK i \in S : TRUE
    OBVIOUS
  <2>2. n - i \in T
    BY <2>1
  <2> QED
    BY <2>2
<1>2. PICK x \in T : \A y \in T : ~ (<<y, x>> \in OpToRel(<, Nat))
  BY <1>1, NatLessThanWellFounded, WFMin
<1>3. \A y \in T : ~ (y < x)
  BY <1>1, <1>2 DEF OpToRel
<1>4. n - x \in S
  BY <1>2
<1>5. ASSUME NEW j \in S PROVE j <= n - x
  <2>1. n - j \in T
    OBVIOUS
  <2>2. ~ (n - j < x)
    BY <2>1, <1>3
  <2> QED
    BY <2>2
<1> QED
  BY <1>4, <1>5

\* The head hash is that of the last readable chunk, if there is one.
LEMMA HeadHashIsLast ==
  ASSUME NEW n \in Nat, \E i \in 1 .. n : Readable(i)
  PROVE  \E h \in 1 .. n :
           /\ Readable(h)
           /\ \A j \in 1 .. n : Readable(j) => j <= h
           /\ HeadHash(n) = file[h].hash
<1> DEFINE S == {i \in 1 .. n : Readable(i)}
           P(i) == Readable(i) /\ \A j \in 1 .. n : Readable(j) => j <= i
<1>1. \E i \in S : \A j \in S : j <= i
  BY LargestPosition
<1>2. \E i \in 1 .. n : P(i)
  BY <1>1
<1> DEFINE h == CHOOSE i \in 1 .. n : P(i)
<1>3. h \in 1 .. n /\ P(h)
  BY <1>2
<1>4. HeadHash(n) = file[h].hash
  BY DEF HeadHash
<1> QED
  BY <1>3, <1>4

\* Among no chunks there is no head: a new file starts the chain.
LEMMA HeadHashNone ==
  ASSUME NEW n \in Nat, ~ \E i \in 1 .. n : Readable(i)
  PROVE  HeadHash(n) = NoHash
BY DEF HeadHash

\* Below a point where everything is clean, the head is the last chunk.
LEMMA CleanHead ==
  ASSUME TypeOK, NEW n \in 0 .. Len(file), CleanBelow(n + 1)
  PROVE  HeadHash(n) = Before(n + 1)
<1>1. CASE n = 0
  BY <1>1, HeadHashNone DEF Before
<1>2. CASE n > 0
  <2>1. Readable(n)
    BY <1>2 DEF Readable, CleanBelow, Clean, TypeOK
  <2>2. PICK h \in 1 .. n : /\ Readable(h)
                            /\ \A j \in 1 .. n : Readable(j) => j <= h
                            /\ HeadHash(n) = file[h].hash
    BY <1>2, <2>1, HeadHashIsLast DEF TypeOK
  <2>3. h = n
    BY <1>2, <2>1, <2>2
  <2> QED
    BY <1>2, <2>2, <2>3 DEF Before
<1> QED
  BY <1>1, <1>2

\* With the invariant, every valid line above clean chunks verifies.
LEMMA LinkedVerifies ==
  ASSUME TypeOK, Linked
  PROVE  IntactPrefixVerifies
<1> SUFFICES ASSUME NEW i \in 1 .. Len(file), CleanBelow(i)
             PROVE  Verifies(i)
  BY DEF IntactPrefixVerifies, CleanBelow
<1>1. i - 1 \in 0 .. Len(file) /\ i - 1 + 1 = i
  BY DEF TypeOK
<1>2. HeadHash(i - 1) = Before(i)
  BY <1>1, CleanHead
<1> QED
  BY <1>2 DEF Linked, Verifies

-----------------------------------------------------------------------------
(* What each way of changing the file does to the invariant.               *)

\* Writing a chunk chained to the head, whole or in part.
LEMMA AppendChunk ==
  ASSUME IInv, up = "open", \A g \in Callers : pc[g] # "sync",
         NEW c \in Chunk, c.st # "ok",
         c.hash = ComputeEventHash(c.body, lastHash),
         file' = Append(file, c)
  PROVE  /\ file' \in Seq(Chunk)
         /\ Len(file') = Len(file) + 1
         /\ file'[Len(file) + 1] = c
         /\ \A i \in 1 .. Len(file) : file'[i] = file[i]
         /\ \A i \in 1 .. Len(file) : Readable(i)' => Readable(i)
         /\ LaterRecordsCommit'
         /\ Linked'
<1>1. /\ file \in Seq(Chunk) /\ Len(file) \in Nat
      /\ lastHash \in Hash
  BY DEF IInv, TypeOK
<1>2. /\ file' \in Seq(Chunk)
      /\ Len(file') = Len(file) + 1
      /\ file'[Len(file) + 1] = c
      /\ \A i \in 1 .. Len(file) : file'[i] = file[i]
  BY <1>1
<1>3. \A i \in 1 .. Len(file) : Readable(i)' => Readable(i)
  BY <1>1, <1>2 DEF Readable
<1>4. LaterRecordsCommit'
  <2> SUFFICES ASSUME NEW i \in 1 .. Len(file) + 1, NEW k \in 1 .. Len(file) + 1,
                      k < i, file'[k].st = "ok", Readable(k)'
               PROVE  Covers(file'[i].hash, file'[k].hash)
    BY <1>1, <1>2 DEF LaterRecordsCommit
  <2>1. /\ k \in 1 .. Len(file) /\ file'[k] = file[k]
        /\ file[k].st = "ok" /\ Readable(k)
    BY <1>1, <1>2, <1>3
  <2>2. CASE i \in 1 .. Len(file)
    BY <1>2, <2>1, <2>2 DEF IInv, LaterRecordsCommit
  <2>3. CASE i = Len(file) + 1
    <3>1. Covers(lastHash, file[k].hash)
      BY <2>1 DEF IInv, HeadCommits
    <3>2. file[k] \in Chunk
      BY <1>1, <2>1
    <3>3. file[k].hash \in Hash /\ c.body \in Body
      BY <3>2 DEF Chunk
    <3> QED
      BY <1>1, <1>2, <2>1, <2>3, <3>1, <3>3, CoversAppend
  <2> QED
    BY <2>2, <2>3
<1>5. Linked'
  <2> SUFFICES ASSUME NEW i \in 1 .. Len(file) + 1, CleanBelow(i)'
               PROVE  file'[i].hash
                        = ComputeEventHash(file'[i].body, Before(i)')
    BY <1>1, <1>2 DEF Linked
  <2>1. CleanBelow(i) /\ Before(i)' = Before(i)
    BY <1>1, <1>2 DEF CleanBelow, Clean, Before
  <2>2. CASE i \in 1 .. Len(file)
    BY <1>2, <2>1, <2>2 DEF IInv, Linked
  <2>3. CASE i = Len(file) + 1
    <3>1. lastHash = Before(Len(file) + 1)
      BY <2>1, <2>3 DEF IInv, HeadLinked
    <3> QED
      BY <1>2, <2>1, <2>3, <3>1
  <2> QED
    BY <2>2, <2>3
<1> QED
  BY <1>2, <1>3, <1>4, <1>5

\* Reporting the outcome of the last chunk.
LEMMA ReportLast ==
  ASSUME IInv, Len(file) > 0, NEW s \in {"ok", "failed"},
         file[Len(file)].st = "pending", file[Len(file)].part = "line",
         file' = [file EXCEPT ![Len(file)].st = s]
  PROVE  /\ file' \in Seq(Chunk)
         /\ Len(file') = Len(file)
         /\ file'[Len(file)] = [file[Len(file)] EXCEPT !.st = s]
         /\ \A i \in 1 .. Len(file) : i # Len(file) => file'[i] = file[i]
         /\ \A i \in 1 .. Len(file) :
              /\ file'[i].body = file[i].body
              /\ file'[i].hash = file[i].hash
              /\ file'[i].part = file[i].part
         /\ \A i \in 1 .. Len(file) : Readable(i)' <=> Readable(i)
         /\ LaterRecordsCommit'
         /\ Linked'
<1>1. file \in Seq(Chunk) /\ Len(file) \in Nat /\ Len(file) \in 1 .. Len(file)
  BY DEF IInv, TypeOK
<1>2. [file[Len(file)] EXCEPT !.st = s] \in Chunk
  <2>1. file[Len(file)] \in Chunk
    BY <1>1
  <2> QED
    BY <2>1 DEF Chunk
<1>3. /\ file' \in Seq(Chunk)
      /\ Len(file') = Len(file)
      /\ file'[Len(file)] = [file[Len(file)] EXCEPT !.st = s]
      /\ \A i \in 1 .. Len(file) : i # Len(file) => file'[i] = file[i]
  BY <1>1, <1>2, ExceptSeq
<1>4. \A i \in 1 .. Len(file) : /\ file'[i].body = file[i].body
                                /\ file'[i].hash = file[i].hash
                                /\ file'[i].part = file[i].part
  <2>1. file[Len(file)] \in Chunk
    BY <1>1
  <2> QED
    BY <1>1, <1>3, <2>1 DEF Chunk
<1>5. \A i \in 1 .. Len(file) : Readable(i)' <=> Readable(i)
  BY <1>1, <1>3, <1>4 DEF Readable
<1>6. LaterRecordsCommit'
  BY <1>1, <1>3, <1>4, <1>5 DEF IInv, LaterRecordsCommit
<1>7. Linked'
  <2> SUFFICES ASSUME NEW i \in 1 .. Len(file), CleanBelow(i)'
               PROVE  file'[i].hash
                        = ComputeEventHash(file'[i].body, Before(i)')
    BY <1>1, <1>3 DEF Linked
  <2>1. CleanBelow(i) /\ Before(i)' = Before(i)
    BY <1>1, <1>3, <1>4 DEF CleanBelow, Clean, Before
  <2> QED
    BY <1>4, <2>1 DEF IInv, Linked
<1> QED
  BY <1>3, <1>4, <1>5, <1>6, <1>7

\* Losing an unsynced tail: what remains is a prefix of the file, except
\* that the part of its last chunk may have changed.
LEMMA LoseTail ==
  ASSUME IInv, NEW k \in durable .. Len(file),
         \/ file' = SubSeq(file, 1, k)
         \/ /\ k < Len(file)
            /\ \E part \in {"json", "cut"} :
                 file' = Append(SubSeq(file, 1, k),
                                [file[k + 1] EXCEPT !.part = part])
  PROVE  /\ file' \in Seq(Chunk)
         /\ Len(file') \in k .. Len(file)
         /\ Len(file') <= k + 1
         /\ \A i \in 1 .. k : file'[i] = file[i]
         /\ \A i \in 1 .. Len(file') : /\ file'[i].body = file[i].body
                                        /\ file'[i].hash = file[i].hash
                                        /\ file'[i].st = file[i].st
<1>1. /\ file \in Seq(Chunk) /\ Len(file) \in Nat
      /\ k \in Nat /\ k <= Len(file)
  BY DEF IInv, TypeOK
<1> DEFINE pre == SubSeq(file, 1, k)
<1>2. /\ pre \in Seq(Chunk) /\ Len(pre) = k
      /\ \A i \in 1 .. k : pre[i] = file[i]
  BY <1>1
<1>3. CASE file' = pre
  BY <1>1, <1>2, <1>3
<1>4. ASSUME k < Len(file), NEW part \in {"json", "cut"},
             file' = Append(pre, [file[k + 1] EXCEPT !.part = part])
      PROVE  /\ file' \in Seq(Chunk)
             /\ Len(file') \in k .. Len(file)
             /\ Len(file') <= k + 1
             /\ \A i \in 1 .. k : file'[i] = file[i]
             /\ \A i \in 1 .. Len(file') : /\ file'[i].body = file[i].body
                                            /\ file'[i].hash = file[i].hash
                                            /\ file'[i].st = file[i].st
  <2> DEFINE c == [file[k + 1] EXCEPT !.part = part]
  <2>1. k + 1 \in 1 .. Len(file) /\ file[k + 1] \in Chunk
    BY <1>1, <1>4
  <2>2. /\ c \in Chunk /\ c.body = file[k + 1].body
        /\ c.hash = file[k + 1].hash /\ c.st = file[k + 1].st
    BY <2>1, <1>4 DEF Chunk
  <2> HIDE DEF c
  <2> HIDE DEF pre
  <2>3. file' = Append(pre, c)
    BY <1>4 DEF c
  <2>4. /\ file' \in Seq(Chunk) /\ Len(file') = k + 1
        /\ file'[k + 1] = c
        /\ \A i \in 1 .. k : file'[i] = pre[i]
    BY <1>1, <1>2, <2>2, <2>3
  <2> QED
    BY <1>1, <1>2, <1>4, <2>2, <2>4
<1> QED
  BY <1>3, <1>4

-----------------------------------------------------------------------------
(* The invariant is inductive.                                             *)

\* The empty file satisfies the invariant.
LEMMA InitInvariant == Init => IInv
<1> SUFFICES ASSUME Init PROVE IInv
  OBVIOUS
<1>1. file = <<>> /\ Len(file) = 0 /\ file \in Seq(Chunk)
  BY DEF Init
<1>2. TypeOK
  BY <1>1 DEF Init, TypeOK, Hash, NoHash
<1>3. Mutex /\ InFlight /\ HeadCommits /\ HeadLinked
  BY DEF Init, Mutex, InFlight, HeadCommits, HeadLinked
<1>4. AckedDurable /\ LaterRecordsCommit /\ Linked
  BY <1>1 DEF AckedDurable, LaterRecordsCommit, Linked
<1> QED
  BY <1>2, <1>3, <1>4 DEF IInv

\* A step that leaves the file alone keeps what is said of the file alone.
LEMMA FileKept ==
  ASSUME IInv, UNCHANGED file
  PROVE  LaterRecordsCommit' /\ Linked'
BY DEF IInv, LaterRecordsCommit, Linked, Readable, CleanBelow, Clean, Before

\* Only the holder of the mutex is inside Emit.
LEMMA OthersIdle ==
  ASSUME IInv, NEW g \in Callers, pc[g] # "idle"
  PROVE  /\ up = "open"
         /\ \A h \in Callers : h # g => pc[h] = "idle"
BY DEF IInv, Mutex

\* Recovery: the head read from the file is the one the invariant asks for.
LEMMA NewFileSinkInvariant == IInv /\ NewFileSink => IInv'
<1> SUFFICES ASSUME IInv, NewFileSink PROVE IInv'
  OBVIOUS
<1>1. /\ UNCHANGED <<file, durable, mu, pc, ev>>
      /\ up = "down" /\ up' = "open"
      /\ lastHash' = HeadHash(Len(file))
      /\ Len(file) \in Nat
  BY DEF NewFileSink, Open, readLastEventHash, IInv, TypeOK
<1>2. \A g \in Callers : pc[g] = "idle"
  BY <1>1 DEF IInv, Mutex
<1>3. /\ lastHash' \in Hash
      /\ \A k \in 1 .. Len(file) : file[k].st = "ok" /\ Readable(k)
                                   => Covers(lastHash', file[k].hash)
  <2>1. CASE \E i \in 1 .. Len(file) : Readable(i)
    <3>1. PICK h \in 1 .. Len(file) :
                 /\ Readable(h)
                 /\ \A j \in 1 .. Len(file) : Readable(j) => j <= h
                 /\ HeadHash(Len(file)) = file[h].hash
      BY <1>1, <2>1, HeadHashIsLast
    <3>2. file[h] \in Chunk
      BY DEF IInv, TypeOK
    <3>3. lastHash' \in Hash /\ lastHash' = file[h].hash
      BY <1>1, <3>1, <3>2 DEF Chunk
    <3>4. Covers(file[h].hash, file[h].hash)
      BY <3>3, CoversItself
    <3>5. ASSUME NEW k \in 1 .. Len(file), file[k].st = "ok", Readable(k)
          PROVE  Covers(lastHash', file[k].hash)
      <4>1. CASE k = h
        BY <3>3, <3>4, <4>1
      <4>2. CASE k # h
        BY <1>1, <3>1, <3>3, <3>5, <4>2 DEF IInv, LaterRecordsCommit
      <4> QED
        BY <4>1, <4>2
    <3> QED
      BY <3>3, <3>5
  <2>2. CASE ~ \E i \in 1 .. Len(file) : Readable(i)
    <3>1. lastHash' = NoHash /\ NoHash \in Hash
      BY <1>1, <2>2, HeadHashNone DEF Hash, NoHash
    <3> QED
      BY <2>2, <3>1
  <2> QED
    BY <2>1, <2>2
<1>4. TypeOK'
  BY <1>1, <1>3 DEF IInv, TypeOK
<1>5. Mutex' /\ InFlight'
  BY <1>1, <1>2 DEF Mutex, InFlight
<1>6. AckedDurable'
  BY <1>1 DEF IInv, AckedDurable
<1>7. HeadCommits'
  BY <1>1, <1>3 DEF HeadCommits, Readable
<1>8. HeadLinked'
  <2> SUFFICES ASSUME CleanBelow(Len(file) + 1)
               PROVE  lastHash' = Before(Len(file) + 1)
    BY <1>1 DEF HeadLinked, CleanBelow, Clean, Before
  <2>1. HeadHash(Len(file)) = Before(Len(file) + 1)
    BY <1>1, CleanHead DEF IInv
  <2> QED
    BY <1>1, <2>1
<1> QED
  BY <1>1, <1>4, <1>5, <1>6, <1>7, <1>8, FileKept DEF IInv

\* Linking an event to lastHash under the mutex.
LEMMA EmitLinkInvariant ==
  ASSUME NEW g \in Callers, NEW b \in Body, IInv, EmitLink(g, b)
  PROVE  IInv'
<1>1. /\ UNCHANGED <<file, durable, up, lastHash>>
      /\ up = "open" /\ mu = NoCaller /\ mu' = g
      /\ pc' = [pc EXCEPT ![g] = "write"]
  BY DEF EmitLink, Link
<1> DEFINE e == [body |-> b, prev |-> lastHash, at |-> 0,
                 hash |-> ComputeEventHash(b, lastHash)]
<1>2. ev' = [ev EXCEPT ![g] = e]
  BY DEF EmitLink, Link
<1>3. e \in Event
  BY HashType DEF IInv, TypeOK, Event
<1> HIDE DEF e
<1>4. /\ pc \in [Callers -> {"idle", "write", "sync"}]
      /\ ev \in [Callers -> Event \cup {NoEvent}]
      /\ ev'[g] = e /\ pc'[g] = "write"
      /\ \A h \in Callers : h # g => pc'[h] = pc[h] /\ ev'[h] = ev[h]
  BY <1>1, <1>2 DEF IInv, TypeOK
<1>5. \A h \in Callers : pc[h] = "idle"
  BY <1>1, CallersAssumption DEF IInv, Mutex
<1>6. TypeOK'
  BY <1>1, <1>2, <1>3, <1>4 DEF IInv, TypeOK
<1>7. Mutex'
  BY <1>1, <1>4, <1>5 DEF Mutex
<1>8. InFlight'
  BY <1>1, <1>3, <1>4, <1>5 DEF InFlight, e
<1>9. AckedDurable' /\ HeadCommits'
  BY <1>1 DEF IInv, AckedDurable, HeadCommits, Readable
<1>10. HeadLinked'
  BY <1>1, <1>5 DEF IInv, HeadLinked, CleanBelow, Clean, Before
<1> QED
  BY <1>1, <1>6, <1>7, <1>8, <1>9, <1>10, FileKept DEF IInv

\* What a returning Emit leaves behind: a free mutex and no event in flight.
LEMMA ReturnIdle ==
  ASSUME NEW g \in Callers, IInv, pc[g] # "idle", Return(g)
  PROVE  /\ mu' = NoCaller
         /\ pc' \in [Callers -> {"idle", "write", "sync"}]
         /\ ev' \in [Callers -> Event \cup {NoEvent}]
         /\ \A h \in Callers : pc'[h] = "idle"
         /\ Mutex' /\ InFlight'
<1>1. \A h \in Callers : pc'[h] = "idle"
  BY OthersIdle DEF Return, IInv, TypeOK
<1> QED
  BY <1>1 DEF Return, IInv, TypeOK, Mutex, InFlight

\* A whole line is appended; it is pending until the fsync.
LEMMA EmitWriteInvariant ==
  ASSUME NEW g \in Callers, IInv, EmitWrite(g)
  PROVE  IInv'
<1> DEFINE c == ChunkOf(g, "line", "pending")
<1>1. /\ pc[g] = "write" /\ up = "open"
      /\ UNCHANGED <<durable, up, lastHash, mu>>
      /\ file' = Append(file, c)
      /\ \A h \in Callers : h # g => pc[h] = "idle"
  BY OthersIdle DEF EmitWrite
<1>2. /\ ev[g] \in Event
      /\ ev[g].hash = ComputeEventHash(ev[g].body, lastHash)
  BY <1>1 DEF IInv, InFlight
<1>3. /\ c \in Chunk /\ c.st = "pending" /\ c.part = "line"
      /\ c.body = ev[g].body /\ c.hash = ev[g].hash
  BY <1>2 DEF ChunkOf, Chunk, Event
<1> HIDE DEF c
<1>4. /\ file' \in Seq(Chunk)
      /\ Len(file') = Len(file) + 1
      /\ file'[Len(file) + 1] = c
      /\ \A i \in 1 .. Len(file) : file'[i] = file[i]
      /\ \A i \in 1 .. Len(file) : Readable(i)' => Readable(i)
      /\ LaterRecordsCommit'
      /\ Linked'
  BY <1>1, <1>2, <1>3, AppendChunk
<1>5. Len(file) \in Nat /\ durable \in 0 .. Len(file)
  BY DEF IInv, TypeOK
<1> DEFINE e == [ev[g] EXCEPT !.at = Len(file) + 1]
<1>6. e \in Event /\ e.at = Len(file) + 1
      /\ e.body = ev[g].body /\ e.hash = ev[g].hash
  BY <1>2, <1>5 DEF Event
<1>7. /\ pc' = [pc EXCEPT ![g] = "sync"]
      /\ ev' = [ev EXCEPT ![g] = e]
  BY DEF EmitWrite
<1> HIDE DEF e
<1>8. /\ pc'[g] = "sync" /\ ev'[g] = e
      /\ \A h \in Callers : h # g => pc'[h] = "idle"
  BY <1>1, <1>7 DEF IInv, TypeOK
<1>9. TypeOK'
  BY <1>1, <1>4, <1>5, <1>6, <1>7 DEF IInv, TypeOK
<1>10. Mutex'
  BY <1>1, <1>8 DEF IInv, Mutex
<1>11. InFlight'
  BY <1>1, <1>2, <1>3, <1>4, <1>5, <1>6, <1>8 DEF InFlight
<1>12. AckedDurable'
  BY <1>1, <1>3, <1>4, <1>5 DEF IInv, AckedDurable
<1>13. HeadCommits'
  BY <1>1, <1>3, <1>4, <1>5 DEF IInv, HeadCommits
<1>14. HeadLinked'
  BY <1>8 DEF HeadLinked
<1> QED
  BY <1>4, <1>9, <1>10, <1>11, <1>12, <1>13, <1>14 DEF IInv

\* A failed write leaves nothing or an unterminated piece behind.
LEMMA EmitWriteFailsInvariant ==
  ASSUME NEW g \in Callers, IInv, EmitWriteFails(g)
  PROVE  IInv'
<1>1. /\ pc[g] = "write" /\ up = "open"
      /\ UNCHANGED <<durable, up, lastHash>> /\ Return(g)
      /\ \A h \in Callers : pc[h] # "sync"
  BY OthersIdle DEF EmitWriteFails
<1>2. /\ mu' = NoCaller
      /\ pc' \in [Callers -> {"idle", "write", "sync"}]
      /\ ev' \in [Callers -> Event \cup {NoEvent}]
      /\ Mutex' /\ InFlight'
  BY <1>1, ReturnIdle
<1>3. CASE file' = file
  <2>1. TypeOK' /\ AckedDurable' /\ HeadCommits'
    BY <1>1, <1>2, <1>3 DEF IInv, TypeOK, AckedDurable, HeadCommits, Readable
  <2>2. HeadLinked'
    BY <1>1, <1>3 DEF IInv, HeadLinked, CleanBelow, Clean, Before
  <2> QED
    BY <1>2, <1>3, <2>1, <2>2, FileKept DEF IInv
<1>4. ASSUME NEW part \in {"json", "cut"},
             file' = Append(file, ChunkOf(g, part, "failed"))
      PROVE  IInv'
  <2> DEFINE c == ChunkOf(g, part, "failed")
  <2>1. /\ ev[g] \in Event
        /\ ev[g].hash = ComputeEventHash(ev[g].body, lastHash)
    BY <1>1 DEF IInv, InFlight
  <2>2. /\ c \in Chunk /\ c.st = "failed"
        /\ c.body = ev[g].body /\ c.hash = ev[g].hash
    BY <2>1, <1>4 DEF ChunkOf, Chunk, Event
  <2> HIDE DEF c
  <2>3. file' = Append(file, c)
    BY <1>4 DEF c
  <2>4. /\ file' \in Seq(Chunk)
        /\ Len(file') = Len(file) + 1
        /\ file'[Len(file) + 1] = c
        /\ \A i \in 1 .. Len(file) : file'[i] = file[i]
        /\ \A i \in 1 .. Len(file) : Readable(i)' => Readable(i)
        /\ LaterRecordsCommit'
        /\ Linked'
    BY <1>1, <2>1, <2>2, <2>3, AppendChunk
  <2>5. Len(file) \in Nat /\ durable \in 0 .. Len(file)
    BY DEF IInv, TypeOK
  <2>6. TypeOK'
    BY <1>1, <1>2, <2>4, <2>5 DEF IInv, TypeOK
  <2>7. AckedDurable' /\ HeadCommits'
    BY <1>1, <2>2, <2>4, <2>5 DEF IInv, AckedDurable, HeadCommits
  <2>8. HeadLinked'
    BY <2>2, <2>4, <2>5 DEF HeadLinked, CleanBelow, Clean
  <2> QED
    BY <1>2, <2>4, <2>6, <2>7, <2>8 DEF IInv
<1> QED
  BY <1>3, <1>4 DEF EmitWriteFails

\* The acknowledgement, when lastHash advances.
LEMMA EmitSyncInvariant ==
  ASSUME NEW g \in Callers, IInv, EmitSync(g)
  PROVE  IInv'
<1>1. /\ pc[g] = "sync" /\ up = "open"
      /\ up' = up /\ Return(g)
      /\ durable' = Len(file) /\ lastHash' = ev[g].hash
  BY OthersIdle DEF EmitSync, Synced
<1>2. /\ Len(file) > 0 /\ ev[g].at = Len(file)
      /\ file[Len(file)].hash = ev[g].hash
      /\ file[Len(file)].part = "line"
      /\ file[Len(file)].st = "pending"
      /\ ev[g] \in Event
  BY <1>1 DEF IInv, InFlight
<1>3. file' = [file EXCEPT ![Len(file)].st = "ok"]
  BY <1>2 DEF EmitSync, Synced
<1>4. /\ file' \in Seq(Chunk)
      /\ Len(file') = Len(file)
      /\ \A i \in 1 .. Len(file) : i # Len(file) => file'[i] = file[i]
      /\ \A i \in 1 .. Len(file) : /\ file'[i].hash = file[i].hash
                                    /\ file'[i].part = file[i].part
      /\ LaterRecordsCommit'
      /\ Linked'
  BY <1>2, <1>3, ReportLast
<1>5. /\ mu' = NoCaller
      /\ pc' \in [Callers -> {"idle", "write", "sync"}]
      /\ ev' \in [Callers -> Event \cup {NoEvent}]
      /\ Mutex' /\ InFlight'
  BY <1>1, ReturnIdle
<1>6. Len(file) \in Nat /\ Len(file) \in 1 .. Len(file)
  BY <1>2 DEF IInv, TypeOK
<1>7. lastHash' \in Hash /\ lastHash' = file'[Len(file)].hash
  BY <1>1, <1>2, <1>4, <1>6 DEF Event
<1>8. TypeOK'
  BY <1>1, <1>4, <1>5, <1>6, <1>7 DEF IInv, TypeOK
<1>9. AckedDurable'
  BY <1>1, <1>2, <1>4, <1>6 DEF IInv, AckedDurable
<1>10. HeadCommits'
  <2> SUFFICES ASSUME NEW k \in 1 .. Len(file),
                      file'[k].st = "ok", Readable(k)'
               PROVE  Covers(lastHash', file'[k].hash)
    BY <1>4 DEF HeadCommits
  <2>1. CASE k = Len(file)
    BY <1>7, <2>1, CoversItself
  <2>2. CASE k # Len(file)
    BY <1>4, <1>6, <1>7, <2>2 DEF LaterRecordsCommit
  <2> QED
    BY <2>1, <2>2
<1>11. HeadLinked'
  BY <1>4, <1>6, <1>7 DEF HeadLinked, Before
<1> QED
  BY <1>4, <1>5, <1>8, <1>9, <1>10, <1>11 DEF IInv

\* A failed fsync leaves a whole line that lastHash does not follow.
LEMMA EmitSyncFailsInvariant ==
  ASSUME NEW g \in Callers, IInv, EmitSyncFails(g)
  PROVE  IInv'
<1>1. /\ pc[g] = "sync"
      /\ UNCHANGED <<durable, up, lastHash>> /\ Return(g)
  BY DEF EmitSyncFails
<1>2. /\ Len(file) > 0 /\ ev[g].at = Len(file)
      /\ file[Len(file)].part = "line"
      /\ file[Len(file)].st = "pending"
  BY <1>1 DEF IInv, InFlight
<1>3. file' = [file EXCEPT ![Len(file)].st = "failed"]
  BY <1>2 DEF EmitSyncFails
<1>4. /\ file' \in Seq(Chunk)
      /\ Len(file') = Len(file)
      /\ file'[Len(file)] = [file[Len(file)] EXCEPT !.st = "failed"]
      /\ \A i \in 1 .. Len(file) : i # Len(file) => file'[i] = file[i]
      /\ \A i \in 1 .. Len(file) : Readable(i)' <=> Readable(i)
      /\ LaterRecordsCommit'
      /\ Linked'
  BY <1>2, <1>3, ReportLast
<1>5. /\ mu' = NoCaller
      /\ pc' \in [Callers -> {"idle", "write", "sync"}]
      /\ ev' \in [Callers -> Event \cup {NoEvent}]
      /\ Mutex' /\ InFlight'
  BY <1>1, ReturnIdle
<1>6. Len(file) \in Nat /\ Len(file) \in 1 .. Len(file)
  BY <1>2 DEF IInv, TypeOK
<1>7. file'[Len(file)].st = "failed"
  <2>1. file[Len(file)] \in Chunk
    BY <1>6 DEF IInv, TypeOK
  <2> QED
    BY <1>4, <2>1 DEF Chunk
<1>8. TypeOK'
  BY <1>1, <1>4, <1>5 DEF IInv, TypeOK
<1>9. AckedDurable' /\ HeadCommits'
  BY <1>1, <1>4, <1>6, <1>7 DEF IInv, AckedDurable, HeadCommits
<1>10. HeadLinked'
  <2>1. Len(file') \in 1 .. (Len(file') + 1) - 1
    BY <1>4, <1>6
  <2>2. file'[Len(file')].st = "failed"
    BY <1>4, <1>7
  <2>3. ~ CleanBelow(Len(file) + 1)'
    BY <2>1, <2>2 DEF CleanBelow, Clean
  <2> QED
    BY <2>3 DEF HeadLinked
<1> QED
  BY <1>4, <1>5, <1>8, <1>9, <1>10 DEF IInv

\* Close changes nothing but the state of the sink.
LEMMA CloseInvariant == IInv /\ Close => IInv'
<1> SUFFICES ASSUME IInv, Close PROVE IInv'
  OBVIOUS
<1>1. UNCHANGED <<file, durable, lastHash, mu, pc, ev>> /\ up' = "closed"
  BY DEF Close
<1>2. \A g \in Callers : pc[g] = "idle"
  BY CallersAssumption DEF Close, IInv, Mutex
<1>3. TypeOK' /\ AckedDurable' /\ HeadCommits' /\ HeadLinked'
  BY <1>1 DEF IInv, TypeOK, AckedDurable, HeadCommits, HeadLinked
<1>4. Mutex' /\ InFlight'
  BY <1>1, <1>2 DEF Mutex, InFlight
<1> QED
  BY <1>1, <1>3, <1>4, FileKept DEF IInv

\* Once the process is gone nothing is said of its memory.
LEMMA GoneIdle ==
  ASSUME ProcessGone
  PROVE  /\ up' = "down" /\ mu' = NoCaller /\ lastHash' \in Hash
         /\ pc' \in [Callers -> {"idle", "write", "sync"}]
         /\ ev' \in [Callers -> Event \cup {NoEvent}]
         /\ Mutex' /\ InFlight' /\ HeadCommits' /\ HeadLinked'
BY DEF ProcessGone, Mutex, InFlight, HeadCommits, HeadLinked, Hash, NoHash

\* A dead process leaves the file as it is.
LEMMA ProcessDiesInvariant == IInv /\ ProcessDies => IInv'
<1> SUFFICES ASSUME IInv, ProcessDies PROVE IInv'
  OBVIOUS
<1>1. UNCHANGED <<file, durable>> /\ ProcessGone
  BY DEF ProcessDies
<1>2. TypeOK' /\ AckedDurable'
  BY <1>1, GoneIdle DEF IInv, TypeOK, AckedDurable
<1> QED
  BY <1>1, <1>2, GoneIdle, FileKept DEF IInv

\* A power loss cuts the file at or after its durable prefix.
LEMMA PowerLossInvariant == IInv /\ PowerLoss => IInv'
<1> SUFFICES ASSUME IInv, PowerLoss PROVE IInv'
  OBVIOUS
<1>1. durable' = Len(file') /\ ProcessGone
  BY DEF PowerLoss
<1>2. PICK k \in durable .. Len(file) :
        \/ file' = SubSeq(file, 1, k)
        \/ /\ k < Len(file)
           /\ \E part \in {"json", "cut"} :
                file' = Append(SubSeq(file, 1, k),
                               [file[k + 1] EXCEPT !.part = part])
  BY DEF PowerLoss
<1>3. /\ file' \in Seq(Chunk)
      /\ Len(file') \in k .. Len(file)
      /\ Len(file') <= k + 1
      /\ \A i \in 1 .. k : file'[i] = file[i]
      /\ \A i \in 1 .. Len(file') : /\ file'[i].body = file[i].body
                                     /\ file'[i].hash = file[i].hash
                                     /\ file'[i].st = file[i].st
  BY <1>2, LoseTail
<1>4. Len(file) \in Nat /\ durable \in Nat /\ k \in Nat /\ durable <= k
  BY DEF IInv, TypeOK
<1>5. Len(file') \in Nat /\ Len(file') <= Len(file)
  BY <1>3, <1>4
<1>6. TypeOK'
  BY <1>1, <1>3, <1>5, GoneIdle DEF TypeOK
<1>7. \A i \in 1 .. Len(file') : file'[i].st = "ok" =>
          /\ i <= durable /\ i <= k /\ file[i].st = "ok"
          /\ file'[i] = file[i] /\ file[i].part = "line"
  BY <1>3, <1>4, <1>5 DEF IInv, AckedDurable
<1>8. AckedDurable'
  BY <1>1, <1>5, <1>7 DEF AckedDurable
<1>9. LaterRecordsCommit'
  <2> SUFFICES ASSUME NEW i \in 1 .. Len(file'), NEW j \in 1 .. Len(file'),
                      j < i, file'[j].st = "ok", Readable(j)'
               PROVE  Covers(file'[i].hash, file'[j].hash)
    BY DEF LaterRecordsCommit
  <2>1. Readable(j)
    BY <1>3, <1>4, <1>5, <1>7 DEF Readable
  <2> QED
    BY <1>3, <1>4, <1>5, <1>7, <2>1 DEF IInv, LaterRecordsCommit
<1>10. Linked'
  <2> SUFFICES ASSUME NEW i \in 1 .. Len(file'), CleanBelow(i)'
               PROVE  file'[i].hash
                        = ComputeEventHash(file'[i].body, Before(i)')
    BY DEF Linked
  <2>1. CleanBelow(i) /\ Before(i)' = Before(i)
    BY <1>3, <1>4, <1>5 DEF CleanBelow, Clean, Before
  <2> QED
    BY <1>3, <1>4, <1>5, <2>1 DEF IInv, Linked
<1> QED
  BY <1>1, <1>6, <1>8, <1>9, <1>10, GoneIdle DEF IInv

\* Every step of the sink keeps the invariant.
LEMMA NextInvariant == IInv /\ [Next]_vars => IInv'
<1> SUFFICES ASSUME IInv, [Next]_vars PROVE IInv'
  OBVIOUS
<1>1. CASE UNCHANGED vars
  <2>1. TypeOK' /\ Mutex' /\ InFlight' /\ AckedDurable'
    BY <1>1 DEF vars, IInv, TypeOK, Mutex, InFlight, AckedDurable
  <2>2. HeadCommits' /\ HeadLinked'
    BY <1>1 DEF vars, IInv, HeadCommits, HeadLinked, Readable, CleanBelow,
                Clean, Before
  <2> QED
    BY <1>1, <2>1, <2>2, FileKept DEF vars, IInv
<1>2. ASSUME NEW g \in Callers, Emit(g) PROVE IInv'
  BY <1>2, EmitLinkInvariant, EmitWriteInvariant, EmitWriteFailsInvariant,
     EmitSyncInvariant, EmitSyncFailsInvariant DEF Emit
<1> QED
  BY <1>1, <1>2, NewFileSinkInvariant, CloseInvariant, ProcessDiesInvariant,
     PowerLossInvariant DEF Next

-----------------------------------------------------------------------------
(* The theorems.                                                           *)

(***************************************************************************)
(* The inductive invariant holds in every reachable state of the sink.     *)
(***************************************************************************)
THEOREM Invariant == Spec => []IInv
BY InitInvariant, NextInvariant, PTL DEF Spec

(***************************************************************************)
(* Type correctness of the file, the mutex and the goroutines in Emit.     *)
(***************************************************************************)
THEOREM TypeCorrect == Spec => []TypeOK
<1>1. IInv => TypeOK
  BY DEF IInv
<1> QED
  BY <1>1, Invariant, PTL

(***************************************************************************)
(* VerifyChain accepts every valid line above which nothing was damaged,   *)
(* whatever processes and goroutines wrote the file.                       *)
(***************************************************************************)
THEOREM IntactPrefix == Spec => []IntactPrefixVerifies
<1>1. IInv => IntactPrefixVerifies
  BY LinkedVerifies DEF IInv
<1> QED
  BY <1>1, Invariant, PTL

(***************************************************************************)
(* Tamper evidence: every record written after an acknowledged, readable   *)
(* one commits to it, whatever faults and restarts come between.           *)
(***************************************************************************)
THEOREM TamperEvidence == Spec => []LaterRecordsCommit
<1>1. IInv => LaterRecordsCommit
  BY DEF IInv
<1> QED
  BY <1>1, Invariant, PTL

\* The acknowledged log changes only if some chunk's report or body does.
LEMMA SameLog ==
  ASSUME Len(file) \in Nat, Len(file') \in Nat,
         \A i \in 1 .. Len(file) : file[i].st = "ok" =>
           i <= Len(file') /\ file'[i].st = "ok" /\ file'[i].body = file[i].body,
         \A i \in 1 .. Len(file') : file'[i].st = "ok" =>
           i <= Len(file) /\ file[i].st = "ok"
  PROVE  Acknowledged' = Acknowledged
<1>1. ASSUME NEW r \in Acknowledged PROVE r \in Acknowledged'
  <2>1. PICK i \in 1 .. Len(file) :
           file[i].st = "ok" /\ r = [pos |-> i, body |-> file[i].body]
    BY DEF Acknowledged
  <2>2. i \in 1 .. Len(file') /\ file'[i].st = "ok"
        /\ file'[i].body = file[i].body
    BY <2>1
  <2> QED
    BY <2>1, <2>2 DEF Acknowledged
<1>2. ASSUME NEW r \in Acknowledged' PROVE r \in Acknowledged
  <2>1. PICK i \in 1 .. Len(file') :
           file'[i].st = "ok" /\ r = [pos |-> i, body |-> file'[i].body]
    BY DEF Acknowledged
  <2>2. i \in 1 .. Len(file) /\ file[i].st = "ok"
        /\ file'[i].body = file[i].body
    BY <2>1
  <2> QED
    BY <2>1, <2>2 DEF Acknowledged
<1> QED
  BY <1>1, <1>2

\* A successful fsync acknowledges the last chunk and nothing else.
LEMMA SyncAcknowledges ==
  ASSUME NEW g \in Callers, IInv, EmitSync(g)
  PROVE  Log!Next
<1>1. pc[g] = "sync" /\ file' = [file EXCEPT ![ev[g].at].st = "ok"]
  BY DEF EmitSync, Synced
<1>2. /\ Len(file) > 0 /\ ev[g].at = Len(file)
      /\ file[Len(file)].part = "line"
      /\ file[Len(file)].st = "pending"
  BY <1>1 DEF IInv, InFlight
<1> DEFINE n == Len(file)
<1>3. /\ n \in Nat /\ n \in 1 .. n /\ Len(file') = n
      /\ file'[n] = [file[n] EXCEPT !.st = "ok"]
      /\ \A i \in 1 .. n : i # n => file'[i] = file[i]
      /\ \A i \in 1 .. n : file'[i].body = file[i].body
  BY <1>1, <1>2, ReportLast DEF IInv, TypeOK
<1>4. file[n] \in Chunk
  BY <1>3 DEF IInv, TypeOK
<1>5. file'[n].st = "ok" /\ file'[n].body \in Body
  BY <1>3, <1>4 DEF Chunk
<1> DEFINE r == [pos |-> n, body |-> file'[n].body]
<1> HIDE DEF n
<1>6. Acknowledged' = Acknowledged \cup {r}
  <2>1. ASSUME NEW q \in Acknowledged PROVE q \in Acknowledged'
    <3>1. PICK i \in 1 .. n :
             file[i].st = "ok" /\ q = [pos |-> i, body |-> file[i].body]
      BY DEF Acknowledged, n
    <3>2. i # n
      BY <1>2, <3>1 DEF n
    <3> QED
      BY <1>3, <3>1, <3>2 DEF Acknowledged
  <2>2. r \in Acknowledged'
    BY <1>3, <1>5 DEF Acknowledged
  <2>3. ASSUME NEW q \in Acknowledged' PROVE q \in Acknowledged \cup {r}
    <3>1. PICK i \in 1 .. n :
             file'[i].st = "ok" /\ q = [pos |-> i, body |-> file'[i].body]
      BY <1>3 DEF Acknowledged
    <3>2. CASE i = n
      BY <3>1, <3>2
    <3>3. CASE i # n
      BY <1>3, <3>1, <3>3 DEF Acknowledged, n
    <3> QED
      BY <3>2, <3>3
  <2> QED
    BY <2>1, <2>2, <2>3
<1>7. \A q \in Acknowledged : q.pos < n
  <2> SUFFICES ASSUME NEW i \in 1 .. n, file[i].st = "ok"
               PROVE  i < n
    BY DEF Acknowledged, n
  <2> QED
    BY <1>2, <1>3 DEF n
<1>8. Log!Acknowledge(r)
  BY <1>3, <1>5, <1>6, <1>7 DEF Log!Acknowledge
<1> QED
  BY <1>6, <1>8 DEF Log!Next

\* A step acknowledges the last chunk or leaves the acknowledged log alone.
LEMMA StepRefines ==
  ASSUME IInv, [Next]_vars
  PROVE  Log!Next \/ UNCHANGED Acknowledged
<1>1. file \in Seq(Chunk) /\ Len(file) \in Nat
  BY DEF IInv, TypeOK
<1>2. ASSUME UNCHANGED file PROVE UNCHANGED Acknowledged
  BY <1>2 DEF Acknowledged
<1>3. ASSUME NEW c, c.st # "ok", file' = Append(file, c)
      PROVE  UNCHANGED Acknowledged
  <2>1. /\ Len(file') = Len(file) + 1 /\ file'[Len(file) + 1] = c
        /\ \A i \in 1 .. Len(file) : file'[i] = file[i]
    BY <1>1, <1>3
  <2> QED
    BY <1>1, <1>3, <2>1, SameLog
<1>4. ASSUME NEW g \in Callers, EmitSyncFails(g) PROVE UNCHANGED Acknowledged
  <2>1. pc[g] = "sync" /\ file' = [file EXCEPT ![ev[g].at].st = "failed"]
    BY <1>4 DEF EmitSyncFails
  <2>2. /\ Len(file) > 0 /\ ev[g].at = Len(file)
        /\ file[Len(file)].part = "line"
        /\ file[Len(file)].st = "pending"
    BY <2>1 DEF IInv, InFlight
  <2>3. /\ Len(file') = Len(file)
        /\ file'[Len(file)] = [file[Len(file)] EXCEPT !.st = "failed"]
        /\ \A i \in 1 .. Len(file) : i # Len(file) => file'[i] = file[i]
    BY <2>1, <2>2, ReportLast
  <2>4. Len(file) \in 1 .. Len(file) /\ file[Len(file)] \in Chunk
    BY <1>1, <2>2
  <2>5. file'[Len(file)].st = "failed"
    BY <2>3, <2>4 DEF Chunk
  <2>6. \A i \in 1 .. Len(file) :
          file[i].st = "ok" <=> i # Len(file) /\ file'[i].st = "ok"
    BY <1>1, <2>2, <2>3
  <2>7. \A i \in 1 .. Len(file) : file'[i].st = "ok" => i # Len(file)
    BY <2>5
  <2> QED
    BY <1>1, <2>3, <2>6, <2>7, SameLog
<1>5. ASSUME PowerLoss PROVE UNCHANGED Acknowledged
  <2>1. PICK k \in durable .. Len(file) :
          \/ file' = SubSeq(file, 1, k)
          \/ /\ k < Len(file)
             /\ \E part \in {"json", "cut"} :
                  file' = Append(SubSeq(file, 1, k),
                                 [file[k + 1] EXCEPT !.part = part])
    BY <1>5 DEF PowerLoss
  <2>2. /\ Len(file') \in k .. Len(file)
        /\ \A i \in 1 .. Len(file') : /\ file'[i].body = file[i].body
                                       /\ file'[i].st = file[i].st
    BY <2>1, LoseTail
  <2>3. \A i \in 1 .. Len(file) : file[i].st = "ok" => i <= k
    BY <1>1 DEF IInv, TypeOK, AckedDurable
  <2>4. durable \in Nat /\ k \in Nat
    BY DEF IInv, TypeOK
  <2> QED
    BY <1>1, <2>2, <2>3, <2>4, SameLog
<1>6. ASSUME NEW g \in Callers, Emit(g)
      PROVE  Log!Next \/ UNCHANGED Acknowledged
  <2>1. CASE \E b \in Body : EmitLink(g, b)
    BY <1>2, <2>1 DEF EmitLink, Link
  <2>2. CASE EmitWrite(g)
    <3>1. ChunkOf(g, "line", "pending").st # "ok"
      BY DEF ChunkOf
    <3> QED
      BY <1>3, <2>2, <3>1 DEF EmitWrite
  <2>3. CASE EmitWriteFails(g)
    <3>1. \A part : ChunkOf(g, part, "failed").st # "ok"
      BY DEF ChunkOf
    <3> QED
      BY <1>2, <1>3, <2>3, <3>1 DEF EmitWriteFails
  <2> QED
    BY <1>4, <1>6, <2>1, <2>2, <2>3, SyncAcknowledges DEF Emit
<1>7. CASE NewFileSink \/ Close \/ ProcessDies \/ UNCHANGED vars
  BY <1>2, <1>7 DEF NewFileSink, Open, Close, ProcessDies, vars
<1> QED
  BY <1>5, <1>6, <1>7 DEF Next

(***************************************************************************)
(* The sink implements the append-only log: no crash, power loss, failed   *)
(* call or restart loses, alters or reorders an acknowledged record.       *)
(***************************************************************************)
THEOREM Refinement == Spec => AppendOnly
<1>1. Init => Log!Init
  BY DEF Init, Log!Init, Acknowledged
<1>2. IInv /\ [Next]_vars => [Log!Next]_Acknowledged
  BY StepRefines
<1> QED
  BY <1>1, <1>2, Invariant, PTL DEF Spec, AppendOnly, Log!Spec
=============================================================================
