------------------------------ MODULE FileSink ------------------------------
(***************************************************************************)
(* internal/audit/sink_file.go: the durable, hash-chained JSONL sink.      *)
(*                                                                         *)
(* Goroutines call Emit concurrently; the mutex makes each Emit one        *)
(* critical section of three steps with an outside effect: compute the     *)
(* link, write the line, fsync.  Each system call can fail, the process    *)
(* can die and the machine can lose power between any two steps, and       *)
(* NewFileSink recovers the chain from whatever the file then holds.       *)
(*                                                                         *)
(* The file is the sequence of the chunks written to it.  A chunk is a     *)
(* whole line, a line that lacks only its newline ("json") or a shorter    *)
(* piece of one ("cut").  Emit on a closed sink, and an event that cannot  *)
(* be encoded, return an error and change nothing: stuttering steps here.  *)
(*                                                                         *)
(* About the disk we assume that fsync makes every byte written so far     *)
(* survive, the directory entry included, and that a power loss cuts the   *)
(* unsynced tail of the file at some byte.                                 *)
(***************************************************************************)
EXTENDS AuditChain

CONSTANTS Callers,    \* goroutines that emit
          NoCaller,   \* the holder of a free mutex
          NoEvent,    \* the event of a goroutine that is not in Emit
          MaxLines,   \* bound: chunks the file may hold
          Faults      \* what may go wrong with the file

ASSUME CallersAssumption == NoCaller \notin Callers
ASSUME FaultsAssumption == Faults \subseteq {"write", "fsync", "power"}
ASSUME LinesAssumption == MaxLines \in Nat

VARIABLES file,       \* the chunks in the file, oldest first
          durable,    \* how many of them an fsync has made durable
          up,         \* "down": no process; "open"; "closed": s.f = nil
          lastHash,   \* s.lastHash of the running process
          mu,         \* the goroutine that holds s.mu
          pc,         \* where in Emit each goroutine is
          ev          \* the event each goroutine is emitting

vars == <<file, durable, up, lastHash, mu, pc, ev>>

(***************************************************************************)
(* st is not in the file.  It remembers what Emit told its caller about    *)
(* the chunk: "ok" after a nil error, "failed" after an error, "pending"   *)
(* if it has not returned (or died before it could).                       *)
(***************************************************************************)
Chunk == [body : Body, prev : Hash, hash : Hash,
          part : {"line", "json", "cut"}, st : {"pending", "ok", "failed"}]

Event == [body : Body, prev : Hash, hash : Hash, at : Nat]

TypeOK ==
  /\ file \in Seq(Chunk)
  /\ durable \in 0 .. Len(file)
  /\ up \in {"down", "open", "closed"}
  /\ lastHash \in Hash
  /\ mu \in Callers \cup {NoCaller}
  /\ pc \in [Callers -> {"idle", "write", "sync"}]
  /\ ev \in [Callers -> Event \cup {NoEvent}]

-----------------------------------------------------------------------------
(***************************************************************************)
(* Reading the file back.  A physical line parses if it is one chunk:      *)
(* chunks glued together for want of a newline are malformed JSON, and so  *)
(* is a cut line.  The scanner also yields an unterminated last line.      *)
(***************************************************************************)
Readable(i) ==
  /\ i > 1 => file[i - 1].part = "line"
  /\ \/ file[i].part = "line"
     \/ file[i].part = "json" /\ i = Len(file)

\* The event_hash of the last valid line among the first n chunks: what a
\* forward scan that skips malformed lines ends with.
HeadHash(n) ==
  IF \E i \in 1 .. n : Readable(i)
  THEN file[CHOOSE i \in 1 .. n : Readable(i)
              /\ \A j \in 1 .. n : Readable(j) => j <= i].hash
  ELSE NoHash

readLastEventHash == HeadHash(Len(file))

\* VerifyChain's test of the record in chunk i, over the valid lines.
Verifies(i) == file[i].hash = ComputeEventHash(file[i].body, HeadHash(i - 1))

-----------------------------------------------------------------------------
Init ==
  /\ file = <<>>
  /\ durable = 0
  /\ up = "down"
  /\ lastHash = NoHash
  /\ mu = NoCaller
  /\ pc = [g \in Callers |-> "idle"]
  /\ ev = [g \in Callers |-> NoEvent]

(***************************************************************************)
(* A process starts and opens the sink.                                    *)
(***************************************************************************)
Open(h) ==
  /\ up = "down"
  /\ up' = "open"
  /\ lastHash' = h
  /\ UNCHANGED <<file, durable, mu, pc, ev>>

NewFileSinkForgets == Open(NoHash)

\* O_TRUNC where the code has O_APPEND.
NewFileSinkTruncates ==
  /\ up = "down"
  /\ up' = "open"
  /\ file' = <<>>
  /\ lastHash' = NoHash
  /\ UNCHANGED <<durable, mu, pc, ev>>

NewFileSink == Open(readLastEventHash)

(***************************************************************************)
(* Emit takes the mutex, finds the sink open and links the event.          *)
(***************************************************************************)
Link(g, b) ==
  /\ up = "open"
  /\ pc[g] = "idle"
  /\ Len(file) < MaxLines
  /\ mu' = g
  /\ ev' = [ev EXCEPT ![g] = [body |-> b, prev |-> lastHash, at |-> 0,
                              hash |-> ComputeEventHash(b, lastHash)]]
  /\ pc' = [pc EXCEPT ![g] = "write"]
  /\ UNCHANGED <<file, durable, up, lastHash>>

EmitLinkUnlocked(g, b) == Link(g, b)

EmitLink(g, b) == mu = NoCaller /\ Link(g, b)

\* The chunk that holds this part of the event of g.
ChunkOf(g, part, st) ==
  [body |-> ev[g].body, prev |-> ev[g].prev, hash |-> ev[g].hash,
   part |-> part, st |-> st]

\* Emit returns and its deferred Unlock runs.
Return(g) ==
  /\ mu' = NoCaller
  /\ pc' = [pc EXCEPT ![g] = "idle"]
  /\ ev' = [ev EXCEPT ![g] = NoEvent]

\* fmt.Fprintln writes the line and its newline in one call.
EmitWrite(g) ==
  /\ pc[g] = "write"
  /\ file' = Append(file, ChunkOf(g, "line", "pending"))
  /\ ev' = [ev EXCEPT ![g].at = Len(file) + 1]
  /\ pc' = [pc EXCEPT ![g] = "sync"]
  /\ UNCHANGED <<durable, up, lastHash, mu>>

\* The write fails (a full disk, say) after none or some of its bytes.
EmitWriteFails(g) ==
  /\ "write" \in Faults
  /\ pc[g] = "write"
  /\ \/ file' = file
     \/ \E part \in {"json", "cut"} :
          file' = Append(file, ChunkOf(g, part, "failed"))
  /\ Return(g)
  /\ UNCHANGED <<durable, up, lastHash>>

\* fsync has made n chunks durable, the chain head advances, Emit returns nil.
Synced(g, n) ==
  /\ pc[g] = "sync"
  /\ file' = [file EXCEPT ![ev[g].at].st = "ok"]
  /\ durable' = n
  /\ lastHash' = ev[g].hash
  /\ Return(g)
  /\ UNCHANGED up

EmitSyncSkipped(g) == Synced(g, durable)

EmitSync(g) == Synced(g, Len(file))

\* fsync fails: Emit returns an error, the line stays in the file, and the
\* chain head does not advance.
EmitSyncFails(g) ==
  /\ "fsync" \in Faults
  /\ pc[g] = "sync"
  /\ file' = [file EXCEPT ![ev[g].at].st = "failed"]
  /\ Return(g)
  /\ UNCHANGED <<durable, up, lastHash>>

\* Close waits for the mutex, so it never cuts into an Emit.
Close ==
  /\ up = "open"
  /\ mu = NoCaller
  /\ up' = "closed"
  /\ UNCHANGED <<file, durable, lastHash, mu, pc, ev>>

\* Whatever the process held in memory is gone.
ProcessGone ==
  /\ up' = "down"
  /\ lastHash' = NoHash
  /\ mu' = NoCaller
  /\ pc' = [g \in Callers |-> "idle"]
  /\ ev' = [g \in Callers |-> NoEvent]

\* The process exits or is killed; the page cache keeps the file.
ProcessDies ==
  /\ up # "down"
  /\ ProcessGone
  /\ UNCHANGED <<file, durable>>

\* The machine stops: the unsynced tail is cut after chunk k, and of the
\* chunk after it some bytes may have reached the disk.
PowerLoss ==
  /\ "power" \in Faults
  /\ \E k \in durable .. Len(file) :
       \/ file' = SubSeq(file, 1, k)
       \/ /\ k < Len(file)
          /\ \E part \in {"json", "cut"} :
               /\ part = "json" => file[k + 1].part # "cut"
               /\ file' = Append(SubSeq(file, 1, k),
                                 [file[k + 1] EXCEPT !.part = part])
  /\ durable' = Len(file')
  /\ ProcessGone

Emit(g) == \/ \E b \in Body : EmitLink(g, b)
           \/ EmitWrite(g)
           \/ EmitWriteFails(g)
           \/ EmitSync(g)
           \/ EmitSyncFails(g)

Next == \/ NewFileSink
        \/ \E g \in Callers : Emit(g)
        \/ Close
        \/ ProcessDies
        \/ PowerLoss

Spec == Init /\ [][Next]_vars

-----------------------------------------------------------------------------
\* Chunk i was written whole and no error was reported for it.
Clean(i) == file[i].part = "line" /\ file[i].st # "failed"

(***************************************************************************)
(* Damage is confined to what follows it: a valid line with nothing but    *)
(* clean chunks before it passes VerifyChain, however many processes and   *)
(* goroutines wrote them and wherever they were interrupted.               *)
(***************************************************************************)
IntactPrefixVerifies ==
  \A i \in 1 .. Len(file) :
    Readable(i) /\ (\A k \in 1 .. i - 1 : Clean(k)) => Verifies(i)

(***************************************************************************)
(* Tamper evidence: every record written after an acknowledged, readable   *)
(* record commits to it, across faults and restarts.  No later chain       *)
(* forks off below a record that Emit acknowledged.                        *)
(***************************************************************************)
LaterRecordsCommit ==
  \A i, k \in 1 .. Len(file) :
    k < i /\ file[k].st = "ok" /\ Readable(k)
      => Covers(file[i].hash, file[k].hash)

(***************************************************************************)
(* sink_file.go:15-17, "A single audit file written by many process        *)
(* lifetimes remains one verifiable chain": every valid line verifies.     *)
(***************************************************************************)
OneVerifiableChain == \A i \in 1 .. Len(file) : Readable(i) => Verifies(i)

(***************************************************************************)
(* The sink implements the append-only log: what Emit acknowledged is not  *)
(* lost, altered or reordered by any crash, power loss or restart.         *)
(***************************************************************************)
Acknowledged ==
  {[pos |-> i, body |-> file[i].body] :
     i \in {j \in 1 .. Len(file) : file[j].st = "ok"}}

Log == INSTANCE AuditLog WITH records <- Acknowledged

AppendOnly == Log!Spec
=============================================================================
