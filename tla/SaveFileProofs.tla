--------------------------- MODULE SaveFileProofs ---------------------------
(***************************************************************************)
(* SaveFile: the file is sound at every moment, and its history is the one   *)
(* SaveHistory allows.                                                         *)
(*                                                                              *)
(* What the properties say of the file and of a flush that returned is not         *)
(* inductive: SaveInv adds where every version that is not in the file yet is -- in  *)
(* the copy, in the line of jobs, or in the write under way -- and that the line is   *)
(* in the order of the versions, each newer than the file's.                           *)
(***************************************************************************)
EXTENDS SaveFile, SequenceTheorems, TLAPS

\* The jobs of the line that write, and the version each writes.
Writes(j) == j # NoJob /\ j.do # Nothing

Posted == [do : Snapshots \cup {Nothing}, by : {"emulation", Nobody}]

TypesInv ==
  /\ emulation \in Phases
  /\ memory \in Memories /\ buffer \in Memories \cup {NoBuffer}
  /\ dirty \in BOOLEAN /\ lost \in BOOLEAN /\ swapped \in BOOLEAN
  /\ versions \in Seq(Memories) /\ Len(versions) <= MaxVersions
  /\ onDisk \in 1 .. Len(versions) /\ onStorage \in 1 .. onDisk
  /\ jobs \in Seq(Posted) /\ running \in Posted \cup {NoJob}
  /\ blocked \in {{}, {"emulation"}}
  /\ target \in Memories \cup {NoFile} /\ durable \in Memories \cup {NoFile}
  /\ call \in {"idle", "open", "write", "fsync", "rename", "done", "failed"}

\* The emulation thread waits for the last job of the line, and outside a game's play
\* only then is there a line.
BlockedInv ==
  /\ \A i \in 1 .. Len(jobs) : jobs[i].by = "emulation" => blocked # {} /\ i = Len(jobs)
  /\ running # NoJob /\ running.by = "emulation" => blocked # {} /\ jobs = << >>
  /\ blocked # {} => emulation \notin {"playing", "closed"}
  /\ blocked = {} /\ emulation # "playing" => jobs = << >> /\ running = NoJob

\* The console's memory is the newest version, and the copy, once there, is the same.
MemoryInv ==
  /\ emulation # "closed" => memory = versions[Len(versions)] /\ buffer \in {NoBuffer, memory}
  /\ dirty => emulation = "playing" /\ buffer = memory /\ onDisk < Len(versions)

IsVersion(s) == s.version \in 1 .. Len(versions) /\ s.memory = versions[s.version]

\* What waits to be written is newer than the file, in the order of the line, and
\* older than what was not handed over yet.
QueueInv ==
  /\ \A i \in 1 .. Len(jobs) : Writes(jobs[i]) =>
       /\ IsVersion(jobs[i].do) /\ onDisk < jobs[i].do.version
       /\ dirty => jobs[i].do.version < Len(versions)
  /\ \A i, k \in 1 .. Len(jobs) : i < k /\ Writes(jobs[i]) /\ Writes(jobs[k]) =>
       jobs[i].do.version < jobs[k].do.version
  /\ Writes(running) =>
       /\ IsVersion(running.do)
       /\ dirty => running.do.version < Len(versions)
       /\ \A i \in 1 .. Len(jobs) : Writes(jobs[i]) => running.do.version < jobs[i].do.version

\* The write under way is that of the running job; from the end of its loop to the
\* rename the temporary file has the whole snapshot.
CallInv ==
  /\ ~Writes(running) => call = "idle"
  /\ Writes(running) =>
       /\ call # "idle" /\ data = running.do.memory
       /\ IF call = "done" THEN onDisk = running.do.version ELSE onDisk < running.do.version
  /\ call \in {"fsync", "rename"} => tmp = data
  /\ call = "rename" => tmpSynced
  /\ synced

\* The newest version is in the file or on its way there, or its write was the last and
\* has failed.
NewestInv ==
  emulation # "closed" /\ ~swapped /\ ~dirty /\ onDisk # Len(versions) =>
    \/ Writes(running) /\ running.do.version = Len(versions)
    \/ \E i \in 1 .. Len(jobs) : Writes(jobs[i]) /\ jobs[i].do.version = Len(versions)
    \/ lost /\ ~Writes(running) /\ \A i \in 1 .. Len(jobs) : ~Writes(jobs[i])

SaveInv ==
  TypesInv /\ BlockedInv /\ MemoryInv /\ QueueInv /\ CallInv /\ FileIsOneVersion /\ NewestInv

-----------------------------------------------------------------------------
(* Sequences                                                                *)

LEMMA Appended ==
  ASSUME NEW S, NEW q \in Seq(S), NEW e \in S
  PROVE  /\ Append(q, e) \in Seq(S) /\ Len(Append(q, e)) = Len(q) + 1 /\ Len(q) \in Nat
         /\ \A i \in 1 .. Len(q) : Append(q, e)[i] = q[i]
         /\ Append(q, e)[Len(q) + 1] = e
OBVIOUS

LEMMA Taken ==
  ASSUME NEW S, NEW q \in Seq(S), q # << >>
  PROVE  /\ Tail(q) \in Seq(S) /\ Len(Tail(q)) = Len(q) - 1 /\ Len(q) \in Nat \ {0}
         /\ \A i \in 1 .. Len(q) - 1 : Tail(q)[i] = q[i + 1]
         /\ Head(q) = q[1] /\ Head(q) \in S
OBVIOUS

LEMMA Cut ==
  ASSUME NEW S, NEW q \in Seq(S), NEW n \in 1 .. Len(q)
  PROVE  /\ SubSeq(q, 1, n) \in Seq(S) /\ Len(SubSeq(q, 1, n)) = n
         /\ \A i \in 1 .. n : SubSeq(q, 1, n)[i] = q[i]
OBVIOUS

-----------------------------------------------------------------------------
(* What the console writes                                                  *)

LEMMA BlankIsMemory == Blank \in Memories
BY SaveAssumption DEF Blank, Memories

LEMMA ReadIsMemory ==
  ASSUME NEW f \in Memories \cup {NoFile}
  PROVE  Read(f) \in Memories /\ (f \in Memories => Read(f) = f)
BY BlankIsMemory, BufferAssumption DEF Read

\* The whole memory is the span of Size bytes from 0.
LEMMA SpanOfAll == \A a \in Addresses : a \in Span(0, Size)
<1>1. ASSUME NEW a \in Addresses
      PROVE  a \in 0 .. Size - 1 /\ a = (0 + a) % Size
  BY <1>1, SaveAssumption DEF Addresses
<1>2. ASSUME NEW a \in Addresses
      PROVE  \E i \in 0 .. Size - 1 : a = (0 + i) % Size
  BY <1>1
<1>. QED
  BY <1>2 DEF Span

\* SaveFile::OnWrite makes the copy the memory again, if it was the memory before the
\* write, and if the write is in what is reported.
LEMMA CopyFollows ==
  ASSUME NEW m \in Memories, NEW b \in Memories \cup {NoBuffer}, NEW a \in Nat, NEW n \in Nat,
         buffer = b, OnWrite(m, a, n),
         b # NoBuffer /\ n # 0 => \A x \in Addresses : x \notin Span(a, n) => m[x] = b[x]
  PROVE  buffer' = m
<1>1. CASE b = NoBuffer \/ n = 0
  BY <1>1 DEF OnWrite
<1>2. CASE b # NoBuffer /\ n # 0
  <2>1. buffer' = [x \in Addresses |-> IF x \in Span(a, n) THEN m[x] ELSE b[x]]
    BY <1>2 DEF OnWrite
  <2>2. \A x \in Addresses : (IF x \in Span(a, n) THEN m[x] ELSE b[x]) = m[x]
    BY <1>2
  <2>3. buffer' = [x \in Addresses |-> m[x]]
    BY <2>1, <2>2
  <2>4. m = [x \in Addresses |-> m[x]]
    BY DEF Memories
  <2>. QED
    BY <2>3, <2>4
<1>. QED
  BY <1>1, <1>2

\* A new version of the memory, of which the copy is made.
LEMMA NewVersionKeeps ==
  ASSUME SaveInv, emulation = "playing", NEW m \in Memories, NewVersion(m), buffer' = m, dirty' = TRUE,
         UNCHANGED <<emulation, workerVars, fileVars, onDisk, onStorage, lost, swapped>>
  PROVE  SaveInv'
<1>. USE DEF SaveInv, workerVars, fileVars
<1>1. /\ versions' \in Seq(Memories) /\ Len(versions') = Len(versions) + 1 /\ Len(versions) \in Nat
      /\ \A i \in 1 .. Len(versions) : versions'[i] = versions[i]
      /\ versions'[Len(versions) + 1] = m /\ memory' = m
      /\ Len(versions) < MaxVersions /\ MaxVersions \in Nat
  BY Appended, SaveAssumption DEF NewVersion, TypesInv
<1>2. TypesInv'
  BY <1>1 DEF TypesInv
<1>3. BlockedInv'
  BY DEF BlockedInv
<1>4. MemoryInv'
  BY <1>1 DEF MemoryInv, TypesInv
<1>5. \A s : IsVersion(s) => IsVersion(s)' /\ s.version < Len(versions')
  BY <1>1 DEF IsVersion
<1>6. QueueInv'
  BY <1>1, <1>5 DEF QueueInv, Writes
<1>7. CallInv'
  BY DEF CallInv, Writes
<1>8. FileIsOneVersion'
  BY <1>1 DEF FileIsOneVersion, TypesInv
<1>9. NewestInv'
  BY DEF NewestInv
<1>. QED
  BY <1>2, <1>3, <1>4, <1>6, <1>7, <1>8, <1>9

LEMMA ConsoleWriteKeeps ==
  ASSUME SaveInv, NEW t \in Transfers, ConsoleWrite(t)
  PROVE  SaveInv'
<1>. DEFINE m == [a \in Addresses |-> IF a \in Span(t[1], t[2]) THEN Len(versions) ELSE memory[a]]
<1>1. /\ emulation = "playing" /\ NewVersion(m) /\ OnWrite(memory', t[1] % Size, t[2] % Size)
      /\ UNCHANGED <<emulation, workerVars, fileVars, onDisk, onStorage, lost, swapped>>
  BY DEF ConsoleWrite
<1>2. /\ t[1] \in 0 .. Size - 1 /\ t[2] \in 1 .. Size /\ Size \in Nat \ {0}
  BY SaveAssumption
<1>3. m \in Memories
  <2>1. Len(versions) \in 0 .. MaxVersions /\ memory \in Memories
    BY DEF SaveInv, TypesInv
  <2>. QED
    BY <2>1 DEF Memories
<1>4. memory' = m /\ dirty' = TRUE
  BY <1>1 DEF NewVersion, OnWrite
<1>5. t[1] % Size = t[1] /\ (t[2] < Size => t[2] % Size = t[2]) /\ (t[2] = Size => t[2] % Size = 0)
  BY <1>2
<1>6. buffer # NoBuffer /\ t[2] % Size # 0 =>
        \A x \in Addresses : x \notin Span(t[1] % Size, t[2] % Size) => m[x] = buffer[x]
  <2>. SUFFICES ASSUME buffer # NoBuffer, t[2] % Size # 0, NEW x \in Addresses,
                       x \notin Span(t[1] % Size, t[2] % Size)
                PROVE  m[x] = buffer[x]
    OBVIOUS
  <2>1. t[2] % Size = t[2]
    BY <1>2, <1>5
  <2>2. buffer = memory
    BY <1>1 DEF SaveInv, MemoryInv
  <2>3. x \notin Span(t[1], t[2])
    BY <1>5, <2>1
  <2>. QED
    BY <2>2, <2>3
<1>7. t[1] % Size \in Nat /\ t[2] % Size \in Nat
  BY <1>2
<1>. HIDE DEF m
<1>8. buffer' = m
  BY <1>1, <1>3, <1>4, <1>6, <1>7, CopyFollows DEF SaveInv, TypesInv
<1>. QED
  BY <1>1, <1>3, <1>4, <1>8, NewVersionKeeps

LEMMA LoadStateKeeps ==
  ASSUME SaveInv, NEW v \in 1 .. MaxVersions, LoadState(v)
  PROVE  SaveInv'
<1>1. /\ emulation = "playing" /\ NewVersion(versions[v]) /\ OnWrite(memory', 0, Size)
      /\ UNCHANGED <<emulation, workerVars, fileVars, onDisk, onStorage, lost, swapped>>
      /\ v \in 1 .. Len(versions) - 1
  BY DEF LoadState
<1>2. versions[v] \in Memories
  BY <1>1 DEF SaveInv, TypesInv
<1>3. memory' = versions[v] /\ dirty' = TRUE
  BY <1>1 DEF NewVersion, OnWrite
<1>4. buffer' = versions[v]
  BY <1>1, <1>2, <1>3, SpanOfAll, SaveAssumption, CopyFollows DEF SaveInv, TypesInv
<1>. QED
  BY <1>1, <1>2, <1>3, <1>4, NewVersionKeeps

-----------------------------------------------------------------------------
(* Flushing                                                                 *)

\* What a flush that waits puts into the line.
Flush == [do |-> IF dirty THEN Snapshot ELSE Nothing, by |-> "emulation"]

LEMMA PostedIsPosted == IO!Posted = Posted
BY DEF IO!Posted, Posted

LEMMA FlushStarts ==
  ASSUME SaveInv, StartFlush
  PROVE  /\ blocked = {} /\ blocked' = {"emulation"} /\ running' = running
         /\ jobs' = Append(jobs, Flush)
<1>1. CASE dirty
  BY <1>1 DEF StartFlush, IO!Run, IO!Enqueue, Flush, SaveInv, TypesInv
<1>2. CASE ~dirty
  BY <1>2 DEF StartFlush, IO!Drain, IO!Run, IO!Enqueue, Flush, SaveInv, TypesInv
<1>. QED
  BY <1>1, <1>2

\* A snapshot of the copy is the newest version.
LEMMA SnapshotIsNewest ==
  ASSUME SaveInv, dirty
  PROVE  /\ Snapshot \in Snapshots /\ Snapshot # Nothing
         /\ IsVersion(Snapshot) /\ Snapshot.version = Len(versions)
         /\ onDisk < Len(versions)
<1>1. /\ buffer \in Memories /\ buffer = versions[Len(versions)] /\ Len(versions) \in 1 .. MaxVersions
      /\ onDisk < Len(versions)
  BY SaveAssumption, BufferAssumption DEF SaveInv, TypesInv, MemoryInv
<1>. QED
  BY <1>1, BufferAssumption DEF Snapshot, Snapshots, IsVersion

\* A job is put at the end of the line: the newest version, if it was not handed over
\* yet, or nothing.  The versions stay, or there is a new one.
LEMMA LineGrows ==
  ASSUME SaveInv, NEW j \in Posted, jobs' = Append(jobs, j), running' = running, ~dirty',
         IF dirty THEN j.do = Snapshot ELSE j.do = Nothing,
         onDisk' = onDisk, Len(versions') \in Nat, Len(versions) <= Len(versions'),
         \A k \in 1 .. Len(versions) : versions'[k] = versions[k]
  PROVE  /\ jobs' \in Seq(Posted) /\ Len(jobs') = Len(jobs) + 1 /\ Len(jobs) \in Nat
         /\ \A i \in 1 .. Len(jobs) : jobs'[i] = jobs[i]
         /\ jobs'[Len(jobs) + 1] = j
         /\ QueueInv'
         /\ UNCHANGED versions /\ emulation # "closed" /\ ~swapped' /\ (swapped' <=> swapped) /\ (lost' <=> lost)
              => NewestInv'
<1>1. /\ jobs' \in Seq(Posted) /\ Len(jobs') = Len(jobs) + 1 /\ Len(jobs) \in Nat
      /\ \A i \in 1 .. Len(jobs) : jobs'[i] = jobs[i]
      /\ jobs'[Len(jobs) + 1] = j
  BY Appended DEF SaveInv, TypesInv
<1>2. Len(versions) \in Nat
  BY DEF SaveInv, TypesInv
<1>3. \A s : IsVersion(s) => s.version \in 1 .. Len(versions') /\ s.memory = versions'[s.version]
  BY <1>2 DEF IsVersion
<1>4. Writes(j) => /\ dirty /\ j.do.version = Len(versions) /\ IsVersion(j.do)
                   /\ onDisk < j.do.version
  <2>1. CASE dirty
    BY <2>1, SnapshotIsNewest
  <2>2. CASE ~dirty
    BY <2>2 DEF Writes
  <2>. QED
    BY <2>1, <2>2
<1>5. \A x : Writes(x) <=> Writes(x)'
  BY DEF Writes
<1>6. ASSUME NEW i \in 1 .. Len(jobs'), Writes(jobs'[i])
      PROVE  /\ jobs'[i].do.version \in 1 .. Len(versions') /\ jobs'[i].do.memory = versions'[jobs'[i].do.version]
             /\ onDisk' < jobs'[i].do.version
  <2>1. CASE i \in 1 .. Len(jobs)
    BY <1>1, <1>3, <1>6, <2>1 DEF SaveInv, QueueInv
  <2>2. CASE i = Len(jobs) + 1
    BY <1>1, <1>3, <1>4, <1>6, <2>2
  <2>. QED
    BY <1>1, <2>1, <2>2
<1>7. ASSUME NEW i \in 1 .. Len(jobs'), NEW k \in 1 .. Len(jobs'), i < k, Writes(jobs'[i]), Writes(jobs'[k])
      PROVE  jobs'[i].do.version < jobs'[k].do.version
  <2>1. CASE k \in 1 .. Len(jobs)
    BY <1>1, <1>7, <2>1 DEF SaveInv, QueueInv
  <2>2. CASE k = Len(jobs) + 1
    BY <1>1, <1>4, <1>7, <2>2 DEF SaveInv, QueueInv
  <2>. QED
    BY <1>1, <2>1, <2>2
<1>8. ASSUME Writes(running)
      PROVE  /\ running.do.version \in 1 .. Len(versions') /\ running.do.memory = versions'[running.do.version]
             /\ \A i \in 1 .. Len(jobs') : Writes(jobs'[i]) => running.do.version < jobs'[i].do.version
  <2>1. ASSUME NEW i \in 1 .. Len(jobs'), Writes(jobs'[i])
        PROVE  running.do.version < jobs'[i].do.version
    <3>1. CASE i \in 1 .. Len(jobs)
      BY <1>1, <1>8, <2>1, <3>1 DEF SaveInv, QueueInv
    <3>2. CASE i = Len(jobs) + 1
      BY <1>1, <1>4, <1>8, <2>1, <3>2 DEF SaveInv, QueueInv
    <3>. QED
      BY <1>1, <3>1, <3>2
  <2>. QED
    BY <1>3, <1>8, <2>1 DEF SaveInv, QueueInv
<1>9. QueueInv'
  BY <1>6, <1>7, <1>8, <1>5 DEF QueueInv, Writes, IsVersion
<1>10. ASSUME UNCHANGED versions, emulation # "closed", ~swapped, lost' <=> lost
       PROVE  NewestInv'
  <2>1. CASE dirty
    <3>1. Writes(j) /\ j.do.version = Len(versions)
      BY <2>1, SnapshotIsNewest, BufferAssumption DEF Writes, Posted
    <3>. QED
      BY <1>1, <1>10, <3>1 DEF NewestInv, Writes
  <2>2. CASE ~dirty /\ onDisk # Len(versions)
    <3>1. ~Writes(j)
      BY <2>2 DEF Writes
    <3>2. CASE Writes(running) /\ running.do.version = Len(versions)
      BY <1>10, <3>2 DEF NewestInv, Writes
    <3>3. CASE \E i \in 1 .. Len(jobs) : Writes(jobs[i]) /\ jobs[i].do.version = Len(versions)
      BY <1>1, <1>10, <3>3 DEF NewestInv, Writes
    <3>4. CASE lost /\ ~Writes(running) /\ \A i \in 1 .. Len(jobs) : ~Writes(jobs[i])
      <4>1. \A i \in 1 .. Len(jobs') : ~Writes(jobs'[i])
        BY <1>1, <3>1, <3>4
      <4>. QED
        BY <1>10, <3>4, <4>1 DEF NewestInv, Writes
    <3>. QED
      BY <1>10, <2>2, <3>2, <3>3, <3>4 DEF SaveInv, NewestInv
  <2>3. CASE onDisk = Len(versions)
    BY <1>10, <2>3 DEF NewestInv
  <2>. QED
    BY <2>1, <2>2, <2>3
<1>. QED
  BY <1>1, <1>9, <1>10

\* StartFlush(true), when the game goes to a place where it waits.
LEMMA FlushKeeps ==
  ASSUME SaveInv, StartFlush, emulation # "closed", emulation' \in {"pausing", "closing", "destroying"},
         ~dirty', dirty' \in BOOLEAN, UNCHANGED <<memory, buffer, settled, fileVars, historyVars>>
  PROVE  SaveInv'
<1>. USE DEF fileVars, historyVars
<1>1. /\ blocked = {} /\ blocked' = {"emulation"} /\ running' = running
      /\ jobs' = Append(jobs, Flush)
  BY FlushStarts
<1>2. Flush \in Posted /\ (IF dirty THEN Flush.do = Snapshot ELSE Flush.do = Nothing) /\ Flush.by = "emulation"
  <2>1. CASE dirty
    BY <2>1, SnapshotIsNewest DEF Flush, Posted
  <2>2. CASE ~dirty
    BY <2>2 DEF Flush, Posted
  <2>. QED
    BY <2>1, <2>2
<1>. HIDE DEF Flush
<1>3. /\ jobs' \in Seq(Posted) /\ Len(jobs') = Len(jobs) + 1 /\ Len(jobs) \in Nat
      /\ \A i \in 1 .. Len(jobs) : jobs'[i] = jobs[i]
      /\ jobs'[Len(jobs) + 1] = Flush /\ QueueInv'
      /\ ~swapped' => NewestInv'
  BY <1>1, <1>2, LineGrows DEF SaveInv, TypesInv
<1>4. TypesInv'
  BY <1>1, <1>3 DEF SaveInv, TypesInv, Phases
<1>5. BlockedInv'
  <2>1. \A i \in 1 .. Len(jobs) : jobs[i].by # "emulation"
    BY <1>1 DEF SaveInv, BlockedInv
  <2>2. running # NoJob => running.by # "emulation"
    BY <1>1 DEF SaveInv, BlockedInv
  <2>3. ASSUME NEW i \in 1 .. Len(jobs'), jobs'[i].by = "emulation"
        PROVE  i = Len(jobs')
    BY <1>3, <2>1, <2>3
  <2>. QED
    BY <1>1, <1>3, <2>2, <2>3 DEF BlockedInv
<1>6. MemoryInv'
  BY DEF SaveInv, MemoryInv
<1>7. CallInv' /\ FileIsOneVersion'
  BY <1>1 DEF SaveInv, CallInv, Writes, FileIsOneVersion
<1>8. NewestInv'
  BY <1>3 DEF NewestInv
<1>. QED
  BY <1>3, <1>4, <1>5, <1>6, <1>7, <1>8 DEF SaveInv

LEMMA PauseKeeps ==
  ASSUME SaveInv, Pause
  PROVE  SaveInv'
<1>1. dirty' = FALSE
  BY DEF Pause
<1>. QED
  BY <1>1, FlushKeeps DEF Pause

LEMMA CloseKeeps ==
  ASSUME SaveInv, Close
  PROVE  SaveInv'
<1>1. dirty' = FALSE
  BY DEF Close
<1>. QED
  BY <1>1, FlushKeeps DEF Close

\* The cart's memory is read from the file, and its predecessor's is flushed.
LEMMA InsertKeeps ==
  ASSUME SaveInv, InsertGbaCart
  PROVE  SaveInv'
<1>. DEFINE m == Read(target)
<1>0. /\ emulation = "playing" /\ emulation' = "swapping" /\ Len(versions) < MaxVersions
      /\ memory' = m /\ versions' = Append(versions, m) /\ StartFlush
      /\ buffer' = NoBuffer /\ dirty' = FALSE /\ swapped' = TRUE
      /\ UNCHANGED <<settled, fileVars, onDisk, onStorage, lost>>
  BY DEF InsertGbaCart
<1>1. /\ blocked = {} /\ blocked' = {"emulation"} /\ running' = running
      /\ jobs' = Append(jobs, Flush)
  BY <1>0, FlushStarts
<1>2. Flush \in Posted /\ (IF dirty THEN Flush.do = Snapshot ELSE Flush.do = Nothing) /\ Flush.by = "emulation"
  <2>1. CASE dirty
    BY <2>1, SnapshotIsNewest DEF Flush, Posted
  <2>2. CASE ~dirty
    BY <2>2 DEF Flush, Posted
  <2>. QED
    BY <2>1, <2>2
<1>. HIDE DEF Flush
<1>3. m \in Memories
  BY ReadIsMemory DEF SaveInv, TypesInv
<1>. HIDE DEF m
<1>4. /\ versions' \in Seq(Memories) /\ Len(versions') = Len(versions) + 1 /\ Len(versions) \in Nat
      /\ \A i \in 1 .. Len(versions) : versions'[i] = versions[i]
      /\ versions'[Len(versions) + 1] = m
  BY <1>0, <1>3, Appended DEF SaveInv, TypesInv
<1>5. /\ jobs' \in Seq(Posted) /\ Len(jobs') = Len(jobs) + 1 /\ Len(jobs) \in Nat
      /\ \A i \in 1 .. Len(jobs) : jobs'[i] = jobs[i]
      /\ jobs'[Len(jobs) + 1] = Flush /\ QueueInv'
  <2>1. ~dirty' /\ onDisk' = onDisk /\ Len(versions') \in Nat /\ Len(versions) <= Len(versions')
    BY <1>0, <1>4
  <2>. QED
    BY <1>1, <1>2, <1>4, <2>1, LineGrows
<1>6. TypesInv'
  <2>1. onDisk \in 1 .. Len(versions') /\ onStorage \in 1 .. onDisk /\ Len(versions') <= MaxVersions
    BY <1>0, <1>4, SaveAssumption DEF SaveInv, TypesInv
  <2>2. emulation' \in Phases /\ dirty' \in BOOLEAN /\ swapped' \in BOOLEAN
    BY <1>0 DEF Phases
  <2>. QED
    BY <1>0, <1>1, <1>3, <1>4, <1>5, <2>1, <2>2 DEF SaveInv, TypesInv, fileVars
<1>7. BlockedInv'
  <2>1. \A i \in 1 .. Len(jobs) : jobs[i].by # "emulation"
    BY <1>1 DEF SaveInv, BlockedInv
  <2>2. running # NoJob => running.by # "emulation"
    BY <1>1 DEF SaveInv, BlockedInv
  <2>3. ASSUME NEW i \in 1 .. Len(jobs'), jobs'[i].by = "emulation"
        PROVE  i = Len(jobs')
    BY <1>5, <2>1, <2>3
  <2>. QED
    BY <1>0, <1>1, <1>5, <2>2, <2>3 DEF BlockedInv
<1>8. MemoryInv'
  BY <1>0, <1>4 DEF MemoryInv
<1>9. CallInv' /\ FileIsOneVersion'
  BY <1>0, <1>1, <1>4 DEF SaveInv, TypesInv, CallInv, Writes, FileIsOneVersion, fileVars
<1>10. NewestInv'
  BY <1>0 DEF NewestInv
<1>. QED
  BY <1>5, <1>6, <1>7, <1>8, <1>9, <1>10 DEF SaveInv

\* A snapshot is posted, and nobody waits for it.
LEMMA CheckFlushKeeps ==
  ASSUME SaveInv, CheckFlush
  PROVE  SaveInv'
<1>. DEFINE j == [do |-> Snapshot, by |-> Nobody]
<1>1. /\ emulation = "playing" /\ dirty /\ dirty' = FALSE
      /\ jobs' = Append(jobs, j) /\ UNCHANGED <<running, blocked, ahead>>
      /\ UNCHANGED <<emulation, memory, buffer, settled, fileVars, historyVars>>
  BY DEF CheckFlush, IO!Post, IO!Enqueue
<1>2. j \in Posted /\ j.do = Snapshot /\ j.by # "emulation"
  BY <1>1, SnapshotIsNewest, BufferAssumption DEF Posted
<1>. HIDE DEF j
<1>3. /\ jobs' \in Seq(Posted) /\ Len(jobs') = Len(jobs) + 1 /\ Len(jobs) \in Nat
      /\ \A i \in 1 .. Len(jobs) : jobs'[i] = jobs[i]
      /\ jobs'[Len(jobs) + 1] = j /\ QueueInv'
      /\ ~swapped' => NewestInv'
  BY <1>1, <1>2, LineGrows DEF SaveInv, TypesInv, historyVars
<1>4. TypesInv'
  BY <1>1, <1>3 DEF SaveInv, TypesInv, fileVars, historyVars
<1>5. BlockedInv'
  <2>1. blocked = {}
    BY <1>1 DEF SaveInv, BlockedInv
  <2>2. \A i \in 1 .. Len(jobs) : jobs[i].by # "emulation"
    BY <2>1 DEF SaveInv, BlockedInv
  <2>3. ASSUME NEW i \in 1 .. Len(jobs')
        PROVE  jobs'[i].by # "emulation"
    BY <1>2, <1>3, <2>2
  <2>. QED
    BY <1>1, <2>1, <2>3 DEF SaveInv, BlockedInv
<1>6. MemoryInv'
  BY <1>1 DEF SaveInv, MemoryInv, historyVars
<1>7. CallInv' /\ FileIsOneVersion'
  BY <1>1 DEF SaveInv, CallInv, Writes, FileIsOneVersion, fileVars, historyVars
<1>8. NewestInv'
  BY <1>3 DEF NewestInv
<1>. QED
  BY <1>3, <1>4, <1>5, <1>6, <1>7, <1>8 DEF SaveInv

-----------------------------------------------------------------------------
(* The worker                                                               *)

\* Steps that leave the console, the line and the versions alone.
LEMMA TakeKeeps ==
  ASSUME SaveInv, WorkerTake
  PROVE  SaveInv'
<1>1. /\ running = NoJob /\ jobs # << >> /\ running' = Head(jobs) /\ jobs' = Tail(jobs)
      /\ UNCHANGED <<blocked, ahead, emulation, memory, saveVars, historyVars>>
      /\ IF running'.do = Nothing THEN UNCHANGED fileVars ELSE F!Begin(running'.do.memory)
  BY DEF WorkerTake, IO!Take
<1>. USE DEF saveVars, historyVars
<1>2. /\ jobs' \in Seq(Posted) /\ Len(jobs') = Len(jobs) - 1 /\ Len(jobs) \in Nat \ {0}
      /\ \A i \in 1 .. Len(jobs) - 1 : jobs'[i] = jobs[i + 1]
      /\ running' = jobs[1] /\ running' \in Posted
  BY <1>1, Taken DEF SaveInv, TypesInv
<1>3. running' # NoJob
  BY <1>2, BufferAssumption DEF Posted
<1>4. /\ target' = target /\ durable' = durable /\ synced' = synced /\ tmp' = tmp /\ tmpSynced' = tmpSynced
      /\ Writes(running') => call' = "open" /\ data' = running'.do.memory
      /\ ~Writes(running') => call' = call /\ data' = data
  <2>1. CASE running'.do = Nothing
    BY <1>1, <1>3, <2>1 DEF fileVars, Writes
  <2>2. CASE running'.do # Nothing
    BY <1>1, <1>3, <2>2 DEF F!Begin, F!diskVars, F!tmpVars, Writes
  <2>. QED
    BY <2>1, <2>2
<1>5. call = "idle"
  BY <1>1 DEF SaveInv, CallInv, Writes
<1>6. TypesInv'
  <2>1. call' \in {"idle", "open"}
    BY <1>4, <1>5
  <2>. QED
    BY <1>1, <1>2, <1>4, <2>1 DEF SaveInv, TypesInv
<1>7. BlockedInv'
  <2>1. ASSUME NEW i \in 1 .. Len(jobs'), jobs'[i].by = "emulation"
        PROVE  blocked # {} /\ i = Len(jobs')
    <3>1. i + 1 \in 1 .. Len(jobs) /\ jobs'[i] = jobs[i + 1] /\ Len(jobs') = Len(jobs) - 1
      BY <1>2, <2>1
    <3>. QED
      BY <2>1, <3>1 DEF SaveInv, BlockedInv
  <2>2. ASSUME running'.by = "emulation"
        PROVE  blocked # {} /\ jobs' = << >>
    <3>1. blocked # {} /\ Len(jobs) = 1
      BY <1>2, <2>2 DEF SaveInv, BlockedInv
    <3>. QED
      BY <1>2, <3>1
  <2>3. blocked # {} \/ emulation = "playing"
    BY <1>1 DEF SaveInv, BlockedInv
  <2>. QED
    BY <1>1, <2>1, <2>2, <2>3 DEF SaveInv, BlockedInv
<1>8. MemoryInv'
  BY <1>1 DEF SaveInv, MemoryInv
<1>9. QueueInv'
  <2>1. ASSUME NEW i \in 1 .. Len(jobs'), Writes(jobs'[i])
        PROVE  /\ IsVersion(jobs[i + 1].do) /\ jobs'[i] = jobs[i + 1] /\ onDisk < jobs'[i].do.version
               /\ dirty => jobs'[i].do.version < Len(versions)
               /\ Writes(running') => running'.do.version < jobs'[i].do.version
    BY <1>2, <2>1 DEF SaveInv, QueueInv
  <2>2. ASSUME NEW i \in 1 .. Len(jobs'), NEW k \in 1 .. Len(jobs'), i < k, Writes(jobs'[i]), Writes(jobs'[k])
        PROVE  jobs'[i].do.version < jobs'[k].do.version
    <3>1. /\ i + 1 \in 1 .. Len(jobs) /\ jobs'[i] = jobs[i + 1]
          /\ k + 1 \in 1 .. Len(jobs) /\ jobs'[k] = jobs[k + 1] /\ i + 1 < k + 1
      BY <1>2, <2>2
    <3>. QED
      BY <2>2, <3>1 DEF SaveInv, QueueInv
  <2>3. Writes(running') => /\ IsVersion(jobs[1].do) /\ running' = jobs[1]
                            /\ dirty => running'.do.version < Len(versions)
    BY <1>2 DEF SaveInv, QueueInv
  <2>. QED
    BY <1>1, <2>1, <2>2, <2>3 DEF QueueInv, Writes, IsVersion
<1>10. CallInv'
  <2>1. Writes(running') => onDisk < running'.do.version
    BY <1>2 DEF SaveInv, QueueInv
  <2>. QED
    BY <1>1, <1>4, <1>5, <2>1 DEF SaveInv, CallInv, Writes
<1>11. FileIsOneVersion'
  BY <1>1, <1>4 DEF SaveInv, FileIsOneVersion
<1>12. NewestInv'
  <2>. SUFFICES ASSUME emulation # "closed", ~swapped, ~dirty, onDisk # Len(versions)
                PROVE  \/ Writes(running') /\ running'.do.version = Len(versions)
                       \/ \E i \in 1 .. Len(jobs') : Writes(jobs'[i]) /\ jobs'[i].do.version = Len(versions)
                       \/ lost /\ ~Writes(running') /\ \A i \in 1 .. Len(jobs') : ~Writes(jobs'[i])
    BY <1>1 DEF NewestInv, Writes
  <2>1. ASSUME NEW i \in 1 .. Len(jobs), Writes(jobs[i]), jobs[i].do.version = Len(versions)
        PROVE  \/ Writes(running') /\ running'.do.version = Len(versions)
               \/ \E k \in 1 .. Len(jobs') : Writes(jobs'[k]) /\ jobs'[k].do.version = Len(versions)
    <3>1. CASE i = 1
      BY <1>2, <2>1, <3>1
    <3>2. CASE i # 1
      <4>1. i - 1 \in 1 .. Len(jobs') /\ jobs'[i - 1] = jobs[i]
        BY <1>2, <3>2
      <4>. QED
        BY <2>1, <4>1
    <3>. QED
      BY <3>1, <3>2
  <2>2. CASE lost /\ \A i \in 1 .. Len(jobs) : ~Writes(jobs[i])
    BY <1>2, <2>2
  <2>. QED
    BY <1>1, <2>1, <2>2 DEF SaveInv, NewestInv, Writes
<1>. QED
  BY <1>6, <1>7, <1>8, <1>9, <1>10, <1>11, <1>12 DEF SaveInv

LEMMA StepKeeps ==
  ASSUME SaveInv, WorkerStep
  PROVE  SaveInv'
<1>1. /\ UNCHANGED <<emulation, memory, saveVars, workerVars, historyVars>>
      /\ F!Open \/ F!Write \/ F!Fsync \/ F!Fail
  BY DEF WorkerStep
<1>. USE DEF saveVars, workerVars, historyVars
<1>2. /\ UNCHANGED <<target, durable, synced, data>>
      /\ call \in {"open", "write", "fsync", "rename"} /\ call' \in {"write", "fsync", "rename", "failed"}
      /\ call' \in {"fsync", "rename"} => tmp' = data
      /\ call' = "rename" => tmpSynced'
  <2>1. CASE F!Open
    BY <2>1 DEF F!Open, F!diskVars
  <2>2. CASE F!Write
    BY <2>2 DEF F!Write, F!diskVars
  <2>3. CASE F!Fsync
    BY <2>3, SaveAssumption DEF F!Fsync, SaveInv, CallInv
  <2>4. CASE F!Fail
    BY <2>4 DEF F!Fail, F!diskVars
  <2>. QED
    BY <1>1, <2>1, <2>2, <2>3, <2>4
<1>3. Writes(running)
  BY <1>2 DEF SaveInv, CallInv
<1>4. TypesInv'
  BY <1>1, <1>2 DEF SaveInv, TypesInv
<1>5. BlockedInv' /\ MemoryInv'
  BY <1>1 DEF SaveInv, BlockedInv, MemoryInv
<1>6. QueueInv'
  BY <1>1 DEF SaveInv, QueueInv, Writes, IsVersion
<1>7. CallInv'
  BY <1>1, <1>2, <1>3 DEF SaveInv, CallInv, Writes
<1>8. FileIsOneVersion' /\ NewestInv'
  BY <1>1, <1>2 DEF SaveInv, FileIsOneVersion, NewestInv, Writes
<1>. QED
  BY <1>4, <1>5, <1>6, <1>7, <1>8 DEF SaveInv

\* The rename puts the version into the file.
LEMMA RenameKeeps ==
  ASSUME SaveInv, WorkerRename
  PROVE  SaveInv' /\ onDisk' \in onDisk + 1 .. Len(versions)
<1>1. /\ call = "rename" /\ target' = tmp /\ synced' = tmpSynced /\ call' = "done"
      /\ UNCHANGED <<durable, data>>
      /\ onDisk' = running.do.version
      /\ UNCHANGED <<emulation, memory, saveVars, workerVars, versions, onStorage, lost, swapped>>
  BY DEF WorkerRename, F!Rename
<1>. USE DEF saveVars, workerVars
<1>2. /\ Writes(running) /\ tmp = running.do.memory /\ tmpSynced /\ IsVersion(running.do)
      /\ onDisk < running.do.version
  BY <1>1 DEF SaveInv, CallInv, QueueInv
<1>3. /\ target' = versions[onDisk'] /\ onDisk' \in 1 .. Len(versions) /\ onDisk < onDisk'
      /\ target' \in Memories
  BY <1>1, <1>2 DEF IsVersion, SaveInv, TypesInv
<1>4. TypesInv'
  <2>1. onStorage \in 1 .. onDisk'
    BY <1>3 DEF SaveInv, TypesInv
  <2>. QED
    BY <1>1, <1>3, <2>1 DEF SaveInv, TypesInv
<1>5. BlockedInv'
  BY <1>1 DEF SaveInv, BlockedInv
<1>6. MemoryInv'
  BY <1>1, <1>2 DEF SaveInv, MemoryInv, QueueInv
<1>7. QueueInv'
  BY <1>1, <1>2 DEF SaveInv, QueueInv, Writes, IsVersion
<1>8. CallInv'
  BY <1>1, <1>2 DEF SaveInv, CallInv, Writes
<1>9. FileIsOneVersion'
  BY <1>1, <1>3, ReadIsMemory DEF SaveInv, FileIsOneVersion
<1>10. NewestInv'
  <2>1. CASE onDisk' = Len(versions)
    BY <1>1, <2>1 DEF NewestInv
  <2>2. CASE onDisk' # Len(versions)
    <3>1. onDisk # Len(versions)
      BY <1>3 DEF SaveInv, TypesInv
    <3>. QED
      BY <1>1, <1>2, <2>2, <3>1 DEF SaveInv, NewestInv, Writes
  <2>. QED
    BY <2>1, <2>2
<1>11. onDisk' \in onDisk + 1 .. Len(versions)
  BY <1>3 DEF SaveInv, TypesInv
<1>. QED
  BY <1>4, <1>5, <1>6, <1>7, <1>8, <1>9, <1>10, <1>11 DEF SaveInv

\* A job is over, and with it the wait of the emulation thread if it was the last.
LEMMA FinishKeeps ==
  ASSUME SaveInv, WorkerFinish
  PROVE  SaveInv'
<1>1. /\ running # NoJob /\ running' = NoJob /\ blocked' = blocked \ {running.by} /\ jobs' = jobs
      /\ UNCHANGED <<emulation, memory, saveVars, versions, onDisk, onStorage, swapped>>
      /\ IF running.do = Nothing THEN UNCHANGED <<fileVars, lost>> ELSE F!Return /\ lost' = (call = "failed")
  BY DEF WorkerFinish, IO!Finish
<1>. USE DEF saveVars
<1>2. /\ UNCHANGED <<target, durable, synced, tmp, tmpSynced>>
      /\ ~Writes(running) => call' = call /\ (lost' <=> lost)
      /\ Writes(running) => call \in {"done", "failed"} /\ call' = "idle" /\ (lost' <=> call = "failed")
  <2>1. CASE running.do = Nothing
    BY <1>1, <2>1 DEF fileVars, Writes
  <2>2. CASE running.do # Nothing
    BY <1>1, <2>2 DEF F!Return, F!diskVars, F!tmpVars, Writes
  <2>. QED
    BY <2>1, <2>2
<1>3. call' = "idle"
  BY <1>2 DEF SaveInv, CallInv
<1>4. lost' \in BOOLEAN
  <2>1. CASE running.do = Nothing
    BY <1>1, <2>1 DEF SaveInv, TypesInv
  <2>2. CASE running.do # Nothing
    BY <1>1, <2>2, Zenon
  <2>. QED
    BY <2>1, <2>2
<1>5. blocked' \in {{}, {"emulation"}}
  BY <1>1 DEF SaveInv, TypesInv
<1>6. TypesInv'
  BY <1>1, <1>2, <1>3, <1>4, <1>5 DEF SaveInv, TypesInv
<1>7. BlockedInv'
  <2>1. CASE running.by = "emulation"
    <3>1. jobs = << >> /\ blocked # {}
      BY <1>1, <2>1 DEF SaveInv, BlockedInv
    <3>2. blocked' = {} /\ jobs' = << >> /\ running' = NoJob
      BY <1>1, <2>1, <3>1 DEF SaveInv, TypesInv
    <3>3. Len(jobs') = 0
      BY <3>2
    <3>. QED
      BY <3>2, <3>3 DEF BlockedInv
  <2>2. CASE running.by # "emulation"
    <3>1. blocked' = blocked
      BY <1>1, <2>2 DEF SaveInv, TypesInv
    <3>. QED
      BY <1>1, <3>1 DEF SaveInv, BlockedInv
  <2>. QED
    BY <2>1, <2>2
<1>8. MemoryInv'
  BY <1>1 DEF SaveInv, MemoryInv
<1>9. ~Writes(running')
  BY <1>1 DEF Writes
<1>10. QueueInv'
  BY <1>1, <1>9 DEF SaveInv, QueueInv, Writes, IsVersion
<1>11. CallInv'
  BY <1>1, <1>2, <1>3, <1>9 DEF SaveInv, CallInv
<1>12. FileIsOneVersion'
  BY <1>1, <1>2 DEF SaveInv, FileIsOneVersion
<1>13. NewestInv'
  <2>. SUFFICES ASSUME emulation # "closed", ~swapped, ~dirty, onDisk # Len(versions)
                PROVE  \/ \E i \in 1 .. Len(jobs) : Writes(jobs[i]) /\ jobs[i].do.version = Len(versions)
                       \/ lost' /\ \A i \in 1 .. Len(jobs) : ~Writes(jobs[i])
    BY <1>1, <1>9 DEF NewestInv, Writes
  <2>1. CASE Writes(running) /\ running.do.version = Len(versions)
    <3>1. lost'
      BY <1>2, <2>1 DEF SaveInv, CallInv
    <3>2. ASSUME NEW i \in 1 .. Len(jobs), Writes(jobs[i])
          PROVE  FALSE
      <4>1. Len(versions) < jobs[i].do.version /\ jobs[i].do.version \in 1 .. Len(versions)
        BY <2>1, <3>2 DEF SaveInv, QueueInv, IsVersion
      <4>. QED
        BY <4>1 DEF SaveInv, TypesInv
    <3>. QED
      BY <3>1, <3>2
  <2>2. CASE lost /\ ~Writes(running) /\ \A i \in 1 .. Len(jobs) : ~Writes(jobs[i])
    BY <1>2, <2>2
  <2>. QED
    BY <2>1, <2>2 DEF SaveInv, NewestInv
<1>. QED
  BY <1>6, <1>7, <1>8, <1>10, <1>11, <1>12, <1>13 DEF SaveInv

-----------------------------------------------------------------------------
(* The rest                                                                 *)

\* Nothing waits to be written, and play goes on, or will go on, from what the file has.
LEMMA CutKeeps ==
  ASSUME SaveInv, NEW n \in 1 .. onDisk, versions' = SubSeq(versions, 1, n), onDisk' = n,
         onStorage' = onStorage, onStorage \in 1 .. n,
         Read(target') = versions[n], durable' = durable, target' \in {target, durable}
  PROVE  /\ versions' \in Seq(Memories) /\ Len(versions') = n /\ n \in 1 .. MaxVersions
         /\ versions'[n] = versions[n] /\ versions'[onStorage] = versions[onStorage]
         /\ FileIsOneVersion'
<1>1. n \in 1 .. Len(versions) /\ Len(versions) <= MaxVersions /\ Len(versions) \in Nat
  BY DEF SaveInv, TypesInv
<1>2. /\ versions' \in Seq(Memories) /\ Len(versions') = n
      /\ \A i \in 1 .. n : versions'[i] = versions[i]
  BY <1>1, Cut DEF SaveInv, TypesInv
<1>3. versions'[n] = versions[n] /\ versions'[onStorage] = versions[onStorage]
  BY <1>1, <1>2 DEF SaveInv, TypesInv
<1>4. FileIsOneVersion'
  BY <1>3 DEF SaveInv, FileIsOneVersion
<1>. QED
  BY <1>1, <1>2, <1>3, <1>4, SaveAssumption

LEMMA OpenKeeps ==
  ASSUME SaveInv, Open
  PROVE  SaveInv'
<1>1. /\ emulation = "closed" /\ emulation' = "playing" /\ memory' = Read(target) /\ buffer' = NoBuffer
      /\ versions' = SubSeq(versions, 1, onDisk) /\ lost' = FALSE /\ swapped' = FALSE
      /\ UNCHANGED <<dirty, settled, workerVars, fileVars, onDisk, onStorage>>
  BY DEF Open
<1>. USE DEF workerVars, fileVars
<1>2. /\ jobs = << >> /\ running = NoJob /\ blocked = {} /\ ~dirty /\ ~Writes(running)
  BY <1>1 DEF SaveInv, BlockedInv, MemoryInv, Writes, TypesInv
<1>3. Len(jobs) = 0
  BY <1>2
<1>4. /\ versions' \in Seq(Memories) /\ Len(versions') = onDisk /\ onDisk \in 1 .. MaxVersions
      /\ versions'[onDisk] = versions[onDisk] /\ versions'[onStorage] = versions[onStorage]
      /\ FileIsOneVersion'
  <2>1. onDisk \in 1 .. onDisk /\ onStorage \in 1 .. onDisk /\ Read(target') = versions[onDisk]
    BY <1>1 DEF SaveInv, TypesInv, FileIsOneVersion
  <2>. QED
    BY <1>1, <2>1, CutKeeps
<1>5. memory' = versions'[Len(versions')] /\ memory' \in Memories
  BY <1>1, <1>4, ReadIsMemory DEF SaveInv, TypesInv, FileIsOneVersion
<1>6. TypesInv'
  <2>1. emulation' \in Phases /\ lost' \in BOOLEAN /\ swapped' \in BOOLEAN
    BY <1>1 DEF Phases
  <2>2. onDisk' \in 1 .. Len(versions') /\ onStorage' \in 1 .. onDisk' /\ Len(versions') <= MaxVersions
    BY <1>1, <1>4, SaveAssumption DEF SaveInv, TypesInv
  <2>. QED
    BY <1>1, <1>4, <1>5, <2>1, <2>2 DEF SaveInv, TypesInv
<1>7. BlockedInv' /\ QueueInv'
  BY <1>1, <1>2, <1>3 DEF BlockedInv, QueueInv, Writes
<1>8. MemoryInv'
  BY <1>1, <1>2, <1>5 DEF MemoryInv
<1>9. CallInv'
  BY <1>1 DEF SaveInv, CallInv, Writes
<1>10. NewestInv'
  BY <1>1, <1>4 DEF NewestInv
<1>. QED
  BY <1>4, <1>6, <1>7, <1>8, <1>9, <1>10 DEF SaveInv

\* What the end of the process leaves.
LEMMA EndKeeps ==
  ASSUME SaveInv, ProcessEnds, NEW n \in 1 .. onDisk, versions' = SubSeq(versions, 1, n), onDisk' = n,
         onStorage \in 1 .. n, UNCHANGED <<onStorage, lost, swapped>>,
         Read(target') = versions[n], durable' = durable, target' \in {target, durable}, call' = "idle", synced'
  PROVE  SaveInv'
<1>1. /\ emulation' = "closed" /\ memory' = Blank /\ buffer' = NoBuffer /\ dirty' = FALSE
      /\ jobs' = << >> /\ running' = NoJob /\ blocked' = {}
  BY DEF ProcessEnds
<1>2. /\ versions' \in Seq(Memories) /\ Len(versions') = n /\ n \in 1 .. MaxVersions
      /\ versions'[n] = versions[n] /\ versions'[onStorage] = versions[onStorage]
      /\ FileIsOneVersion'
  BY CutKeeps
<1>3. Len(jobs') = 0 /\ jobs' \in Seq(Posted)
  BY <1>1
<1>4. ~Writes(running')
  BY <1>1 DEF Writes
<1>5. TypesInv'
  <2>1. emulation' \in Phases /\ dirty' \in BOOLEAN /\ memory' \in Memories
    BY <1>1, BlankIsMemory DEF Phases
  <2>2. onDisk' \in 1 .. Len(versions') /\ onStorage' \in 1 .. onDisk' /\ Len(versions') <= MaxVersions
    BY <1>2, SaveAssumption
  <2>. QED
    BY <1>1, <1>2, <1>3, <2>1, <2>2 DEF SaveInv, TypesInv
<1>6. BlockedInv' /\ QueueInv' /\ MemoryInv' /\ NewestInv'
  BY <1>1, <1>3, <1>4 DEF BlockedInv, QueueInv, MemoryInv, NewestInv
<1>7. CallInv'
  BY <1>4 DEF CallInv
<1>. QED
  BY <1>2, <1>5, <1>6, <1>7 DEF SaveInv

LEMMA KillKeeps ==
  ASSUME SaveInv, Kill
  PROVE  SaveInv'
<1>1. /\ ProcessEnds /\ versions' = SubSeq(versions, 1, onDisk) /\ UNCHANGED <<onDisk, onStorage, lost, swapped>>
      /\ UNCHANGED <<target, durable, synced>> /\ call' = "idle"
  BY DEF Kill, F!Kill, F!diskVars
<1>2. onDisk \in 1 .. onDisk /\ onStorage \in 1 .. onDisk /\ Read(target') = versions[onDisk] /\ synced'
  BY <1>1 DEF SaveInv, TypesInv, FileIsOneVersion, CallInv
<1>. QED
  BY <1>1, <1>2, EndKeeps

LEMMA PowerCutKeeps ==
  ASSUME SaveInv, PowerCut
  PROVE  SaveInv'
<1>1. /\ ProcessEnds /\ versions' = SubSeq(versions, 1, onStorage) /\ onDisk' = onStorage
      /\ UNCHANGED <<onStorage, lost, swapped>>
      /\ target' = durable /\ durable' = durable /\ synced' = TRUE /\ call' = "idle"
  BY DEF PowerCut, F!PowerCut
<1>2. onStorage \in 1 .. onDisk /\ onStorage \in 1 .. onStorage /\ Read(target') = versions[onStorage] /\ synced'
  BY <1>1 DEF SaveInv, TypesInv, FileIsOneVersion
<1>. QED
  BY <1>1, <1>2, EndKeeps

LEMMA WritebackKeeps ==
  ASSUME SaveInv, Writeback
  PROVE  SaveInv'
<1>1. /\ durable' = target /\ synced' = (durable' = target) /\ onStorage' = onDisk
      /\ UNCHANGED <<target, tmp, tmpSynced, call, data>>
      /\ UNCHANGED <<emulation, memory, saveVars, workerVars, versions, onDisk, lost, swapped>>
  BY DEF Writeback, F!Writeback, F!tmpVars, SaveInv, CallInv
<1>. USE DEF saveVars, workerVars
<1>2. synced'
  BY <1>1
<1>3. TypesInv'
  BY <1>1 DEF SaveInv, TypesInv
<1>4. BlockedInv' /\ MemoryInv'
  BY <1>1 DEF SaveInv, BlockedInv, MemoryInv
<1>5. QueueInv'
  BY <1>1 DEF SaveInv, QueueInv, Writes, IsVersion
<1>6. CallInv'
  BY <1>1, <1>2 DEF SaveInv, CallInv, Writes
<1>7. FileIsOneVersion' /\ NewestInv'
  BY <1>1 DEF SaveInv, FileIsOneVersion, NewestInv, Writes
<1>. QED
  BY <1>3, <1>4, <1>5, <1>6, <1>7 DEF SaveInv

\* Time passes, a flush returns, or nothing happens.
LEMMA WaitKeeps ==
  ASSUME SaveInv, Settle \/ FlushReturns \/ UNCHANGED vars
  PROVE  SaveInv'
<1>1. UNCHANGED <<memory, buffer, dirty, workerVars, fileVars, historyVars>>
  BY DEF Settle, FlushReturns, vars, saveVars
<1>. USE DEF workerVars, fileVars, historyVars
<1>2. emulation' = emulation \/ (blocked = {} /\ emulation \in {"pausing", "swapping"} /\ emulation' = "playing")
        \/ (blocked = {} /\ emulation = "destroying" /\ emulation' = "closed")
  BY DEF Settle, FlushReturns, vars
<1>3. TypesInv'
  BY <1>1, <1>2 DEF SaveInv, TypesInv, Phases
<1>4. BlockedInv' /\ MemoryInv'
  BY <1>1, <1>2 DEF SaveInv, BlockedInv, MemoryInv
<1>5. QueueInv' /\ CallInv' /\ FileIsOneVersion'
  BY <1>1 DEF SaveInv, QueueInv, Writes, IsVersion, CallInv, FileIsOneVersion
<1>6. NewestInv'
  BY <1>1, <1>2 DEF SaveInv, NewestInv, Writes
<1>. QED
  BY <1>3, <1>4, <1>5, <1>6 DEF SaveInv

LEMMA SaveInit ==
  ASSUME Init
  PROVE  SaveInv
<1>1. /\ emulation = "closed" /\ memory = Blank /\ buffer = NoBuffer /\ dirty = FALSE
      /\ jobs = << >> /\ running = NoJob /\ blocked = {}
      /\ target \in {NoFile, Blank} /\ durable = target /\ synced = TRUE /\ call = "idle"
      /\ versions = <<Blank>> /\ onDisk = 1 /\ onStorage = 1 /\ lost = FALSE /\ swapped = FALSE
  BY DEF Init, IO!Init, F!Init
<1>2. /\ Len(jobs) = 0 /\ jobs \in Seq(Posted) /\ Len(versions) = 1 /\ versions[1] = Blank
      /\ versions \in Seq(Memories) /\ Blank \in Memories
  BY <1>1, BlankIsMemory
<1>3. ~Writes(running)
  BY <1>1 DEF Writes
<1>4. TypesInv
  <2>1. emulation \in Phases /\ dirty \in BOOLEAN /\ lost \in BOOLEAN /\ swapped \in BOOLEAN
    BY <1>1 DEF Phases
  <2>2. target \in Memories \cup {NoFile}
    BY <1>1, <1>2
  <2>. QED
    BY <1>1, <1>2, <2>1, <2>2, SaveAssumption DEF TypesInv
<1>5. FileIsOneVersion
  BY <1>1, <1>2, ReadIsMemory DEF FileIsOneVersion, Read
<1>. QED
  BY <1>1, <1>2, <1>3, <1>4, <1>5 DEF SaveInv, BlockedInv, MemoryInv, QueueInv, CallInv, NewestInv

LEMMA SaveStep ==
  ASSUME SaveInv, [Next]_vars
  PROVE  SaveInv'
<1>1. CASE Open
  BY <1>1, OpenKeeps
<1>2. CASE \E t \in Transfers : ConsoleWrite(t)
  BY <1>2, ConsoleWriteKeeps
<1>3. CASE \E v \in 1 .. MaxVersions : LoadState(v)
  BY <1>3, LoadStateKeeps
<1>4. CASE Settle \/ FlushReturns \/ UNCHANGED vars
  BY <1>4, WaitKeeps
<1>5. CASE CheckFlush
  BY <1>5, CheckFlushKeeps
<1>6. CASE Pause
  BY <1>6, PauseKeeps
<1>7. CASE Close
  BY <1>7, CloseKeeps
<1>8. CASE InsertGbaCart
  BY <1>8, InsertKeeps
<1>9. CASE WorkerTake
  BY <1>9, TakeKeeps
<1>10. CASE WorkerStep
  BY <1>10, StepKeeps
<1>11. CASE WorkerRename
  BY <1>11, RenameKeeps
<1>12. CASE WorkerFinish
  BY <1>12, FinishKeeps
<1>13. CASE Writeback
  BY <1>13, WritebackKeeps
<1>14. CASE Kill
  BY <1>14, KillKeeps
<1>15. CASE PowerCut
  BY <1>15, PowerCutKeeps
<1>. QED
  BY <1>1, <1>2, <1>3, <1>4, <1>5, <1>6, <1>7, <1>8, <1>9, <1>10, <1>11, <1>12, <1>13, <1>14, <1>15
  DEF Next, Play, Worker

LEMMA SaveAlways == Spec => []SaveInv
BY SaveInit, SaveStep, PTL DEF Spec

\* For any memory, transfers, failures of the calls of a write (fsync aside) and number of
\* versions, through kills and power cuts: the file, and what a power cut would leave of it,
\* is one whole version; and when StartFlush(true) has returned to a pause or to the end of
\* a game it is the newest, unless the last write has failed (SaveFile.cpp, IoWorker.cpp).
THEOREM SavedFileStaysSound == Spec => []SavedFileIsSound
<1>1. SaveInv => FlushedMeansSaved
  <2>. SUFFICES ASSUME SaveInv, emulation \in {"pausing", "closing", "destroying"}, blocked = {}
                PROVE  onDisk = Len(versions) \/ lost \/ swapped
    BY DEF FlushedMeansSaved
  <2>1. jobs = << >> /\ running = NoJob /\ ~dirty
    BY DEF SaveInv, BlockedInv, MemoryInv
  <2>2. Len(jobs) = 0 /\ ~Writes(running)
    BY <2>1 DEF Writes
  <2>. QED
    BY <2>1, <2>2 DEF SaveInv, NewestInv
<1>2. SaveInv => SavedFileIsSound
  BY <1>1 DEF SaveInv, SavedFileIsSound
<1>. QED
  BY <1>2, SaveAlways, PTL

-----------------------------------------------------------------------------
(* SaveHistory                                                              *)

\* The memory in which every byte is that of the next version.
LEMMA NextMemory ==
  ASSUME SaveInv, NEW t \in Transfers, Len(versions) < MaxVersions
  PROVE  [a \in Addresses |-> IF a \in Span(t[1], t[2]) THEN Len(versions) ELSE memory[a]] \in Memories
<1>1. Len(versions) \in 0 .. MaxVersions
  BY SaveAssumption DEF SaveInv, TypesInv
<1>. QED
  BY <1>1 DEF SaveInv, TypesInv, Memories

\* A new version is a change of the history.
LEMMA ChangeMaps ==
  ASSUME NEW m \in Memories, NewVersion(m), UNCHANGED <<onDisk, onStorage>>
  PROVE  History!Next
<1>1. History!Change
  BY DEF NewVersion, History!Change
<1>. QED
  BY <1>1 DEF History!Next

\* What the console and the emulation thread do.
LEMMA PlayMaps ==
  ASSUME SaveInv, Play
  PROVE  [History!Next]_<<versions, onDisk, onStorage>>
<1>1. CASE Open
  <2>1. History!Reload
    BY <1>1 DEF Open, History!Reload
  <2>. QED
    BY <2>1 DEF History!Next
<1>2. ASSUME NEW t \in Transfers, ConsoleWrite(t)
      PROVE  History!Next
  <2>1. Len(versions) < MaxVersions
    BY <1>2 DEF ConsoleWrite, NewVersion
  <2>. DEFINE m == [a \in Addresses |-> IF a \in Span(t[1], t[2]) THEN Len(versions) ELSE memory[a]]
  <2>2. m \in Memories
    BY <2>1, NextMemory
  <2>3. NewVersion(m) /\ UNCHANGED <<onDisk, onStorage>>
    BY <1>2 DEF ConsoleWrite
  <2>. HIDE DEF m
  <2>. QED
    BY <2>2, <2>3, ChangeMaps
<1>3. ASSUME NEW v \in 1 .. MaxVersions, LoadState(v)
      PROVE  History!Next
  <2>1. versions[v] \in Memories
    BY <1>3 DEF LoadState, SaveInv, TypesInv
  <2>2. NewVersion(versions[v]) /\ UNCHANGED <<onDisk, onStorage>>
    BY <1>3 DEF LoadState
  <2>. QED
    BY <2>1, <2>2, ChangeMaps
<1>4. CASE InsertGbaCart
  <2>1. Read(target) \in Memories
    BY ReadIsMemory DEF SaveInv, TypesInv
  <2>2. History!Change
    BY <1>4, <2>1 DEF InsertGbaCart, History!Change
  <2>. QED
    BY <2>2 DEF History!Next
<1>5. CASE Settle \/ CheckFlush \/ Pause \/ Close \/ FlushReturns
  <2>1. UNCHANGED <<versions, onDisk, onStorage>>
    BY <1>5 DEF Settle, CheckFlush, Pause, Close, FlushReturns, historyVars
  <2>. QED
    BY <2>1
<1>. QED
  BY <1>1, <1>2, <1>3, <1>4, <1>5 DEF Play

\* What the worker does: only a rename commits, and a newer version every time.
LEMMA WorkerMaps ==
  ASSUME SaveInv, Worker
  PROVE  [History!Next]_<<versions, onDisk, onStorage>>
<1>1. CASE WorkerRename
  <2>1. History!Commit
    BY <1>1, RenameKeeps DEF WorkerRename, History!Commit
  <2>. QED
    BY <2>1 DEF History!Next
<1>2. CASE WorkerTake \/ WorkerStep \/ WorkerFinish
  <2>1. UNCHANGED <<versions, onDisk, onStorage>>
    BY <1>2 DEF WorkerTake, WorkerStep, WorkerFinish, historyVars
  <2>. QED
    BY <2>1
<1>. QED
  BY <1>1, <1>2 DEF Worker

\* The kernel, and the end of the process or of the power.
LEMMA EndMaps ==
  ASSUME Writeback \/ Kill \/ PowerCut
  PROVE  History!Next
<1>1. CASE Writeback
  BY <1>1 DEF Writeback, History!Settle, History!Next
<1>2. CASE Kill
  BY <1>2 DEF Kill, History!Reload, History!Next
<1>3. CASE PowerCut
  BY <1>3 DEF PowerCut, History!PowerCut, History!Next
<1>. QED
  BY <1>1, <1>2, <1>3

\* SaveFile implements SaveHistory: whatever is queued, written, retried by the loop of
\* write() or lost with the process, a reader of the file finds a later version or the
\* same, and play goes on from what the file has (SaveFile.cpp, WriteFileAtomic).
THEOREM SaveKeepsHistory == Spec => HistoryKept
<1>1. Init => History!Init
  BY BlankIsMemory DEF Init, History!Init
<1>2. SaveInv /\ [Next]_vars => [History!Next]_<<versions, onDisk, onStorage>>
  <2>1. CASE UNCHANGED vars
    BY <2>1 DEF vars, historyVars
  <2>. QED
    BY <2>1, PlayMaps, WorkerMaps, EndMaps DEF Next
<1>3. SaveInv /\ [Next]_vars => [History!Next]_(History!vars)
  BY <1>2 DEF History!vars
<1>. QED
  BY <1>1, <1>3, SaveAlways, PTL DEF Spec, HistoryKept, History!Spec
=============================================================================
