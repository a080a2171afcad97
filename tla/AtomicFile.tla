----------------------------- MODULE AtomicFile -----------------------------
(***************************************************************************)
(* WriteFileAtomic (IoWorker.cpp): the content goes to "<path>.tmp", is      *)
(* fsynced, and replaces the target by a rename.  One action per system call,  *)
(* each of which may fail; the process may be killed and the power may go       *)
(* between any two of them.                                                       *)
(*                                                                                 *)
(* The file system is external: a rename is seen at once by every reader, and        *)
(* reaches the storage when the kernel writes the directory back, perhaps with        *)
(* file contents that have not been written back unless they were fsynced.             *)
(***************************************************************************)

CONSTANTS
  Contents,  \* what a caller asks to be written
  NoFile,    \* no file of that name
  Partial,   \* a file that is empty, cut short or garbled
  Failures   \* which of the calls "open", "write", "fsync", "rename" may fail

\* What the theorems suppose of the constants.
FileAssumption ==
  /\ NoFile # Partial
  /\ NoFile \notin Contents
  /\ Partial \notin Contents

Files == Contents \cup {NoFile, Partial}

VARIABLES
  target,   \* what a reader of path finds
  durable,  \* what would be there after a power cut
  synced,   \* the target's content is on the storage
  tmp,      \* what a reader of "<path>.tmp" finds
  tmpSynced,
  fsyncFailed, \* history: an fsync has failed
  call,     \* the next system call of the write, "idle" if none is under way
  data      \* the content it writes

diskVars == <<target, durable, synced, fsyncFailed>>
tmpVars  == <<tmp, tmpSynced>>
vars == <<target, durable, synced, tmp, tmpSynced, fsyncFailed, call, data>>

\* A file found on the storage, or none.
Init ==
  /\ target \in Contents \cup {NoFile}
  /\ durable = target
  /\ synced = TRUE
  /\ tmp \in {NoFile, Partial}
  /\ tmpSynced = FALSE
  /\ fsyncFailed = FALSE
  /\ call = "idle"
  /\ data = NoFile

Begin(content) ==
  /\ call = "idle"
  /\ call' = "open"
  /\ data' = content
  /\ UNCHANGED <<diskVars, tmpVars>>

\* Slip: the rename first, the content later.
OpenTarget ==
  /\ call = "open"
  /\ tmp' = Partial
  /\ tmpSynced' = FALSE
  /\ target' = Partial
  /\ synced' = FALSE
  /\ call' = "write"
  /\ UNCHANGED <<durable, fsyncFailed, data>>

\* O_CREAT | O_TRUNC: whatever a killed write left there is gone.
Open ==
  /\ call = "open"
  /\ tmp' = Partial
  /\ tmpSynced' = FALSE
  /\ call' = "write"
  /\ UNCHANGED <<diskVars, data>>

\* The write loop runs until every byte is written.
Write ==
  /\ call = "write"
  /\ tmp' = data
  /\ call' = "fsync"
  /\ UNCHANGED <<diskVars, tmpSynced, data>>

\* The result of fsync is not looked at.
Fsync ==
  /\ call = "fsync"
  /\ \/ tmpSynced' = TRUE /\ UNCHANGED fsyncFailed
     \/ "fsync" \in Failures /\ tmpSynced' = FALSE /\ fsyncFailed' = TRUE
  /\ call' = "rename"
  /\ UNCHANGED <<target, durable, synced, tmp, data>>

Rename ==
  /\ call = "rename"
  /\ target' = tmp
  /\ synced' = tmpSynced
  /\ tmp' = NoFile
  /\ call' = "done"
  /\ UNCHANGED <<durable, tmpSynced, fsyncFailed, data>>

\* A call fails: the temporary file is removed, if it was opened.
Fail ==
  /\ call \in {"open", "write", "rename"} \cap Failures
  /\ tmp' = IF call = "open" THEN tmp ELSE NoFile
  /\ call' = "failed"
  /\ UNCHANGED <<diskVars, tmpSynced, data>>

\* WriteFileAtomic returns TRUE or FALSE.
Return ==
  /\ call \in {"done", "failed"}
  /\ call' = "idle"
  /\ data' = NoFile
  /\ UNCHANGED <<diskVars, tmpVars>>

\* The steps of the thread that runs WriteFileAtomic.
Step == Open \/ Write \/ Fsync \/ Rename \/ Fail \/ Return

-----------------------------------------------------------------------------
(* The kernel, and the end of the process                                    *)

\* The kernel writes the directory back, and with it what it has of the content.
Writeback ==
  /\ durable' \in IF synced THEN {target} ELSE {target, Partial}
  /\ synced' = (durable' = target)
  /\ UNCHANGED <<target, tmpVars, fsyncFailed, call, data>>

\* The process is killed; the kernel and its caches live on.
Kill ==
  /\ call' = "idle"
  /\ data' = NoFile
  /\ UNCHANGED <<diskVars, tmpVars>>

\* The power goes: the storage is all that is left.
PowerCut ==
  /\ target' = durable
  /\ synced' = TRUE
  /\ tmp' \in {NoFile, Partial}
  /\ tmpSynced' = FALSE
  /\ call' = "idle"
  /\ data' = NoFile
  /\ UNCHANGED <<durable, fsyncFailed>>

Next == (\E c \in Contents : Begin(c)) \/ Step \/ Writeback \/ Kill \/ PowerCut

Spec == Init /\ [][Next]_vars

-----------------------------------------------------------------------------

TypeOK ==
  /\ target \in Files /\ durable \in Files
  /\ tmp \in IF call \in {"fsync", "rename"} THEN {data} ELSE Files
  /\ synced \in BOOLEAN /\ tmpSynced \in BOOLEAN /\ fsyncFailed \in BOOLEAN
  /\ call \in {"idle", "open", "write", "fsync", "rename", "done", "failed"}
  /\ data \in Contents \cup {NoFile}

\* No reader ever finds half a file under the target's name, not in the middle
\* of a write, after a failed one, or after the process was killed in one
\* ("Writes a file atomically", IoWorker.h:38).  A failed fsync goes unnoticed
\* (IoWorker.cpp:124) and what follows it is not covered.
ReaderFindsWholeFile == ~fsyncFailed => target # Partial

\* Nor does the next boot after a power cut: the content is "fsynced, then
\* renamed over the target" (IoWorker.h:38).
PowerCutLeavesWholeFile == ~fsyncFailed => durable # Partial

\* Half a file is never found, at run time or at the next boot (IoWorker.h:38).
WholeFile == ReaderFindsWholeFile /\ PowerCutLeavesWholeFile

\* While the process lives the file changes once in a write, from the file
\* that was there to the whole new content; a write that failed changed nothing.
FileStepIsWhole ==
  target' # target => \/ call = "rename" /\ target' = data
                      \/ call' = "idle" /\ target' = durable
=============================================================================
