---------------------------- MODULE SharedArray ----------------------------
(***************************************************************************)
(* Shared_Array (include/shared_array.h): an array of N elements with one  *)
(* writer and several readers, which read either under the mutex or with   *)
(* the sequence lock.  An element holds the number of the write it comes   *)
(* from.  Copying the array is one step per element, and each access to    *)
(* lock_sequence is a step, so that a reader sees any mixture of writes    *)
(* that the locks do not rule out.                                         *)
(***************************************************************************)
EXTENDS Naturals

CONSTANTS N,              \* elements
          Readers,        \* threads that call read or read_sequence, once each
          Writer,         \* the thread that calls write
          Unlocked,       \* the mutex is held by nobody
          MaxWrites       \* bound: how many times the writer writes

ASSUME SharedArrayAssumption ==
  /\ N \in Nat \ {0} /\ MaxWrites \in Nat
  /\ Writer \notin Readers /\ Unlocked \notin Readers \cup {Writer}

Indices == 0 .. (N - 1)
Garbage == MaxWrites + 1  \* an element that was never assigned

VARIABLES
  buffer, m, lock_sequence,              \* the members
  wpc, wi, written,                      \* the writer: next step, loop index, writes begun
  rpc, ri, temp, lock_before, lock_after,\* the readers: next step, index, locals
  kind,                                  \* what the reader calls: "read" or "read_sequence"
  since,                                 \* writes that were over when it was called
  skipped                                \* its last turn of the loop took the continue

writerVars == <<wpc, wi, written>>
readerVars == <<rpc, ri, temp, lock_before, lock_after, kind, since, skipped>>
vars == <<buffer, m, lock_sequence, writerVars, readerVars>>

Init ==
  /\ buffer = [k \in Indices |-> 0]
  /\ m = Unlocked
  /\ lock_sequence = 0
  /\ wpc = "idle" /\ wi = 0 /\ written = 0
  /\ rpc = [r \in Readers |-> "call"]
  /\ ri = [r \in Readers |-> 0]
  /\ temp = [r \in Readers |-> [k \in Indices |-> Garbage]]
  /\ lock_before = [r \in Readers |-> 0]
  /\ lock_after \in [Readers -> 0 .. (2 * MaxWrites)]   \* uninitialized
  /\ kind \in [Readers -> {"read", "read_sequence"}]
  /\ since = [r \in Readers |-> 0]
  /\ skipped = [r \in Readers |-> FALSE]

-----------------------------------------------------------------------------
\* The parts of the code that the checks below mutate, each after its mutant

\* mutant: the lock_guard is missing
MutexIgnored == TRUE
MutexFree == m = Unlocked

\* mutant: lock_sequence is counted twice
SequencePlusTwo == lock_sequence + 2
NextSequence == lock_sequence + 1

\* mutant: the two sequence numbers are not compared
NeverChanged(r) == FALSE
Changed(r) == lock_before[r] # lock_after[r]

-----------------------------------------------------------------------------
\* write

WriteLock ==
  /\ wpc = "idle" /\ written < MaxWrites
  /\ MutexFree /\ m' = Writer
  /\ wpc' = "begin"
  /\ UNCHANGED <<buffer, lock_sequence, wi, written, readerVars>>

WriteBegin ==
  /\ wpc = "begin"
  /\ lock_sequence' = NextSequence
  /\ written' = written + 1 /\ wi' = 0 /\ wpc' = "copy"
  /\ UNCHANGED <<buffer, m, readerVars>>

WriteElement ==
  /\ wpc = "copy" /\ wi < N
  /\ buffer' = [buffer EXCEPT ![wi] = written]
  /\ wi' = wi + 1
  /\ UNCHANGED <<m, lock_sequence, wpc, written, readerVars>>

WriteEnd ==
  /\ wpc = "copy" /\ wi = N
  /\ lock_sequence' = NextSequence
  /\ m' = Unlocked
  /\ wpc' = "idle"
  /\ UNCHANGED <<buffer, wi, written, readerVars>>

-----------------------------------------------------------------------------
\* the writes that are over
Complete == IF wpc = "copy" THEN written - 1 ELSE written

Call(r) ==
  /\ rpc[r] = "call"
  /\ since' = [since EXCEPT ![r] = Complete]
  /\ rpc' = [rpc EXCEPT ![r] = IF kind[r] = "read" THEN "lock" ELSE "before"]
  /\ UNCHANGED <<buffer, m, lock_sequence, writerVars, ri, temp, lock_before,
                 lock_after, kind, skipped>>

\* both functions copy the buffer an element at a time
CopyElement(r) ==
  /\ rpc[r] = "copy" /\ ri[r] < N
  /\ temp' = [temp EXCEPT ![r][ri[r]] = buffer[ri[r]]]
  /\ ri' = [ri EXCEPT ![r] = @ + 1]
  /\ UNCHANGED <<buffer, m, lock_sequence, writerVars, rpc, lock_before,
                 lock_after, kind, since, skipped>>

\* read

ReadLock(r) ==
  /\ rpc[r] = "lock"
  /\ MutexFree /\ m' = r
  /\ rpc' = [rpc EXCEPT ![r] = "copy"]
  /\ UNCHANGED <<buffer, lock_sequence, writerVars, ri, temp, lock_before,
                 lock_after, kind, since, skipped>>

ReadUnlock(r) ==
  /\ rpc[r] = "copy" /\ ri[r] = N /\ kind[r] = "read"
  /\ m' = Unlocked
  /\ rpc' = [rpc EXCEPT ![r] = "done"]
  /\ UNCHANGED <<buffer, lock_sequence, writerVars, ri, temp, lock_before,
                 lock_after, kind, since, skipped>>

\* read_sequence

\* lock_before = lock_sequence; if it is odd, continue goes to the condition
\* of the loop, with lock_after as it was
SequenceBefore(r) ==
  /\ rpc[r] = "before"
  /\ lock_before' = [lock_before EXCEPT ![r] = lock_sequence]
  /\ skipped' = [skipped EXCEPT ![r] = lock_sequence % 2 = 1]
  /\ rpc' = [rpc EXCEPT ![r] = IF lock_sequence % 2 = 1 THEN "test" ELSE "copy"]
  /\ ri' = [ri EXCEPT ![r] = 0]
  /\ UNCHANGED <<buffer, m, lock_sequence, writerVars, temp, lock_after, kind, since>>

SequenceAfter(r) ==
  /\ rpc[r] = "copy" /\ ri[r] = N /\ kind[r] = "read_sequence"
  /\ lock_after' = [lock_after EXCEPT ![r] = lock_sequence]
  /\ rpc' = [rpc EXCEPT ![r] = "test"]
  /\ UNCHANGED <<buffer, m, lock_sequence, writerVars, ri, temp, lock_before,
                 kind, since, skipped>>

\* while(lock_before != lock_after)
SequenceTest(r) ==
  /\ rpc[r] = "test"
  /\ rpc' = [rpc EXCEPT ![r] = IF Changed(r) THEN "before" ELSE "done"]
  /\ UNCHANGED <<buffer, m, lock_sequence, writerVars, ri, temp, lock_before,
                 lock_after, kind, since, skipped>>

WriterStep == WriteLock \/ WriteBegin \/ WriteElement \/ WriteEnd

ReaderStep(r) == \/ Call(r) \/ CopyElement(r)
                 \/ ReadLock(r) \/ ReadUnlock(r)
                 \/ SequenceBefore(r) \/ SequenceAfter(r) \/ SequenceTest(r)

Finished == /\ wpc = "idle" /\ written = MaxWrites
            /\ \A r \in Readers : rpc[r] = "done"

Next == \/ WriterStep
        \/ \E r \in Readers : ReaderStep(r)
        \/ Finished /\ UNCHANGED vars

Spec == Init /\ [][Next]_vars

-----------------------------------------------------------------------------
\* Types of the members and of the readers' locals.
TypeOK ==
  /\ buffer \in [Indices -> 0 .. MaxWrites]
  /\ m \in Readers \cup {Writer, Unlocked}
  /\ lock_sequence \in 0 .. (2 * MaxWrites)
  /\ wpc \in {"idle", "begin", "copy"}
  /\ wi \in 0 .. N /\ written \in 0 .. MaxWrites
  /\ rpc \in [Readers -> {"call", "lock", "before", "copy", "test", "done"}]
  /\ ri \in [Readers -> 0 .. N]
  /\ temp \in [Readers -> [Indices -> 0 .. Garbage]]
  /\ lock_before \in [Readers -> 0 .. (2 * MaxWrites)]
  /\ lock_after \in [Readers -> 0 .. (2 * MaxWrites)]
  /\ kind \in [Readers -> {"read", "read_sequence"}]
  /\ since \in [Readers -> 0 .. MaxWrites]
  /\ skipped \in [Readers -> BOOLEAN]

\* all elements come from one write, and not from one that was already
\* overwritten when the reader made its call
Whole(r) == \E v \in since[r] .. MaxWrites : \A k \in Indices : temp[r][k] = v

\* read returns the array as one write left it, the last one or a later one.
ReadWhole ==
  \A r \in Readers : rpc[r] = "done" /\ kind[r] = "read" => Whole(r)

\* So does read_sequence when its last turn did not start during a write:
\* the check of the two sequence numbers catches every write in between.
SequenceWhole ==
  \A r \in Readers :
    rpc[r] = "done" /\ kind[r] = "read_sequence" /\ ~skipped[r] => Whole(r)

\* README.md, section shared_array: read_sequence "continually retries the
\* read until the read completes with no intervening write".
SequenceRetries ==
  \A r \in Readers : rpc[r] = "done" /\ kind[r] = "read_sequence" => Whole(r)
=============================================================================
