-------------------------- MODULE SharedArrayProofs --------------------------
(***************************************************************************)
(* Proofs about Shared_Array, for arrays of any size, any number of        *)
(* readers of either kind and any number of writes.                        *)
(*                                                                         *)
(* What read and read_sequence return is not inductive: it needs the       *)
(* parity of lock_sequence, what the writer has left in the buffer so far, *)
(* who has the mutex, and, for a copy in progress, that it is a copy of    *)
(* one write unless lock_sequence has moved since lock_before was read.    *)
(***************************************************************************)
EXTENDS SharedArray, Integers, TLAPS

USE DEF MutexFree, NextSequence, Changed

\* The mutex is held by the writer inside write, or by a reader inside read.
MutexOwned ==
  /\ m = Writer <=> wpc # "idle"
  /\ \A r \in Readers : m = r <=> kind[r] = "read" /\ rpc[r] = "copy"

\* lock_sequence counts the starts and the ends of the writes.
Counted ==
  /\ wpc = "begin" => written < MaxWrites
  /\ wpc = "copy" => written > 0 /\ lock_sequence = 2 * written - 1
  /\ wpc # "copy" => lock_sequence = 2 * written

\* The buffer holds the last write, or its first elements.
BufferInStep ==
  \A k \in Indices :
    buffer[k] = IF wpc = "copy" /\ wi <= k THEN written - 1 ELSE written

\* Which function a reader is in.
Calls(r) ==
  /\ rpc[r] = "lock" => kind[r] = "read"
  /\ rpc[r] \in {"before", "test"} => kind[r] = "read_sequence"
  /\ rpc[r] \in {"call", "lock"} => ri[r] = 0

\* The first elements of a copy that is being made come from write v.
CopyOf(r, v) == \A k \in Indices : k < ri[r] => temp[r][k] = v

ReadInStep(r) ==
  kind[r] = "read" =>
    /\ rpc[r] = "copy" => CopyOf(r, written)
    /\ rpc[r] = "done" => Whole(r)

\* A copy begun between two writes is a copy of the earlier one, unless
\* lock_sequence has moved.
SequenceInStep(r) ==
  kind[r] = "read_sequence" =>
    /\ rpc[r] = "copy" =>
         \E v \in since[r] .. MaxWrites :
           /\ lock_before[r] = 2 * v /\ 2 * v <= lock_sequence
           /\ lock_sequence = 2 * v => CopyOf(r, v)
    /\ rpc[r] = "test" /\ ~skipped[r] /\ lock_before[r] = lock_after[r] => Whole(r)
    /\ rpc[r] = "done" /\ ~skipped[r] => Whole(r)

ReaderInStep(r) ==
  Calls(r) /\ since[r] <= Complete /\ ReadInStep(r) /\ SequenceInStep(r)

IInv ==
  /\ TypeOK /\ MutexOwned /\ Counted /\ BufferInStep
  /\ \A r \in Readers : ReaderInStep(r)

-----------------------------------------------------------------------------
\* An even lock_sequence is that of the last write, which is over.
LEMMA Between ==
  ASSUME TypeOK, Counted, NEW v \in Nat, lock_sequence = 2 * v
  PROVE  wpc # "copy" /\ written = v
<1>1. written \in Nat
  BY SharedArrayAssumption DEF TypeOK
<1>2. 2 * written - 1 # 2 * v
  BY <1>1
<1>3. QED
  BY <1>1, <1>2 DEF Counted

\* An even lock_sequence counts two for each write, and they are all over.
LEMMA Even ==
  ASSUME TypeOK, Counted, lock_sequence % 2 # 1
  PROVE  written \in Nat /\ wpc # "copy" /\ lock_sequence = 2 * written
<1>1. written \in Nat
  BY SharedArrayAssumption DEF TypeOK
<1>2. written > 0 => (2 * written - 1) % 2 = 1
  BY <1>1
<1>3. QED
  BY <1>1, <1>2 DEF Counted

-----------------------------------------------------------------------------
\* What the writer's step and the reader's step have in common: a reader
\* whose own variables are left alone stays in step.
Untouched(r) ==
  /\ rpc'[r] = rpc[r] /\ ri'[r] = ri[r] /\ temp'[r] = temp[r]
  /\ lock_before'[r] = lock_before[r] /\ lock_after'[r] = lock_after[r]
  /\ kind'[r] = kind[r] /\ since'[r] = since[r] /\ skipped'[r] = skipped[r]

\* A writer that comes nowhere near a reader inside read leaves it in step,
\* and one inside read_sequence sees lock_sequence only grow.
LEMMA UntouchedInStep ==
  ASSUME TypeOK, NEW r \in Readers, ReaderInStep(r), Untouched(r),
         lock_sequence' \in Nat, lock_sequence <= lock_sequence',
         Complete \in Int, Complete' \in Int, Complete <= Complete',
         kind[r] = "read" /\ rpc[r] = "copy" => written' = written
  PROVE  ReaderInStep(r)'
<1>1. Calls(r)'
  BY DEF ReaderInStep, Calls, Untouched
<1>2. since'[r] <= Complete'
  BY DEF ReaderInStep, Untouched, TypeOK
<1>3. Whole(r) => Whole(r)'
  BY DEF Whole, Untouched
<1>4. ReadInStep(r)'
  BY <1>3 DEF ReaderInStep, ReadInStep, CopyOf, Untouched
<1>5. SequenceInStep(r)'
  <2>1. CASE kind[r] = "read_sequence" /\ rpc[r] = "copy"
    <3>1. PICK v \in since[r] .. MaxWrites :
            /\ lock_before[r] = 2 * v /\ 2 * v <= lock_sequence
            /\ lock_sequence = 2 * v => CopyOf(r, v)
      BY <2>1 DEF ReaderInStep, SequenceInStep
    <3>2. v \in Nat /\ lock_sequence \in Nat
      BY SharedArrayAssumption DEF TypeOK
    <3>3. 2 * v <= lock_sequence' /\ (lock_sequence' = 2 * v => lock_sequence = 2 * v)
      BY <3>1, <3>2
    <3>4. CopyOf(r, v) => CopyOf(r, v)'
      BY DEF CopyOf, Untouched
    <3>5. QED
      BY <2>1, <3>1, <3>3, <3>4 DEF SequenceInStep, Untouched
  <2>2. CASE ~(kind[r] = "read_sequence" /\ rpc[r] = "copy")
    BY <1>3, <2>2 DEF ReaderInStep, SequenceInStep, Untouched
  <2>3. QED
    BY <2>1, <2>2
<1>6. QED
  BY <1>1, <1>2, <1>4, <1>5 DEF ReaderInStep

-----------------------------------------------------------------------------
\* What a step of the writer has to show, besides its own invariants.
LEMMA WriterStepKeeps ==
  ASSUME IInv, UNCHANGED readerVars, TypeOK', MutexOwned', Counted', BufferInStep',
         lock_sequence <= lock_sequence', Complete <= Complete',
         written' = written \/ wpc = "begin"
  PROVE  IInv'
<1>1. lock_sequence' \in Nat /\ Complete \in Int /\ Complete' \in Int
  BY SharedArrayAssumption DEF IInv, TypeOK, Complete
<1>2. ASSUME NEW r \in Readers PROVE ReaderInStep(r)'
  <2>1. Untouched(r)
    BY DEF Untouched, readerVars
  <2>2. kind[r] = "read" /\ rpc[r] = "copy" => written' = written
    BY SharedArrayAssumption DEF IInv, MutexOwned
  <2>3. QED
    BY <1>1, <2>1, <2>2, UntouchedInStep DEF IInv
<1>3. QED
  BY <1>2 DEF IInv

\* Taking the mutex begins no write yet.
LEMMA WriteLockKeeps == IInv /\ WriteLock => IInv'
<1> SUFFICES ASSUME IInv, WriteLock PROVE IInv'
  OBVIOUS
<1>1. TypeOK'
  BY DEF IInv, TypeOK, WriteLock, readerVars
<1>2. MutexOwned'
  BY SharedArrayAssumption DEF IInv, MutexOwned, WriteLock, readerVars
<1>3. Counted' /\ BufferInStep'
  BY DEF IInv, TypeOK, Counted, BufferInStep, WriteLock
<1>4. lock_sequence <= lock_sequence' /\ Complete <= Complete' /\ written' = written
  BY SharedArrayAssumption DEF IInv, TypeOK, Complete, WriteLock
<1>5. QED
  BY <1>1, <1>2, <1>3, <1>4, WriterStepKeeps DEF WriteLock

\* lock_sequence becomes odd before the first element is written.
LEMMA WriteBeginKeeps == IInv /\ WriteBegin => IInv'
<1> SUFFICES ASSUME IInv, WriteBegin PROVE IInv'
  OBVIOUS
<1>1. TypeOK'
  BY SharedArrayAssumption DEF IInv, TypeOK, Counted, WriteBegin, readerVars
<1>2. MutexOwned'
  BY SharedArrayAssumption DEF IInv, MutexOwned, WriteBegin, readerVars
<1>3. Counted'
  BY SharedArrayAssumption DEF IInv, TypeOK, Counted, WriteBegin
<1>4. BufferInStep'
  BY SharedArrayAssumption DEF IInv, TypeOK, BufferInStep, Indices, WriteBegin
<1>5. lock_sequence <= lock_sequence' /\ Complete <= Complete'
  BY SharedArrayAssumption DEF IInv, TypeOK, Complete, WriteBegin
<1>6. QED
  BY <1>1, <1>2, <1>3, <1>4, <1>5, WriterStepKeeps DEF WriteBegin

\* One more element holds the current write.
LEMMA WriteElementKeeps == IInv /\ WriteElement => IInv'
<1> SUFFICES ASSUME IInv, WriteElement PROVE IInv'
  OBVIOUS
<1>1. TypeOK'
  <2>1. wi' \in 0 .. N
    BY SharedArrayAssumption DEF IInv, TypeOK, WriteElement
  <2>2. written \in 0 .. MaxWrites /\ buffer \in [Indices -> 0 .. MaxWrites]
    BY DEF IInv, TypeOK
  <2>3. buffer' \in [Indices -> 0 .. MaxWrites]
    BY <2>2 DEF WriteElement
  <2>4. QED
    BY <2>1, <2>3 DEF IInv, TypeOK, WriteElement, readerVars
<1>2. MutexOwned' /\ Counted'
  BY DEF IInv, MutexOwned, Counted, WriteElement, readerVars
<1>3. BufferInStep'
  BY SharedArrayAssumption DEF IInv, TypeOK, BufferInStep, Indices, WriteElement
<1>4. lock_sequence <= lock_sequence' /\ Complete <= Complete' /\ written' = written
  BY SharedArrayAssumption DEF IInv, TypeOK, Complete, WriteElement
<1>5. QED
  BY <1>1, <1>2, <1>3, <1>4, WriterStepKeeps DEF WriteElement

\* lock_sequence becomes even after the last one.
LEMMA WriteEndKeeps == IInv /\ WriteEnd => IInv'
<1> SUFFICES ASSUME IInv, WriteEnd PROVE IInv'
  OBVIOUS
<1>1. TypeOK'
  BY SharedArrayAssumption DEF IInv, TypeOK, Counted, WriteEnd, readerVars
<1>2. MutexOwned'
  BY SharedArrayAssumption DEF IInv, MutexOwned, WriteEnd, readerVars
<1>3. Counted'
  BY SharedArrayAssumption DEF IInv, TypeOK, Counted, WriteEnd
<1>4. BufferInStep'
  BY SharedArrayAssumption DEF IInv, TypeOK, BufferInStep, Indices, WriteEnd
<1>5. lock_sequence <= lock_sequence' /\ Complete <= Complete' /\ written' = written
  BY SharedArrayAssumption DEF IInv, TypeOK, Complete, WriteEnd
<1>6. QED
  BY <1>1, <1>2, <1>3, <1>4, <1>5, WriterStepKeeps DEF WriteEnd

-----------------------------------------------------------------------------
\* A step of reader q: what it has to show, besides its own invariants.  The
\* mutex may pass only between q and nobody.
ReaderFrame(q) ==
  /\ UNCHANGED <<buffer, lock_sequence, writerVars>>
  /\ \A r \in Readers \ {q} : Untouched(r)
  /\ m' = m \/ {m, m'} = {q, Unlocked}

\* A step of one reader keeps the invariant if that reader is in step after it.
LEMMA ReaderStepKeeps ==
  ASSUME IInv, NEW q \in Readers, ReaderFrame(q), TypeOK', ReaderInStep(q)',
         m' = q <=> kind'[q] = "read" /\ rpc'[q] = "copy"
  PROVE  IInv'
<1>1. UNCHANGED <<buffer, lock_sequence, wpc, wi, written>> /\ Complete' = Complete
  BY DEF ReaderFrame, writerVars, Complete
<1>2. Complete \in Int /\ lock_sequence \in Nat
  BY SharedArrayAssumption DEF IInv, TypeOK, Complete
<1>3. ASSUME NEW r \in Readers PROVE ReaderInStep(r)'
  <2>1. CASE r = q
    BY <2>1
  <2>2. CASE r # q
    BY <1>1, <1>2, <2>2, UntouchedInStep DEF IInv, ReaderFrame
  <2>3. QED
    BY <2>1, <2>2
<1>4. Counted' /\ BufferInStep'
  BY <1>1 DEF IInv, Counted, BufferInStep
<1>5. MutexOwned'
  BY <1>1, SharedArrayAssumption DEF IInv, MutexOwned, ReaderFrame, Untouched
<1>6. QED
  BY <1>3, <1>4, <1>5 DEF IInv

\* The call only notes which writes are over.
LEMMA CallKeeps ==
  ASSUME IInv, NEW q \in Readers, Call(q)
  PROVE  IInv'
<1>1. ReaderFrame(q)
  BY DEF IInv, TypeOK, ReaderFrame, Untouched, Call
<1>2. TypeOK'
  <2>1. Complete \in 0 .. MaxWrites
    BY SharedArrayAssumption DEF IInv, TypeOK, Counted, Complete
  <2>2. QED
    BY <2>1 DEF IInv, TypeOK, Call, writerVars
<1>3. ReaderInStep(q)'
  BY SharedArrayAssumption
  DEF IInv, TypeOK, ReaderInStep, Calls, ReadInStep, SequenceInStep, Call, Complete, writerVars
<1>4. QED
  BY <1>1, <1>2, <1>3, ReaderStepKeeps DEF IInv, TypeOK, MutexOwned, Call

\* An element copied while lock_sequence is that of write v comes from v.
LEMMA CopyElementKeeps ==
  ASSUME IInv, NEW q \in Readers, CopyElement(q)
  PROVE  IInv'
<1>1. ReaderFrame(q)
  BY DEF IInv, TypeOK, ReaderFrame, Untouched, CopyElement
<1>2. /\ ri[q] \in Indices /\ ri'[q] = ri[q] + 1 /\ temp'[q][ri[q]] = buffer[ri[q]]
      /\ \A k \in Indices : k # ri[q] => temp'[q][k] = temp[q][k]
  BY SharedArrayAssumption DEF IInv, TypeOK, Indices, CopyElement
<1>3. TypeOK'
  <2>1. buffer[ri[q]] \in 0 .. Garbage
    BY <1>2, SharedArrayAssumption DEF IInv, TypeOK, Garbage
  <2>2. temp' \in [Readers -> [Indices -> 0 .. Garbage]]
    BY <2>1 DEF IInv, TypeOK, CopyElement
  <2>3. ri' \in [Readers -> 0 .. N]
    BY <1>2, SharedArrayAssumption DEF IInv, TypeOK, CopyElement
  <2>4. QED
    BY <2>2, <2>3 DEF IInv, TypeOK, CopyElement, writerVars
<1>4. ASSUME NEW v \in Nat, CopyOf(q, v), buffer[ri[q]] = v
      PROVE  CopyOf(q, v)'
  <2>1. ASSUME NEW k \in Indices, k < ri'[q] PROVE temp'[q][k] = v
    <3>1. k = ri[q] \/ k < ri[q]
      BY <1>2, <2>1, SharedArrayAssumption DEF IInv, TypeOK, Indices
    <3>2. QED
      BY <1>2, <1>4, <3>1, SharedArrayAssumption DEF CopyOf
  <2>2. QED
    BY <2>1 DEF CopyOf
<1>5. ReaderInStep(q)'
  <2>1. /\ rpc'[q] = "copy" /\ rpc[q] = "copy"
        /\ UNCHANGED <<kind, since, lock_before, lock_sequence, written, wpc>>
    BY DEF IInv, TypeOK, CopyElement, writerVars
  <2>2. ReadInStep(q)'
    <3>1. ASSUME kind[q] = "read" PROVE CopyOf(q, written)'
      <4>1. wpc = "idle"
        BY <2>1, <3>1, SharedArrayAssumption DEF IInv, MutexOwned
      <4>2. CopyOf(q, written) /\ buffer[ri[q]] = written /\ written \in Nat
        BY <1>2, <2>1, <3>1, <4>1 DEF IInv, TypeOK, BufferInStep, ReaderInStep, ReadInStep
      <4>3. QED
        BY <1>4, <2>1, <4>2 DEF CopyOf
    <3>2. QED
      BY <2>1, <3>1 DEF ReadInStep
  <2>3. SequenceInStep(q)'
    <3>1. ASSUME kind[q] = "read_sequence"
          PROVE  \E v \in since[q] .. MaxWrites :
                   /\ lock_before[q] = 2 * v /\ 2 * v <= lock_sequence
                   /\ lock_sequence = 2 * v => CopyOf(q, v)'
      <4>1. PICK v \in since[q] .. MaxWrites :
              /\ lock_before[q] = 2 * v /\ 2 * v <= lock_sequence
              /\ lock_sequence = 2 * v => CopyOf(q, v)
        BY <2>1, <3>1 DEF IInv, ReaderInStep, SequenceInStep
      <4>2. v \in Nat
        BY DEF IInv, TypeOK
      <4>3. ASSUME lock_sequence = 2 * v PROVE CopyOf(q, v)'
        <5>1. wpc # "copy" /\ written = v
          BY <4>2, <4>3, Between DEF IInv
        <5>2. buffer[ri[q]] = v
          BY <1>2, <5>1 DEF IInv, BufferInStep
        <5>3. QED
          BY <1>4, <4>1, <4>2, <4>3, <5>2
      <4>4. QED
        BY <4>1, <4>3
    <3>2. QED
      BY <2>1, <3>1 DEF SequenceInStep, CopyOf
  <2>4. QED
    BY <2>1, <2>2, <2>3 DEF IInv, ReaderInStep, Calls, Complete
<1>6. QED
  BY <1>1, <1>3, <1>5, ReaderStepKeeps DEF IInv, TypeOK, MutexOwned, CopyElement

\* read begins its copy at the first element.
LEMMA ReadLockKeeps ==
  ASSUME IInv, NEW q \in Readers, ReadLock(q)
  PROVE  IInv'
<1>1. ReaderFrame(q)
  BY DEF IInv, TypeOK, ReaderFrame, Untouched, ReadLock
<1>2. TypeOK'
  BY DEF IInv, TypeOK, ReadLock, writerVars
<1>3. /\ kind'[q] = "read" /\ rpc'[q] = "copy" /\ ri'[q] = 0 /\ m' = q
      /\ since'[q] = since[q] /\ UNCHANGED <<wpc, written>>
  BY DEF IInv, TypeOK, ReaderInStep, Calls, ReadLock, writerVars
<1>4. ReaderInStep(q)'
  BY <1>3, SharedArrayAssumption
  DEF IInv, ReaderInStep, Calls, ReadInStep, SequenceInStep, CopyOf, Indices, Complete
<1>5. QED
  BY <1>1, <1>2, <1>3, <1>4, ReaderStepKeeps

\* read returns the last write, which was not over before since.
LEMMA ReadUnlockKeeps ==
  ASSUME IInv, NEW q \in Readers, ReadUnlock(q)
  PROVE  IInv'
<1>1. ReaderFrame(q)
  BY DEF IInv, TypeOK, MutexOwned, ReaderFrame, Untouched, ReadUnlock
<1>2. TypeOK'
  BY DEF IInv, TypeOK, ReadUnlock, writerVars
<1>3. /\ kind[q] = "read" /\ rpc[q] = "copy" /\ ri[q] = N /\ m' = Unlocked
      /\ kind'[q] = "read" /\ rpc'[q] = "done"
      /\ UNCHANGED <<since, temp, wpc, written>>
  BY DEF IInv, TypeOK, ReadUnlock, writerVars
<1>4. Whole(q)'
  <2>1. written \in since[q] .. MaxWrites
    BY <1>3, SharedArrayAssumption DEF IInv, TypeOK, MutexOwned, ReaderInStep, Complete
  <2>2. \A k \in Indices : temp[q][k] = written
    BY <1>3, SharedArrayAssumption DEF IInv, ReaderInStep, ReadInStep, CopyOf, Indices
  <2>3. QED
    BY <1>3, <2>1, <2>2 DEF Whole
<1>5. ReaderInStep(q)'
  BY <1>3, <1>4 DEF IInv, ReaderInStep, Calls, ReadInStep, SequenceInStep, Complete
<1>6. QED
  BY <1>1, <1>2, <1>3, <1>5, ReaderStepKeeps, SharedArrayAssumption

\* A sequence number that is even is that of a write that is over, and no
\* earlier one than since.
LEMMA SequenceBeforeKeeps ==
  ASSUME IInv, NEW q \in Readers, SequenceBefore(q)
  PROVE  IInv'
<1>1. ReaderFrame(q)
  BY DEF IInv, TypeOK, ReaderFrame, Untouched, SequenceBefore
<1>2. TypeOK'
  BY SharedArrayAssumption DEF IInv, TypeOK, SequenceBefore, writerVars
<1>3. /\ kind'[q] = "read_sequence" /\ kind[q] = "read_sequence" /\ m' = m
      /\ rpc[q] = "before" /\ ri'[q] = 0 /\ lock_before'[q] = lock_sequence
      /\ skipped'[q] = (lock_sequence % 2 = 1)
      /\ rpc'[q] = IF lock_sequence % 2 = 1 THEN "test" ELSE "copy"
      /\ UNCHANGED <<since, wpc, written, lock_sequence>>
  BY DEF IInv, TypeOK, ReaderInStep, Calls, SequenceBefore, writerVars
<1>4. SequenceInStep(q)'
  <2>1. CASE lock_sequence % 2 = 1
    BY <1>3, <2>1 DEF SequenceInStep
  <2>2. CASE lock_sequence % 2 # 1
    <3>1. written \in Nat /\ wpc # "copy" /\ lock_sequence = 2 * written
      BY <2>2, Even DEF IInv
    <3>2. written \in since[q] .. MaxWrites
      BY <3>1, SharedArrayAssumption DEF IInv, TypeOK, ReaderInStep, Complete
    <3>3. CopyOf(q, written)'
      BY <1>3, SharedArrayAssumption DEF CopyOf, Indices
    <3>4. QED
      BY <1>3, <2>2, <3>1, <3>2, <3>3 DEF SequenceInStep, CopyOf
  <2>3. QED
    BY <2>1, <2>2
<1>5. ReaderInStep(q)'
  BY <1>3, <1>4 DEF IInv, ReaderInStep, Calls, ReadInStep, Complete
<1>6. QED
  BY <1>1, <1>2, <1>3, <1>5, ReaderStepKeeps DEF IInv, MutexOwned

\* If lock_sequence has not moved since, the copy is whole.
LEMMA SequenceAfterKeeps ==
  ASSUME IInv, NEW q \in Readers, SequenceAfter(q)
  PROVE  IInv'
<1>1. ReaderFrame(q)
  BY DEF IInv, TypeOK, ReaderFrame, Untouched, SequenceAfter
<1>2. TypeOK'
  BY SharedArrayAssumption DEF IInv, TypeOK, SequenceAfter, writerVars
<1>3. /\ kind'[q] = "read_sequence" /\ kind[q] = "read_sequence" /\ m' = m
      /\ rpc[q] = "copy" /\ rpc'[q] = "test" /\ ri[q] = N
      /\ lock_after'[q] = lock_sequence
      /\ UNCHANGED <<since, temp, lock_before, wpc, written>>
  BY DEF IInv, TypeOK, SequenceAfter, writerVars
<1>4. ASSUME lock_before[q] = lock_sequence PROVE Whole(q)
  <2>1. PICK v \in since[q] .. MaxWrites :
          /\ lock_before[q] = 2 * v
          /\ lock_sequence = 2 * v => CopyOf(q, v)
    BY <1>3 DEF IInv, ReaderInStep, SequenceInStep
  <2>2. \A k \in Indices : temp[q][k] = v
    BY <1>3, <1>4, <2>1, SharedArrayAssumption DEF CopyOf, Indices
  <2>3. QED
    BY <2>2 DEF Whole
<1>5. SequenceInStep(q)'
  BY <1>3, <1>4 DEF SequenceInStep, Whole
<1>6. ReaderInStep(q)'
  BY <1>3, <1>5 DEF IInv, ReaderInStep, Calls, ReadInStep, Complete
<1>7. QED
  BY <1>1, <1>2, <1>3, <1>6, ReaderStepKeeps DEF IInv, MutexOwned

\* The loop is left with equal numbers.
LEMMA SequenceTestKeeps ==
  ASSUME IInv, NEW q \in Readers, SequenceTest(q)
  PROVE  IInv'
<1>1. ReaderFrame(q)
  BY DEF IInv, TypeOK, ReaderFrame, Untouched, SequenceTest
<1>2. TypeOK'
  BY DEF IInv, TypeOK, SequenceTest, writerVars
<1>3. /\ kind'[q] = "read_sequence" /\ kind[q] = "read_sequence" /\ m' = m
      /\ rpc[q] = "test"
      /\ rpc'[q] = IF lock_before[q] # lock_after[q] THEN "before" ELSE "done"
      /\ UNCHANGED <<since, temp, lock_before, lock_after, skipped, wpc, written>>
  BY DEF IInv, TypeOK, ReaderInStep, Calls, SequenceTest, writerVars
<1>4. SequenceInStep(q)'
  BY <1>3 DEF IInv, ReaderInStep, SequenceInStep, Whole
<1>5. ReaderInStep(q)'
  BY <1>3, <1>4 DEF IInv, ReaderInStep, Calls, ReadInStep, Complete
<1>6. QED
  BY <1>1, <1>2, <1>3, <1>5, ReaderStepKeeps DEF IInv, MutexOwned

-----------------------------------------------------------------------------
\* The invariant holds before anyone has read or written.
LEMMA InitEstablishes == Init => IInv
<1> SUFFICES ASSUME Init PROVE IInv
  OBVIOUS
<1>1. TypeOK
  <2>1. /\ skipped \in [Readers -> BOOLEAN]
        /\ kind \in [Readers -> {"read", "read_sequence"}]
        /\ rpc \in [Readers -> {"call", "lock", "before", "copy", "test", "done"}]
        /\ wpc \in {"idle", "begin", "copy"}
    BY DEF Init
  <2>2. QED
    BY <2>1, SharedArrayAssumption DEF Init, TypeOK, Garbage
<1>2. MutexOwned
  BY SharedArrayAssumption DEF Init, MutexOwned
<1>3. Counted /\ BufferInStep
  BY DEF Init, Counted, BufferInStep
<1>4. ASSUME NEW r \in Readers PROVE ReaderInStep(r)
  BY DEF Init, ReaderInStep, Calls, ReadInStep, SequenceInStep, Complete
<1>5. QED
  BY <1>1, <1>2, <1>3, <1>4 DEF IInv

\* Every step of the writer and of the readers preserves it.
LEMMA NextKeeps == IInv /\ [Next]_vars => IInv'
<1> SUFFICES ASSUME IInv, [Next]_vars PROVE IInv'
  OBVIOUS
<1>1. CASE WriterStep
  BY <1>1, WriteLockKeeps, WriteBeginKeeps, WriteElementKeeps, WriteEndKeeps DEF WriterStep
<1>2. ASSUME NEW r \in Readers, ReaderStep(r) PROVE IInv'
  BY <1>2, CallKeeps, CopyElementKeeps, ReadLockKeeps, ReadUnlockKeeps,
     SequenceBeforeKeeps, SequenceAfterKeeps, SequenceTestKeeps DEF ReaderStep
<1>3. CASE UNCHANGED vars
  <2>1. /\ UNCHANGED <<buffer, m, lock_sequence, wpc, wi, written>>
        /\ UNCHANGED readerVars /\ Complete' = Complete
    BY <1>3 DEF vars, writerVars, readerVars, Complete
  <2>2. TypeOK'
    BY <2>1 DEF IInv, TypeOK, readerVars
  <2>3. MutexOwned' /\ Counted' /\ BufferInStep'
    BY <2>1 DEF IInv, MutexOwned, Counted, BufferInStep, readerVars
  <2>4. lock_sequence <= lock_sequence' /\ Complete <= Complete'
    BY <2>1, SharedArrayAssumption DEF IInv, TypeOK, Complete
  <2>5. QED
    BY <2>1, <2>2, <2>3, <2>4, WriterStepKeeps
<1>4. QED
  BY <1>1, <1>2, <1>3 DEF Next

\* The strengthened invariant, for every array and every number of readers.
THEOREM Invariance == Spec => []IInv
BY InitEstablishes, NextKeeps, PTL DEF Spec

\* Every element and every local keeps its type.
THEOREM TypeCorrect == Spec => []TypeOK
BY Invariance, PTL DEF IInv

\* read returns one write, none that was over before the last one when the
\* reader made its call.
THEOREM ReadsWhole == Spec => []ReadWhole
<1>1. IInv => ReadWhole
  BY DEF IInv, ReaderInStep, ReadInStep, ReadWhole
<1>2. QED
  BY <1>1, Invariance, PTL

\* The two sequence numbers catch every write during the copy, however the
\* steps of the writer and the reader interleave.
THEOREM SequencesWhole == Spec => []SequenceWhole
<1>1. IInv => SequenceWhole
  BY DEF IInv, ReaderInStep, SequenceInStep, SequenceWhole
<1>2. QED
  BY <1>1, Invariance, PTL
=============================================================================
