---------------------------- MODULE ChartProofs ----------------------------
(***************************************************************************)
(* Proofs about markHopo, for tracks of every length on any frets.         *)
(*                                                                         *)
(* HopoHasStart and RunGoesOn speak of the finished track.  The invariant  *)
(* says, for the first loop, which marks a note can have by how it follows *)
(* the one before and is followed by the next (Fact); for the second loop, *)
(* that this is still true of the notes to come, that the two properties   *)
(* hold of the notes that are over, which marks the last note can have     *)
(* (LastMark) and what is remembered of the notes before it (Registers).   *)
(* Notes on one fret do not overlap (ReaderInv), so two notes of a chord   *)
(* are on different frets.                                                 *)
(***************************************************************************)
EXTENDS Chart, SequenceTheorems, WellFoundedInduction, TLAPS

\* How a note follows the one before, if that is near: in the same chord, on
\* the same fret, or so that it can be hammered.
Joined(i) == Near(i) /\ Distance(i) = 0
Same(i) == Near(i) /\ SameFret(i)
Open(i) == Near(i) /\ ~SameFret(i) /\ Distance(i) >= 1

ChordMark == IF hopoAfterChord THEN -4 ELSE -1

\* What the first loop, which has seen the notes to p, says of note j.
Fact(m, p, j) ==
  /\ m[j] # 2 /\ (m[j] = 1 => j = 1 /\ Near(2))
  /\ (Joined(j + 1) /\ j < p) => m[j] = ChordMark
  /\ Joined(j) => \/ m[j] = ChordMark
                  \/ m[j] = -1 /\ j < p /\ ~Near(j + 1)
                  \/ ~hopoAfterChord /\ m[j] = -2 /\ j < p /\ Same(j + 1)
  /\ (Same(j) /\ ~(hopoAfterChord /\ Joined(j - 1))) => m[j] < 0
  /\ (Same(j + 1) /\ j < p /\ ~(hopoAfterChord /\ Joined(j)))
       => m[j] = -2 \/ (m[j] \in {0, -5} /\ hopoAfterChord /\ Joined(j + 2) /\ j + 1 < p)
  /\ (Near(j) /\ j < p /\ ~Near(j + 1)) => m[j] \in {3, -1}
  /\ m[j] = 3 => Near(j) /\ j < p /\ ~Near(j + 1)
  /\ (Open(j) /\ j = p) => m[j] = 0
  /\ m[j] = -4 => hopoAfterChord /\ (Joined(j) \/ (Joined(j + 1) /\ j < p))
  /\ m[j] = -2 => Same(j) \/ (Same(j + 1) /\ j < p)

FirstInv(m, l) ==
  /\ \A j \in 1 .. l : Fact(m, l, j)
  /\ \A j \in l + 1 .. Len(track) : m[j] = 0

\* The last note has been taken from hopoNotes for the second time.
Again == ListedTwice /\ last = Len(track) /\ before = last

\* What the second loop remembers of the notes before.
Registers ==
  /\ last \in hopoNotes
  /\ before \in 1 .. last /\ before2 \in 1 .. last /\ before3 = before2
  /\ ~Again =>
       /\ Near(last) => before = last - 1 /\ d = Distance(last)
       /\ ~Near(last) => before = last \/ d > hopoDelta
       /\ Joined(last) /\ Joined(last - 1) => before2 = last - 2 /\ d1 < chordFudge
       /\ Joined(last) /\ d1 < chordFudge
            => before2 = before \/ (Joined(last - 1) /\ before2 = last - 2)

\* The mark of the note it saw last, which the next turn may still change.
LastMark(m, l) ==
  /\ l < Len(track) /\ ~Near(l + 1) => m[l] \in {-1, 0, 3}
  /\ Joined(l + 1) => m[l] = ChordMark
  /\ Same(l + 1) =>
       IF hopoAfterChord /\ Joined(l) THEN m[l] = -4
       ELSE m[l] \in {-2, 3} \/ (m[l] \in {1, 2, -5} /\ hopoAfterChord /\ Joined(l + 2))
  /\ Open(l + 1) => /\ m[l] # 0 /\ (m[l] \in {1, 2, -2, -5} => ~Joined(l))
                    /\ m[l] = -4 => hopoAfterChord /\ Joined(l)
  /\ Open(l) /\ l = Len(track) => m[l] \in {1, 2}

\* What is hammered follows what starts or continues a run.
Follows(m, j) ==
  m[j] \in {2, 3} =>
    /\ Near(j) /\ ~Joined(j) /\ ~Joined(j + 1)
    /\ Joined(j - 1) \/ ~SameFret(j)
    /\ \A k \in Notes : j - 3 <= k /\ k < j /\ track[k].time = track[j - 1].time
                          => m[k] \in {1, 2}

\* w is the note after the chord of j.
Leads(j, w) == j < w /\ track[j].time = track[w - 1].time /\ Near(w) /\ ~Joined(w)

GoesOn(m, l, j) ==
  m[j] \in {1, 2} => j = l \/ \E w \in 1 .. l : Leads(j, w) /\ m[w] \in {2, 3}

SecondInv ==
  /\ \A j \in last + 1 .. Len(track) : Fact(marks, Len(track), j)
  /\ last # 0 => Registers /\ LastMark(marks, last)
  /\ \A j \in 1 .. last : Follows(marks, j) /\ GoesOn(marks, last, j)

DoneInv ==
  \A j \in Notes :
    /\ Follows(marks, j)
    /\ marks[j] \in {1, 2} =>
         \E w \in Notes : Leads(j, w) /\ (marks[w] \in {2, 3} \/ w = Len(track))

\* Notes on one fret do not overlap.
ReaderInv ==
  /\ phase = "read" =>
       /\ last = 0 /\ before = 0
       /\ \A i \in Notes : track[i].time < now
       /\ \A f \in Frets : heldNotes[f] # None =>
            heldNotes[f] <= now /\ \A i \in Notes : track[i].number = f => track[i].time < heldNotes[f]
  /\ \A i, j \in Notes : i < j /\ track[i].number = track[j].number => track[i].time < track[j].time

IInv ==
  /\ TypeOK /\ ReaderInv
  /\ InOrder => /\ phase = "first" => FirstInv(marks, last)
                /\ phase = "second" => SecondInv
                /\ phase = "done" => DoneInv

-----------------------------------------------------------------------------
\* Notes and distances

\* The values the proofs compute with.
LEMMA Values ==
  ASSUME TypeOK
  PROVE  /\ Len(track) \in Nat /\ Notes = 1 .. Len(track)
         /\ \A i \in Notes : track[i].time \in Nat /\ track[i].number \in Int
         /\ \A i \in Notes : track[i].time \in 0 .. MaxTime /\ track[i].number \in Frets
<1>1. track \in Seq(Note) /\ Len(track) \in Nat
  BY DEF TypeOK
<1>2. \A i \in Notes : track[i] \in Note
  BY <1>1, ElementOfSeq DEF Notes
<1>3. \A i \in Notes : track[i].time \in 0 .. MaxTime /\ track[i].number \in Frets
  BY <1>2 DEF Note
<1>4. Frets \subseteq 0 .. 4 /\ MaxTime \in Nat
  BY ChartAssumption DEF chordFudge
<1>5. \A i \in Notes : track[i].time \in Nat /\ track[i].number \in Int
  <2>1. \A x \in 0 .. MaxTime : x \in Nat
    BY <1>4
  <2>2. \A x \in Frets : x \in Int
    BY <1>4
  <2> QED  BY <1>3, <2>1, <2>2
<1> QED  BY <1>1, <1>3, <1>5 DEF Notes

\* A distance is a natural number, and a note that is near follows another in
\* just one of three ways.
LEMMA Links ==
  ASSUME TypeOK, ReaderInv, InOrder, NEW i \in Int
  PROVE  /\ Near(i) <=> i \in 2 .. Len(track) /\ Distance(i) <= hopoDelta
         /\ Joined(i) \/ Same(i) \/ Open(i) <=> Near(i)
         /\ ~(Joined(i) /\ Same(i)) /\ ~(Joined(i) /\ Open(i)) /\ ~(Same(i) /\ Open(i))
         /\ Near(i) => i >= 2 /\ i <= Len(track) /\ i \in Notes /\ i - 1 \in Notes
         /\ i \in 2 .. Len(track) => Distance(i) \in Nat /\ Distance(i) = track[i].time - track[i - 1].time
         /\ i < 2 => Distance(i) = 0
         /\ Joined(i) => ~SameFret(i)
<1>1. Near(i) <=> i \in 2 .. Len(track) /\ Distance(i) <= hopoDelta
  BY DEF Near
<1>2. CASE ~(i \in 2 .. Len(track))
  BY <1>1, <1>2, Values DEF Joined, Same, Open, Distance
<1>3. CASE i \in 2 .. Len(track)
  <2>1. i \in Notes /\ i - 1 \in Notes /\ Len(track) \in Nat
    BY <1>3, Values
  <2>2. track[i].time \in Nat /\ track[i - 1].time \in Nat /\ track[i - 1].time <= track[i].time
    BY <2>1, Values DEF InOrder
  <2>3. Distance(i) \in Nat /\ Distance(i) = track[i].time - track[i - 1].time
    BY <1>3, <2>2 DEF Distance
  <2>4. SameFret(i) => Distance(i) >= 1
    BY <2>1, <2>2, <2>3 DEF SameFret, ReaderInv
  <2> QED  BY <1>1, <1>3, <2>1, <2>3, <2>4 DEF Joined, Same, Open
<1> QED  BY <1>2, <1>3

-----------------------------------------------------------------------------
\* The first loop

\* What the turn for note i writes, said of the links between the notes.
LEMMA FirstEffect ==
  ASSUME TypeOK, ReaderInv, InOrder, NEW m \in [Notes -> -5 .. 3], NEW i \in Notes, i > 1
  PROVE  LET M == FirstMark(m, i)
             a == IF i = 2 /\ Near(2) THEN 1 ELSE m[i - 1]
         IN  /\ M \in [Notes -> -5 .. 3]
             /\ \A j \in Notes : j > i \/ j < i - 2 => M[j] = m[j]
             /\ i > 2 /\ ~Joined(i) => M[i - 2] = m[i - 2]
             /\ ~Near(i) => /\ M[i] = m[i]
                            /\ M[i - 1] = IF Near(i - 1) /\ a # -1
                                          THEN IF a >= 0 THEN 3 ELSE -1 ELSE a
             /\ Same(i) => IF hopoAfterChord /\ a = -4 THEN M[i - 1] = -4 /\ M[i] = m[i]
                           ELSE M[i - 1] = -2 /\ M[i] \in {-2, -5} /\ (~hopoAfterChord => M[i] = -2)
             /\ Joined(i) => M[i - 1] = ChordMark /\ M[i] = ChordMark
             /\ Joined(i) /\ i > 2 =>
                  M[i - 2] = m[i - 2]
                    \/ /\ hopoAfterChord /\ m[i - 2] = -2 /\ Near(i - 1) /\ i > 3
                       /\ m[i - 3] >= 0 /\ Near(i - 2)
                       /\ (M[i - 2] = 0 /\ m[i - 1] = -2) \/ M[i - 2] = -5
             /\ Open(i) => M[i] = m[i] /\ M[i - 1] = a
<1> DEFINE M == FirstMark(m, i)
           k == IF i = 2 /\ Near(2) THEN [m EXCEPT ![1] = 1] ELSE m
<1>1. Len(track) \in Nat /\ Notes = 1 .. Len(track) /\ i \in 2 .. Len(track) /\ i # 1 /\ i \in Int
  BY Values
<1>2. /\ k \in [Notes -> -5 .. 3] /\ k[i - 1] = IF i = 2 /\ Near(2) THEN 1 ELSE m[i - 1]
      /\ \A j \in Notes : j # i - 1 => k[j] = m[j]
      /\ i > 2 => k = m
  BY <1>1
<1> HIDE DEF k
<1>3. ~Near(i) => M = MarkFar(k, i)
  BY <1>1, Zenon DEF FirstMark, k
<1>4. Same(i) => M = MarkSame(k, i)
  <2>1. SUFFICES ASSUME Same(i) PROVE M = MarkSame(k, i)
    OBVIOUS
  <2>2. Near(i) /\ SameFret(i) /\ i # 1
    BY <2>1, <1>1 DEF Same
  <2> QED  BY <1>1, <2>2, Zenon DEF FirstMark, k
<1>5. Joined(i) => M = MarkChord(k, i)
  <2>1. SUFFICES ASSUME Joined(i) PROVE M = MarkChord(k, i)
    OBVIOUS
  <2>2. Near(i) /\ ~SameFret(i) /\ i # 1 /\ Distance(i) < chordFudge
    BY <2>1, <1>1, Links DEF Joined, chordFudge
  <2> QED  BY <1>1, <2>2, Zenon DEF FirstMark, k
<1>6. Open(i) => M = k
  <2>1. SUFFICES ASSUME Open(i) PROVE M = k
    OBVIOUS
  <2>2. Near(i) /\ ~SameFret(i) /\ i # 1 /\ ~(Distance(i) < chordFudge)
    BY <2>1, <1>1, Links DEF Open, chordFudge
  <2> QED  BY <1>1, <2>2, Zenon DEF FirstMark, k
<1> HIDE DEF M
<1>7. CASE ~Near(i)
  <2>1. ~Same(i) /\ ~Joined(i) /\ ~Open(i)
    BY <1>7 DEF Same, Joined, Open
  <2>2. M = IF Near(i - 1) /\ k[i - 1] # -1
            THEN [k EXCEPT ![i - 1] = IF k[i - 1] >= 0 THEN 3 ELSE -1] ELSE k
    BY <1>3, <1>7 DEF MarkFar
  <2> QED  BY <1>1, <1>2, <1>7, <2>1, <2>2 DEF M
<1>8. CASE Same(i)
  <2>1. Near(i) /\ ~Joined(i) /\ ~Open(i)
    BY <1>1, <1>8, Links DEF Same
  <2> DEFINE v == IF k[Back(i, 2)] = -4 /\ Distance(i - 1) <= hopoDelta THEN -5 ELSE -2
  <2>2. M = IF ~hopoAfterChord THEN [k EXCEPT ![i] = -2, ![i - 1] = -2]
            ELSE IF k[i - 1] = -4 THEN k
            ELSE [k EXCEPT ![i - 1] = -2, ![i] = v]
    BY <1>4, <1>8, Zenon DEF MarkSame
  <2>3. v \in {-2, -5}
    OBVIOUS
  <2> HIDE DEF v
  <2>4. /\ M \in [Notes -> -5 .. 3]
        /\ \A j \in Notes : j # i /\ j # i - 1 => M[j] = k[j]
        /\ IF hopoAfterChord /\ k[i - 1] = -4 THEN M[i - 1] = -4 /\ M[i] = k[i]
           ELSE M[i - 1] = -2 /\ M[i] \in {-2, -5} /\ (~hopoAfterChord => M[i] = -2)
    <3>1. CASE ~hopoAfterChord
      BY <1>1, <1>2, <2>2, <3>1
    <3>2. CASE hopoAfterChord /\ k[i - 1] = -4
      BY <1>1, <1>2, <2>2, <3>2
    <3>3. CASE hopoAfterChord /\ k[i - 1] # -4
      BY <1>1, <1>2, <2>2, <2>3, <3>3
    <3> QED  BY <3>1, <3>2, <3>3
  <2> QED  BY <1>1, <1>2, <1>8, <2>1, <2>4 DEF M
<1>9. CASE Joined(i)
  <2>1. Near(i) /\ ~Same(i) /\ ~Open(i)
    BY <1>1, <1>9, Links DEF Joined
  <2> DEFINE b == Back(i, 2)
             after == k[b] = -2 /\ Distance(i - 1) <= hopoDelta
                        /\ k[Back(i, 3)] >= 0 /\ Distance(i - 2) <= hopoDelta
             l == IF after THEN [k EXCEPT ![b] = IF k[i - 1] = -2 THEN 0 ELSE -5] ELSE k
  <2>2. M = IF hopoAfterChord THEN [l EXCEPT ![i - 1] = -4, ![i] = -4]
                              ELSE [k EXCEPT ![i - 1] = -1, ![i] = -1]
    BY <1>5, <1>9 DEF MarkChord
  <2>3. /\ b \in Notes /\ (i > 2 => b = i - 2) /\ (i = 2 => b = 1)
        /\ Back(i, 3) = IF i > 3 THEN i - 3 ELSE 1
    BY <1>1 DEF Back
  <2>4. after => i > 3
    <3>1. i <= 3 => b = 1 /\ Back(i, 3) = 1
      BY <1>1, <2>3
    <3> QED  BY <1>1, <3>1
  <2>5. after => Near(i - 1) /\ Near(i - 2)
    BY <1>1, <2>4, Links
  <2>13. after => k[b] = -2
    OBVIOUS
  <2> HIDE DEF after, b
  <2>6. l \in [Notes -> -5 .. 3] /\ \A j \in Notes : j # b => l[j] = k[j]
    BY <1>1, <1>2, <2>3
  <2>7. i > 2 => l[b] = k[b] \/ (after /\ (l[b] = -5 \/ (l[b] = 0 /\ k[i - 1] = -2)))
    <3>1. CASE after
      <4>1. l = [k EXCEPT ![b] = IF k[i - 1] = -2 THEN 0 ELSE -5]
        BY <3>1
      <4> QED  BY <1>2, <2>3, <3>1, <4>1
    <3>2. CASE ~after
      BY <3>2
    <3> QED  BY <3>1, <3>2
  <2>8. after /\ i > 3 => k[i - 2] = -2 /\ k[i - 3] >= 0
    BY <1>1, <2>3 DEF after
  <2> HIDE DEF l
  <2>9. M \in [Notes -> -5 .. 3] /\ M[i - 1] = ChordMark /\ M[i] = ChordMark
    BY <1>1, <1>2, <2>2, <2>6 DEF ChordMark
  <2>10. \A j \in Notes : j # i /\ j # i - 1 => M[j] = IF hopoAfterChord THEN l[j] ELSE k[j]
    BY <1>1, <1>2, <2>2, <2>6
  <2>11. \A j \in Notes : j > i \/ j < i - 2 => M[j] = m[j]
    BY <1>1, <1>2, <2>3, <2>6, <2>10
  <2>12. i > 2 => M[i - 2] = m[i - 2]
                    \/ /\ hopoAfterChord /\ m[i - 2] = -2 /\ Near(i - 1) /\ i > 3
                       /\ m[i - 3] >= 0 /\ Near(i - 2)
                       /\ (M[i - 2] = 0 /\ m[i - 1] = -2) \/ M[i - 2] = -5
    BY <1>1, <1>2, <2>3, <2>4, <2>5, <2>7, <2>8, <2>10
  <2> QED  BY <1>9, <2>1, <2>9, <2>11, <2>12 DEF M
<1>10. CASE Open(i)
  <2>1. Near(i) /\ ~Same(i) /\ ~Joined(i)
    BY <1>1, <1>10, Links DEF Open
  <2> QED  BY <1>1, <1>2, <1>6, <1>10, <2>1 DEF M
<1> QED  BY <1>1, <1>7, <1>8, <1>9, <1>10, Links

\* A turn of the first loop: what is known of the notes to i - 1, for those to i.
LEMMA FirstTurnKeeps ==
  ASSUME TypeOK, ReaderInv, InOrder, NEW m \in [Notes -> -5 .. 3], NEW i \in Notes,
         FirstInv(m, i - 1)
  PROVE  FirstMark(m, i) \in [Notes -> -5 .. 3] /\ FirstInv(FirstMark(m, i), i)
<1> DEFINE M == FirstMark(m, i)
           a == IF i = 2 /\ Near(2) THEN 1 ELSE m[i - 1]
<1>1. Len(track) \in Nat /\ Notes = 1 .. Len(track) /\ i \in 1 .. Len(track) /\ i \in Int
  BY Values
<1>2. CASE i = 1
  <2>1. M = [m EXCEPT ![1] = -3]
    <3>1. ~(i > 1)
      BY <1>2
    <3> QED  BY <1>2, <3>1, Zenon DEF FirstMark
  <2>2. ~Near(0) /\ ~Near(1)
    BY Links
  <2>3. Fact(M, 1, 1)
    BY <1>1, <1>2, <2>1, <2>2 DEF Fact, Joined, Same, Open
  <2>4. \A j \in 2 .. Len(track) : M[j] = 0
    BY <1>1, <1>2, <2>1 DEF FirstInv
  <2> QED  BY <1>1, <1>2, <2>1, <2>3, <2>4 DEF FirstInv
<1>3. CASE i > 1
  <2>1. /\ M \in [Notes -> -5 .. 3]
        /\ \A j \in Notes : j > i \/ j < i - 2 => M[j] = m[j]
        /\ i > 2 /\ ~Joined(i) => M[i - 2] = m[i - 2]
        /\ ~Near(i) => /\ M[i] = m[i]
                       /\ M[i - 1] = IF Near(i - 1) /\ a # -1
                                     THEN IF a >= 0 THEN 3 ELSE -1 ELSE a
        /\ Same(i) => IF hopoAfterChord /\ a = -4 THEN M[i - 1] = -4 /\ M[i] = m[i]
                      ELSE M[i - 1] = -2 /\ M[i] \in {-2, -5} /\ (~hopoAfterChord => M[i] = -2)
        /\ Joined(i) => M[i - 1] = ChordMark /\ M[i] = ChordMark
        /\ Joined(i) /\ i > 2 =>
             M[i - 2] = m[i - 2]
               \/ /\ hopoAfterChord /\ m[i - 2] = -2 /\ Near(i - 1) /\ i > 3
                  /\ m[i - 3] >= 0 /\ Near(i - 2)
                  /\ (M[i - 2] = 0 /\ m[i - 1] = -2) \/ M[i - 2] = -5
        /\ Open(i) => M[i] = m[i] /\ M[i - 1] = a
    BY <1>3, FirstEffect, Zenon
  <2>2. /\ m[i] = 0 /\ \A j \in 1 .. i - 1 : Fact(m, i - 1, j)
        /\ \A j \in i .. Len(track) : m[j] = 0
    BY <1>1 DEF FirstInv
  <2> HIDE DEF M
  <2>3. /\ \A x \in {i - 2, i - 1, i, i + 1} :
             /\ Joined(x) \/ Same(x) \/ Open(x) <=> Near(x)
             /\ ~(Joined(x) /\ Same(x)) /\ ~(Joined(x) /\ Open(x)) /\ ~(Same(x) /\ Open(x))
        /\ i = 2 => ~Near(i - 1) /\ ~Near(i - 2)
        /\ i = 3 => ~Near(i - 2)
    BY <1>1, Links
  <2>4. ASSUME NEW j \in 1 .. i - 3  PROVE Fact(M, i, j)
    <3>1. Fact(m, i - 1, j) /\ M[j] = m[j]
      BY <1>1, <2>1, <2>2
    <3> QED  BY <1>1, <3>1 DEF Fact
  <2>5. ASSUME i > 2  PROVE Fact(M, i, i - 2)
    <3>1. Fact(m, i - 1, i - 2)
      BY <1>1, <2>2, <2>5
    <3>2. CASE M[i - 2] = m[i - 2]
      BY <1>1, <2>5, <3>1, <3>2 DEF Fact
    <3>3. CASE M[i - 2] # m[i - 2]
      <4>1. /\ Joined(i) /\ hopoAfterChord /\ m[i - 2] = -2 /\ Near(i - 1) /\ i > 3
            /\ m[i - 3] >= 0 /\ Near(i - 2)
            /\ (M[i - 2] = 0 /\ m[i - 1] = -2) \/ M[i - 2] = -5
        BY <2>1, <2>5, <3>3
      <4>2. Fact(m, i - 1, i - 3)
        BY <1>1, <2>2, <4>1
      <4>3. ~Joined(i - 2) /\ ~Joined(i - 1)
        BY <1>1, <3>1, <4>1 DEF Fact, ChordMark
      <4>4. Same(i - 2) => hopoAfterChord /\ Joined(i - 3)
        BY <1>1, <4>1, <4>2, <4>3 DEF Fact
      <4> QED  BY <1>1, <4>1, <4>3, <4>4 DEF Fact
    <3> QED  BY <3>2, <3>3
  <2>6. Fact(M, i, i - 1)
    <3>1. Fact(m, i - 1, i - 1)
      BY <1>1, <1>3, <2>2
    <3>2. CASE ~Near(i)
      BY <1>1, <1>3, <2>1, <2>3, <3>1, <3>2 DEF Fact, ChordMark
    <3>3. CASE Same(i)
      BY <1>1, <1>3, <2>1, <2>3, <3>1, <3>3 DEF Fact, ChordMark
    <3>4. CASE Joined(i)
      BY <1>1, <1>3, <2>1, <2>3, <3>1, <3>4 DEF Fact, ChordMark
    <3>5. CASE Open(i)
      BY <1>1, <1>3, <2>1, <2>3, <3>1, <3>5 DEF Fact, ChordMark
    <3> QED  BY <2>3, <3>2, <3>3, <3>4, <3>5
  <2>7. Fact(M, i, i)
    <3>1. Fact(m, i - 1, i - 1)
      BY <1>1, <1>3, <2>2
    <3>2. CASE ~Near(i)
      BY <1>1, <1>3, <2>1, <2>2, <2>3, <3>1, <3>2 DEF Fact, ChordMark
    <3>3. CASE Same(i)
      BY <1>1, <1>3, <2>1, <2>2, <2>3, <3>1, <3>3 DEF Fact, ChordMark
    <3>4. CASE Joined(i)
      BY <1>1, <1>3, <2>1, <2>2, <2>3, <3>1, <3>4 DEF Fact, ChordMark
    <3>5. CASE Open(i)
      BY <1>1, <1>3, <2>1, <2>2, <2>3, <3>1, <3>5 DEF Fact, ChordMark
    <3> QED  BY <2>3, <3>2, <3>3, <3>4, <3>5
  <2>8. \A j \in i + 1 .. Len(track) : M[j] = 0
    BY <1>1, <2>1, <2>2
  <2>9. \A j \in 1 .. i : j \in 1 .. i - 3 \/ (i > 2 /\ j = i - 2) \/ j = i - 1 \/ j = i
    BY <1>1
  <2>10. \A j \in 1 .. i : Fact(M, i, j)
    BY <2>4, <2>5, <2>6, <2>7, <2>9
  <2> QED  BY <2>1, <2>8, <2>10 DEF FirstInv, M
<1> QED  BY <1>1, <1>2, <1>3

-----------------------------------------------------------------------------
\* The second loop

\* A turn that leaves all notes alone but the last and n.
Kept(M, n) == \A j \in Notes : j # n /\ j # last => M[j] = marks[j]

\* A turn that makes the chord before n the start of a run.
Started(M, n) ==
  /\ M[last] = 1
  /\ \A j \in Notes : j # n => M[j] = IF j \in ChordBefore THEN 1 ELSE marks[j]

\* n cannot be hammered.
LEMMA InvalidEffect ==
  ASSUME TypeOK, marks \in [Notes -> -5 .. 3], last \in Notes, NEW n \in Notes, n # last,
         marks[n] < 0
  PROVE  LET M == SecondInvalid(marks, n)
             a == marks[last]
             b == marks[n]
         IN  /\ M \in [Notes -> -5 .. 3] 
             /\ b # -2 => Kept(M, n) /\ M[n] = b
                          /\ M[last] = IF a = 1 THEN 0 ELSE IF a \in {2, 3} THEN 3 ELSE a
             /\ b = -2 =>
                  CASE a \in {1, 2} -> Kept(M, n) /\ M[last] = a /\ M[n] = 3
                    [] a = -5 \/ (a = -2 /\ OtherFret(n)) -> Kept(M, n) /\ M[last] = 1 /\ M[n] = 3
                    [] a = -4 -> (Started(M, n) /\ M[n] = 3) \/ M = marks
                    [] OTHER -> M = marks
<1> DEFINE M == SecondInvalid(marks, n)
           a == marks[last]
           b == marks[n]
<1>1. a \in -5 .. 3 /\ b \in -5 .. 3
  OBVIOUS
<1>2. CASE b # -2 /\ a = 1
  <2>1. M = [marks EXCEPT ![last] = 0]
    BY <1>2, Zenon DEF SecondInvalid
  <2> QED  BY <1>2, <2>1 DEF Kept
<1>3. CASE b # -2 /\ a > 1
  <2>1. a # 1 /\ a > 0 /\ a # -5 /\ a # -2 /\ a # -4
    BY <1>3
  <2>2. M = [marks EXCEPT ![last] = 3]
    BY <1>3, <2>1, Zenon DEF SecondInvalid
  <2> QED  BY <1>1, <1>3, <2>2 DEF Kept
<1>4. CASE b # -2 /\ a < 1
  <2>1. ~(a > 0) /\ a # 1 /\ a # 2
    BY <1>4
  <2>2. M = marks
    BY <1>4, <2>1, Zenon DEF SecondInvalid
  <2> QED  BY <1>1, <1>4, <2>1, <2>2 DEF Kept
<1>5. CASE b = -2 /\ a \in {1, 2}
  <2>1. a # -5 /\ a # -2 /\ a # -4
    BY <1>5
  <2>2. M = [marks EXCEPT ![n] = 3]
    BY <1>5, <2>1, Zenon DEF SecondInvalid
  <2> QED  BY <1>1, <1>5, <2>1, <2>2 DEF Kept
<1>6. CASE b = -2 /\ (a = -5 \/ (a = -2 /\ OtherFret(n)))
  <2>1. a \notin {1, 2} /\ a # 1 /\ ~(a > 0) /\ a # -4
    BY <1>6
  <2>2. M = [marks EXCEPT ![last] = 1, ![n] = 3]
    BY <1>6, <2>1, Zenon DEF SecondInvalid
  <2> QED  BY <1>1, <1>6, <2>1, <2>2 DEF Kept
<1>7. CASE b = -2 /\ a = -4
  <2>1. a \notin {1, 2} /\ a # 1 /\ ~(a > 0) /\ a # -5 /\ a # -2
    BY <1>7
  <2>2. M = IF MayFollow(n) THEN [StartAtChord(marks) EXCEPT ![n] = 3] ELSE marks
    BY <1>7, <2>1, Zenon DEF SecondInvalid
  <2>3. MayFollow(n) => M \in [Notes -> -5 .. 3] /\ Started(M, n) /\ M[n] = 3
    BY <2>2 DEF StartAtChord, Started, ChordBefore
  <2> QED  BY <1>1, <1>7, <2>1, <2>2, <2>3
<1>8. CASE b = -2 /\ a \notin {1, 2, -5, -4} /\ ~(a = -2 /\ OtherFret(n))
  <2>1. CASE a > 0
    <3>1. a = 3
      BY <1>1, <1>8, <2>1
    <3>2. M = [marks EXCEPT ![last] = 3]
      BY <1>8, <3>1, SMT DEF SecondInvalid
    <3> QED  BY <1>1, <1>8, <3>1, <3>2
  <2>2. CASE ~(a > 0)
    <3>1. a # 1
      BY <2>2
    <3>2. M = marks
      BY <1>8, <2>2, <3>1, Zenon DEF SecondInvalid
    <3> QED  BY <1>1, <1>8, <3>2
  <2> QED  BY <2>1, <2>2
<1> QED  BY <1>1, <1>2, <1>3, <1>4, <1>5, <1>6, <1>7, <1>8

\* n ended a run.
LEMMA EndEffect ==
  ASSUME TypeOK, marks \in [Notes -> -5 .. 3], last \in Notes, NEW n \in Notes, n # last,
         marks[n] = 3, before # n, before2 # n, before3 # n
  PROVE  LET M == SecondEnd(marks, n)
             a == marks[last]
         IN  /\ M \in [Notes -> -5 .. 3]
             /\ CASE a \in {1, 2} -> M = marks
                  [] a \in {-5, 0} \/ (a = -2 /\ OtherFret(n)) ->
                       Kept(M, n) /\ M[last] = 1 /\ M[n] = 3
                  [] a = -4 -> \/ Started(M, n) /\ M[n] = 3
                               \/ Kept(M, n) /\ M[last] = a /\ M[n] = 0
                  [] OTHER -> /\ Kept(M, n) /\ M[last] = a /\ M[n] \in {0, -2}
                              /\ M[n] = -2 => a = -2 /\ ~OtherFret(n)
<1> DEFINE M == SecondEnd(marks, n)
           a == marks[last]
<1>1. a \in -5 .. 3
  OBVIOUS
<1>2. CASE a \in {1, 2}
  <2>1. a \notin {-5, 0} /\ a # -2 /\ a # -4
    BY <1>2
  <2>2. M = marks
    BY <1>2, <2>1, Zenon DEF SecondEnd
  <2> QED  BY <1>2, <2>1, <2>2
<1>3. CASE a \in {-5, 0} \/ (a = -2 /\ OtherFret(n))
  <2>1. a \notin {1, 2} /\ a # -4 /\ ~(a = -2 /\ ~OtherFret(n))
    BY <1>3
  <2>2. M = [marks EXCEPT ![last] = 1]
    BY <1>3, <2>1, Zenon DEF SecondEnd
  <2> QED  BY <1>1, <1>3, <2>1, <2>2 DEF Kept
<1>4. CASE a = -4
  <2>1. a \notin {1, 2} /\ a \notin {-5, 0} /\ a # -2
    BY <1>4
  <2>2. CASE MayFollow(n)
    <3>1. M = StartAtChord(marks)
      BY <1>4, <2>1, <2>2, Zenon DEF SecondEnd
    <3>2. n \notin ChordBefore /\ last \in ChordBefore
      BY DEF ChordBefore
    <3> QED  BY <1>1, <1>4, <2>1, <3>1, <3>2 DEF StartAtChord, Started
  <2>3. CASE ~MayFollow(n)
    <3>1. M = [marks EXCEPT ![n] = 0]
      BY <1>4, <2>1, <2>3, Zenon DEF SecondEnd
    <3> QED  BY <1>1, <1>4, <2>1, <3>1 DEF Kept
  <2> QED  BY <2>2, <2>3
<1>5. CASE a \notin {1, 2, -5, 0, -4} /\ ~(a = -2 /\ OtherFret(n))
  <2>1. M = IF a = -2 THEN [marks EXCEPT ![n] = -2] ELSE [marks EXCEPT ![n] = 0]
    BY <1>5, SMT DEF SecondEnd
  <2>2. CASE a = -2
    <3>1. M = [marks EXCEPT ![n] = -2]
      BY <2>1, <2>2
    <3> QED  BY <1>1, <1>5, <2>2, <3>1 DEF Kept
  <2>3. CASE a # -2
    <3>1. M = [marks EXCEPT ![n] = 0]
      BY <2>1, <2>3
    <3> QED  BY <1>1, <1>5, <2>3, <3>1 DEF Kept
  <2> QED  BY <2>2, <2>3
<1> QED  BY <1>1, <1>2, <1>3, <1>4, <1>5

\* n is not marked yet.
LEMMA OpenEffect ==
  ASSUME TypeOK, marks \in [Notes -> -5 .. 3], last \in Notes, NEW n \in Notes, n # last,
         marks[n] = 0, before # n, before2 # n, before3 # n, NEW delta \in Int
  PROVE  LET M == SecondOpen(marks, n, delta)
             a == marks[last]
         IN  /\ M \in [Notes -> -5 .. 3]
             /\ CASE a = -5 \/ (a = -2 /\ delta <= hopoDelta) ->
                       Kept(M, n) /\ M[last] = 1 /\ M[n] = 2
                  [] a = -4 -> \/ Started(M, n) /\ M[n] = 2
                               \/ Kept(M, n) /\ M[last] = a /\ M[n] = 1
                  [] a = 3 /\ delta <= hopoDelta -> Kept(M, n) /\ M[last] = 2 /\ M[n] = 2
                  [] a \in {1, 2} -> Kept(M, n) /\ M[last] = a /\ M[n] = 2
                  [] OTHER -> Kept(M, n) /\ M[last] = a /\ M[n] = 1
<1> DEFINE M == SecondOpen(marks, n, delta)
           a == marks[last]
           k == CASE a = -5 \/ (a = -2 /\ delta <= hopoDelta) -> [marks EXCEPT ![last] = 1]
                  [] a = -4 /\ MayFollow(n) -> StartAtChord(marks)
                  [] a = 3 /\ delta <= hopoDelta -> [marks EXCEPT ![last] = 2]
                  [] OTHER -> marks
<1>1. a \in -5 .. 3
  OBVIOUS
<1>2. M = [k EXCEPT ![n] = IF k[last] \in {1, 2} THEN 2 ELSE 1]
  BY DEF SecondOpen
<1> HIDE DEF M, k
<1>3. CASE a = -5 \/ (a = -2 /\ delta <= hopoDelta)
  <2>1. a # -4 /\ a # 3
    BY <1>3
  <2>2. k = [marks EXCEPT ![last] = 1]
    BY <1>3, <2>1, Zenon DEF k
  <2> QED  BY <1>1, <1>2, <1>3, <2>1, <2>2 DEF Kept, M
<1>4. CASE a = -4
  <2>1. a # -5 /\ a # -2 /\ a # 3
    BY <1>4
  <2>2. CASE MayFollow(n)
    <3>1. k = StartAtChord(marks)
      BY <1>4, <2>1, <2>2, Zenon DEF k
    <3>2. n \notin ChordBefore /\ last \in ChordBefore
      BY DEF ChordBefore
    <3>3. k \in [Notes -> -5 .. 3] /\ k[last] = 1
          /\ \A j \in Notes : k[j] = IF j \in ChordBefore THEN 1 ELSE marks[j]
      BY <3>1, <3>2 DEF StartAtChord
    <3> QED  BY <1>1, <1>2, <1>4, <2>1, <3>3 DEF Started, M
  <2>3. CASE ~MayFollow(n)
    <3>1. k = marks
      BY <1>4, <2>1, <2>3, Zenon DEF k
    <3> QED  BY <1>1, <1>2, <1>4, <2>1, <3>1 DEF Kept, M
  <2> QED  BY <2>2, <2>3
<1>5. CASE a = 3 /\ delta <= hopoDelta
  <2>1. a # -5 /\ a # -2 /\ a # -4 /\ a \notin {1, 2}
    BY <1>5
  <2>2. k = [marks EXCEPT ![last] = 2]
    BY <1>5, <2>1, Zenon DEF k
  <2> QED  BY <1>1, <1>2, <1>5, <2>1, <2>2 DEF Kept, M
<1>6. CASE a # -4 /\ ~(a = -5 \/ (a = -2 /\ delta <= hopoDelta)) /\ ~(a = 3 /\ delta <= hopoDelta)
  <2>1. k = marks
    BY <1>6, Zenon DEF k
  <2>2. M \in [Notes -> -5 .. 3] /\ Kept(M, n) /\ M[last] = a
        /\ M[n] = IF a \in {1, 2} THEN 2 ELSE 1
    BY <1>1, <1>2, <2>1 DEF Kept
  <2> QED  BY <1>1, <1>6, <2>2 DEF M
<1> QED  BY <1>3, <1>4, <1>5, <1>6

\* What the second loop visits next, and what is between.
LEMMA NextOne ==
  ASSUME TypeOK, ReaderInv, InOrder, last \in hopoNotes, NEW n \in Notes, n > last,
         n \in hopoNotes, \A k \in hopoNotes : last < k => n <= k
  PROVE  /\ Near(n) => last = n - 1
         /\ ~Near(n) => /\ Near(n + 1) /\ ~Near(last + 1) /\ last < Len(track) /\ n < Len(track)
                        /\ track[n].time - track[last].time > hopoDelta
<1>1. Len(track) \in Nat /\ Notes = 1 .. Len(track) /\ last \in Notes
  BY Values DEF hopoNotes
<1>2. CASE Near(n)
  <2>1. n - 1 \in hopoNotes
    BY <1>1, <1>2, Links DEF hopoNotes
  <2> QED  BY <1>1, <1>2, <2>1
<1>3. CASE ~Near(n)
  <2>1. Near(n + 1) /\ n < Len(track)
    BY <1>1, <1>3, Links DEF hopoNotes
  <2>2. ~Near(last + 1)
    <3>1. last + 1 # n => last + 1 \in Notes /\ last + 1 \notin hopoNotes
      BY <1>1
    <3> QED  BY <1>3, <3>1 DEF hopoNotes
  <2>3. Distance(n) > hopoDelta /\ Distance(n) = track[n].time - track[n - 1].time
    <3>1. n \in 2 .. Len(track) /\ n \in Int
      BY <1>1
    <3>2. Distance(n) \in Nat /\ hopoDelta \in Nat
      BY <3>1, Links, ChartAssumption
    <3> QED  BY <1>3, <3>1, <3>2, Links
  <2>4. track[last].time <= track[n - 1].time
    <3>1. n - 1 \in Notes
      BY <1>1
    <3>2. last = n - 1 \/ last < n - 1
      BY <1>1
    <3> QED  BY <1>1, <3>1, <3>2, Values DEF InOrder
  <2>5. track[last].time \in Nat /\ track[n - 1].time \in Nat /\ track[n].time \in Nat /\ hopoDelta \in Nat
    <3>1. n - 1 \in Notes
      BY <1>1
    <3> QED  BY <1>1, <3>1, Values, ChartAssumption
  <2> QED  BY <1>1, <1>3, <2>1, <2>2, <2>3, <2>4, <2>5
<1> QED  BY <1>2, <1>3

\* A turn is one of three.
LEMMA Dispatch ==
  ASSUME marks \in [Notes -> -5 .. 3], NEW n \in Notes, marks[n] \notin {1, 2}, NEW delta
  PROVE  /\ marks[n] < 0 => SecondMark(marks, n, delta) = SecondInvalid(marks, n)
         /\ marks[n] = 3 => SecondMark(marks, n, delta) = SecondEnd(marks, n)
         /\ marks[n] = 0 => SecondMark(marks, n, delta) = SecondOpen(marks, n, delta)
         /\ marks[n] < 0 \/ marks[n] = 3 \/ marks[n] = 0
<1>1. marks[n] < 0 \/ marks[n] = 3 \/ marks[n] = 0
  OBVIOUS
<1>2. CASE marks[n] < 0
  <2>1. marks[n] # 3 /\ marks[n] # 2 /\ marks[n] # 1 /\ marks[n] # 0
    BY <1>2
  <2> QED  BY <1>2, <2>1, Zenon DEF SecondMark
<1>3. CASE marks[n] = 3
  <2>1. ~(marks[n] < 0) /\ marks[n] # 2 /\ marks[n] # 1 /\ marks[n] # 0
    BY <1>3
  <2> QED  BY <1>3, <2>1, Zenon DEF SecondMark
<1>4. CASE marks[n] = 0
  <2>1. ~(marks[n] < 0) /\ marks[n] # 2 /\ marks[n] # 1 /\ marks[n] # 3
    BY <1>4
  <2> QED  BY <1>4, <2>1, Zenon DEF SecondMark
<1> QED  BY <1>1, <1>2, <1>3, <1>4

\* What a turn of the second loop may do with the last note and with n.
Turned(M, n) ==
  /\ M \in [Notes -> -5 .. 3]
  /\ \/ Kept(M, n)
     \/ Started(M, n) /\ marks[last] = -4 /\ Joined(last) /\ M[n] \in {2, 3}
  /\ M[last] \in {2, 3} <=> marks[last] \in {2, 3}
  /\ M[last] \in {1, 2} => M[n] \in {2, 3}
  /\ M[n] \in {2, 3} => /\ Near(n) /\ ~Joined(n) /\ ~Joined(n + 1)
                        /\ Joined(last) \/ ~SameFret(n)
                        /\ M[last] \in {1, 2}
                        /\ Joined(last) => Started(M, n)
  /\ LastMark(M, n)

\* What a turn does, for every mark the two notes can have.
LEMMA TurnEffect ==
  ASSUME TypeOK, ReaderInv, InOrder, marks \in [Notes -> -5 .. 3],
         last \in hopoNotes, Registers, LastMark(marks, last), Follows(marks, last),
         NEW n \in Notes, n > last, n \in hopoNotes, \A k \in hopoNotes : last < k => n <= k,
         Fact(marks, Len(track), n)
  PROVE  Turned(SecondMark(marks, n, track[n].time - track[last].time), n)
<1> DEFINE delta == track[n].time - track[last].time
           M == SecondMark(marks, n, delta)
           a == marks[last]
           b == marks[n]
<1>1. /\ Len(track) \in Nat /\ Notes = 1 .. Len(track) /\ last \in Notes /\ n > 1 /\ n \in Int
      /\ delta \in Int /\ before # n /\ before2 # n /\ before3 # n /\ n # last
  <2>1. Len(track) \in Nat /\ Notes = 1 .. Len(track) /\ last \in Notes
    BY Values DEF hopoNotes
  <2>2. track[n].time \in Int /\ track[last].time \in Int
    BY <2>1, Values
  <2> QED  BY <2>1, <2>2 DEF Registers
<1>2. b \notin {1, 2}
  BY <1>1 DEF Fact
<1>3. /\ b < 0 => M = SecondInvalid(marks, n)
      /\ b = 3 => M = SecondEnd(marks, n)
      /\ b = 0 => M = SecondOpen(marks, n, delta)
      /\ b < 0 \/ b = 3 \/ b = 0
  BY <1>2, Dispatch
<1> HIDE DEF M
<1>4. M \in [Notes -> -5 .. 3]
  BY <1>1, <1>3, InvalidEffect, EndEffect, OpenEffect
<1>5. \A x \in {last, n, last + 1, n + 1, n + 2} :
        /\ Joined(x) \/ Same(x) \/ Open(x) <=> Near(x)
        /\ ~(Joined(x) /\ Same(x)) /\ ~(Joined(x) /\ Open(x)) /\ ~(Same(x) /\ Open(x))
        /\ Near(x) => x <= Len(track)
  BY <1>1, Links
<1>6. CASE ~Near(n)
  <2>1. /\ a \in {-1, 0, 3} /\ Near(n + 1) /\ n < Len(track) /\ ~(delta <= hopoDelta)
        /\ b # 3
    <3>1. /\ Near(n + 1) /\ ~Near(last + 1) /\ last < Len(track) /\ n < Len(track)
          /\ delta > hopoDelta
      BY <1>1, <1>6, NextOne
    <3>2. a \in {-1, 0, 3}
      BY <3>1 DEF LastMark
    <3>3. ~(delta <= hopoDelta)
      BY <1>1, <3>1, ChartAssumption
    <3> QED  BY <1>6, <3>1, <3>2, <3>3 DEF Fact
  <2>2. /\ Kept(M, n)
        /\ b < 0 => M[n] = b /\ M[last] = a
        /\ b = 0 => M[n] = 1 /\ M[last] = a
    <3>1. CASE b < 0
      BY <1>1, <1>3, <2>1, <3>1, InvalidEffect DEF Kept
    <3>2. CASE b = 0
      BY <1>1, <1>3, <2>1, <3>2, OpenEffect
    <3> QED  BY <1>3, <2>1, <3>1, <3>2
  <2>3. LastMark(M, n)
    BY <1>1, <1>3, <1>5, <1>6, <2>1, <2>2 DEF LastMark, Fact, ChordMark
  <2> QED  BY <1>3, <1>4, <2>1, <2>2, <2>3 DEF Turned, M
<1>7. CASE Near(n)
  <2>1. last = n - 1 /\ last + 1 = n
    <3>1. last = n - 1
      BY <1>7, NextOne
    <3> QED  BY <1>1, <3>1
  <2>2. CASE Joined(n)
    <3>1. a = ChordMark /\ b < 0 /\ (hopoAfterChord => b # -2)
      BY <1>1, <1>5, <2>1, <2>2 DEF LastMark, Fact, ChordMark
    <3>2. Kept(M, n) /\ M[last] = a /\ M[n] = b
      BY <1>1, <1>3, <3>1, InvalidEffect DEF Kept, ChordMark
    <3>3. LastMark(M, n)
      BY <1>1, <1>5, <2>2, <3>1, <3>2 DEF LastMark, Fact, ChordMark
    <3> QED  BY <1>4, <3>1, <3>2, <3>3 DEF Turned, ChordMark, M
  <2>3. CASE Same(n) /\ hopoAfterChord /\ Joined(last)
    <3>1. a = -4
      BY <2>1, <2>3 DEF LastMark
    <3>2. \/ Kept(M, n) /\ M[last] = a /\ M[n] \notin {2, 3}
          \/ Started(M, n) /\ M[last] = 1 /\ M[n] \in {2, 3} /\ b \in {-2, 3, 0}
      <4>1. CASE b < 0
        BY <1>1, <1>3, <3>1, <4>1, InvalidEffect DEF Kept, Started
      <4>2. CASE b = 3
        BY <1>1, <1>3, <3>1, <4>2, EndEffect DEF Started
      <4>3. CASE b = 0
        BY <1>1, <1>3, <3>1, <4>3, OpenEffect DEF Started
      <4> QED  BY <1>3, <4>1, <4>2, <4>3
    <3>3. M[n] = b \/ (b = -2 /\ M[n] = 3) \/ (b = 3 /\ M[n] = 0) \/ (b = 0 /\ M[n] \in {1, 2})
      BY <1>1, <1>3, <3>1, InvalidEffect, EndEffect, OpenEffect
    <3>4. LastMark(M, n)
      <4>1. ~Joined(n) /\ ~Open(n) /\ Near(n)
        BY <1>5, <2>3
      <4>2. CASE M[n] = b /\ b # 0 /\ b # 3
        BY <1>1, <1>5, <4>1, <4>2 DEF LastMark, Fact, ChordMark
      <4>3. CASE b = -2 /\ M[n] = 3
        BY <1>1, <1>5, <4>1, <4>3 DEF LastMark, Fact, ChordMark
      <4>4. CASE b = 3 /\ M[n] \in {0, 3}
        BY <1>1, <1>5, <4>1, <4>4 DEF LastMark, Fact, ChordMark
      <4>5. CASE b = 0 /\ M[n] \in {1, 2}
        BY <1>1, <1>5, <4>1, <4>5 DEF LastMark, Fact, ChordMark
      <4>6. b = 0 => M[n] # 0
        BY <1>1, <1>3, <3>1, OpenEffect
      <4> QED  BY <3>3, <4>2, <4>3, <4>4, <4>5, <4>6
    <3>5. b \in {-2, 3, 0} => ~Joined(n + 1)
      BY <1>1, <1>5 DEF Fact, ChordMark
    <3> QED  BY <1>4, <1>5, <1>7, <2>3, <3>1, <3>2, <3>4, <3>5 DEF Turned, M
  <2>4. CASE Same(n) /\ ~(hopoAfterChord /\ Joined(last))
    <3>1. b < 0 /\ (a \in {-2, 3} \/ (a \in {1, 2, -5} /\ b = -4))
      BY <1>1, <1>5, <2>1, <2>4 DEF LastMark, Fact, ChordMark
    <3>2. ~OtherFret(n)
      BY <2>1, <2>4 DEF Same, SameFret, OtherFret
    <3>3. /\ Kept(M, n) /\ M[n] = b
          /\ M[last] = IF a = 1 THEN 0 ELSE IF a \in {2, 3} THEN 3 ELSE a
      BY <1>1, <1>3, <3>1, <3>2, InvalidEffect DEF Kept
    <3>4. LastMark(M, n)
      BY <1>1, <1>5, <2>4, <3>1, <3>3 DEF LastMark, Fact, ChordMark
    <3> QED  BY <1>4, <3>1, <3>3, <3>4 DEF Turned, M
  <2>5. CASE Open(n)
    <3>1. /\ a # 0 /\ (a \in {1, 2, 3, -2, -5} => ~Joined(last))
          /\ a = -4 => hopoAfterChord /\ Joined(last)
      BY <2>1, <2>5 DEF LastMark, Follows
    <3>2. OtherFret(n) /\ ~SameFret(n) /\ delta <= hopoDelta /\ ~Joined(n)
      BY <1>1, <1>5, <2>1, <2>5, Links DEF Open, SameFret, OtherFret
    <3>3. CASE b < 0 /\ b # -2
      <4>1. /\ Kept(M, n) /\ M[n] = b
            /\ M[last] = IF a = 1 THEN 0 ELSE IF a \in {2, 3} THEN 3 ELSE a
        BY <1>1, <1>3, <3>3, InvalidEffect
      <4>2. LastMark(M, n)
        BY <1>1, <1>5, <2>5, <3>3, <4>1 DEF LastMark, Fact, ChordMark
      <4> QED  BY <1>4, <3>3, <4>1, <4>2 DEF Turned, M
    <3>4. CASE b = -2
      <4>1. CASE M[n] = 3
        <5>1. \/ Kept(M, n) /\ M[last] \in {1, 2} /\ (M[last] = a \/ (M[last] = 1 /\ a \in {-5, -2}))
              \/ Started(M, n) /\ M[last] = 1 /\ a = -4
          BY <1>1, <1>3, <3>2, <3>4, <4>1, InvalidEffect DEF Started
        <5>2. ~Joined(n + 1) /\ LastMark(M, n)
          BY <1>1, <1>5, <2>5, <3>4, <4>1 DEF LastMark, Fact, ChordMark
        <5> QED  BY <1>4, <1>7, <3>1, <3>2, <4>1, <5>1, <5>2 DEF Turned, M
      <4>2. CASE M[n] # 3
        <5>1. M[n] = b /\ Kept(M, n) /\ M[last] = a /\ a \notin {1, 2}
          BY <1>1, <1>3, <3>2, <3>4, <4>2, InvalidEffect DEF Kept
        <5>2. LastMark(M, n)
          BY <1>1, <1>5, <2>5, <3>4, <5>1 DEF LastMark, Fact, ChordMark
        <5> QED  BY <1>4, <3>4, <5>1, <5>2 DEF Turned, M
      <4> QED  BY <4>1, <4>2
    <3>5. CASE b = 3
      <4>1. \/ Kept(M, n) /\ M[last] \in {1, 2} /\ M[n] = 3 /\ (M[last] = a \/ (M[last] = 1 /\ a \in {-5, -2}))
            \/ Started(M, n) /\ M[last] = 1 /\ a = -4 /\ M[n] = 3
            \/ Kept(M, n) /\ M[last] = a /\ M[n] = 0 /\ a \notin {1, 2}
        BY <1>1, <1>3, <3>1, <3>2, <3>5, EndEffect DEF Started, Kept
      <4>2. ~Joined(n + 1) /\ LastMark(M, n)
        BY <1>1, <1>5, <2>5, <3>5, <4>1 DEF LastMark, Fact, ChordMark
      <4> QED  BY <1>4, <1>7, <3>1, <3>2, <4>1, <4>2 DEF Turned, M
    <3>6. CASE b = 0
      <4>1. \/ Kept(M, n) /\ M[last] \in {1, 2} /\ M[n] = 2
                 /\ (M[last] = a \/ (M[last] = 1 /\ a \in {-5, -2}) \/ (M[last] = 2 /\ a = 3))
            \/ Started(M, n) /\ M[last] = 1 /\ a = -4 /\ M[n] = 2
            \/ Kept(M, n) /\ M[last] = a /\ M[n] = 1 /\ a \notin {1, 2, 3}
        BY <1>1, <1>3, <3>1, <3>2, <3>6, OpenEffect DEF Started, Kept
      <4>2. ~Joined(n + 1) /\ LastMark(M, n)
        BY <1>1, <1>5, <2>5, <3>6, <4>1 DEF LastMark, Fact, ChordMark
      <4> QED  BY <1>4, <1>7, <3>1, <3>2, <4>1, <4>2 DEF Turned, M
    <3> QED  BY <1>3, <3>3, <3>4, <3>5, <3>6
  <2> QED  BY <1>5, <1>7, <2>2, <2>3, <2>4, <2>5
<1> QED  BY <1>6, <1>7

\* The chord that ends in the last note, as the second loop remembers it.
LEMMA RememberedChord ==
  ASSUME TypeOK, ReaderInv, InOrder, Registers, ~Again, Joined(last)
  PROVE  /\ \A x \in ChordBefore : x # last =>
              /\ x \in Notes /\ x < last /\ Joined(x + 1)
              /\ track[x].time = track[last].time
         /\ last - 1 \in ChordBefore
         /\ Joined(last - 1) => last - 2 \in ChordBefore
<1>1. Len(track) \in Nat /\ Notes = 1 .. Len(track) /\ last \in Notes
  BY Values DEF Registers, hopoNotes
<1>2. last \in 2 .. Len(track) /\ Near(last) /\ last - 1 \in Notes
      /\ track[last - 1].time = track[last].time
  <2>1. last \in 2 .. Len(track) /\ Near(last) /\ Distance(last) = track[last].time - track[last - 1].time
    BY <1>1, Links DEF Joined
  <2>2. track[last].time \in Nat /\ track[last - 1].time \in Nat
    BY <1>1, <2>1, Values
  <2> QED  BY <1>1, <2>1, <2>2 DEF Joined
<1>3. Joined(last - 1) => /\ last - 2 \in Notes /\ last > 2
                          /\ track[last - 2].time = track[last].time
  <2>1. SUFFICES ASSUME Joined(last - 1)
                 PROVE  last - 2 \in Notes /\ last > 2 /\ track[last - 2].time = track[last].time
    OBVIOUS
  <2>2. /\ last - 1 \in 2 .. Len(track)
        /\ Distance(last - 1) = track[last - 1].time - track[(last - 1) - 1].time
    BY <1>1, <2>1, Links DEF Joined
  <2>3. (last - 1) - 1 = last - 2 /\ last - 2 \in Notes /\ last > 2
    BY <1>1, <2>2
  <2>4. track[last - 2].time \in Nat /\ track[last - 1].time \in Nat
    BY <1>2, <2>3, Values
  <2> QED  BY <1>2, <2>1, <2>2, <2>3, <2>4 DEF Joined
<1>4. before = last - 1 /\ before3 = before2
  BY <1>2 DEF Registers
<1>5. d1 < chordFudge => before2 = last - 1 \/ (Joined(last - 1) /\ before2 = last - 2)
  BY <1>4 DEF Registers
<1>6. Joined(last - 1) => before2 = last - 2 /\ d1 < chordFudge
  BY DEF Registers
<1>7. (last - 1) + 1 = last /\ (last - 2) + 1 = last - 1
  BY <1>1
<1>8. \A x \in ChordBefore : x = last \/ x = last - 1 \/ (Joined(last - 1) /\ x = last - 2)
  BY <1>4, <1>5 DEF ChordBefore
<1>9. last - 1 \in ChordBefore /\ (Joined(last - 1) => last - 2 \in ChordBefore)
  BY <1>4, <1>6 DEF ChordBefore
<1> QED  BY <1>1, <1>2, <1>3, <1>7, <1>8, <1>9

\* The marks that a turn of the second loop leaves, for a note that is new.
LEMMA TurnKeeps ==
  ASSUME TypeOK, ReaderInv, InOrder, marks \in [Notes -> -5 .. 3], SecondInv, last # 0,
         NEW n \in Notes, n > last, n \in hopoNotes, \A k \in hopoNotes : last < k => n <= k,
         NEW M, M = SecondMark(marks, n, track[n].time - track[last].time)
  PROVE  /\ M \in [Notes -> -5 .. 3]
         /\ \A j \in n + 1 .. Len(track) : Fact(M, Len(track), j)
         /\ LastMark(M, n)
         /\ \A j \in 1 .. n : Follows(M, j) /\ GoesOn(M, n, j)
<1>1. /\ Len(track) \in Nat /\ Notes = 1 .. Len(track) /\ last \in Notes /\ last \in hopoNotes
      /\ n \in Int /\ n \in 2 .. Len(track)
  <2>1. Len(track) \in Nat /\ Notes = 1 .. Len(track) /\ last \in hopoNotes /\ last \in Notes
    BY Values DEF SecondInv, Registers, hopoNotes
  <2> QED  BY <2>1
<1>2. /\ Registers /\ LastMark(marks, last) /\ Fact(marks, Len(track), n) /\ ~Again
      /\ \A j \in 1 .. last : Follows(marks, j) /\ GoesOn(marks, last, j)
      /\ \A j \in last + 1 .. Len(track) : Fact(marks, Len(track), j)
  BY <1>1 DEF SecondInv, Again
<1>3. Turned(M, n)
  BY <1>1, <1>2, TurnEffect
<1>4. Near(n) => last = n - 1
  BY <1>1, NextOne
<1>5. ASSUME NEW k \in Notes, NEW j \in Notes, k < j, track[k].time = track[j - 1].time,
             k < j - 1
      PROVE  Joined(j - 1)
  <2>1. j - 1 \in 2 .. Len(track) /\ (j - 1) - 1 \in Notes /\ j - 1 \in Notes
    BY <1>1, <1>5
  <2>2. /\ track[k].time \in Nat /\ track[j - 1].time \in Nat /\ track[(j - 1) - 1].time \in Nat
        /\ track[(j - 1) - 1].time <= track[j - 1].time
    BY <1>1, <2>1, Values DEF InOrder
  <2>3. track[k].time <= track[(j - 1) - 1].time
    <3>1. k = (j - 1) - 1 \/ k < (j - 1) - 1
      BY <1>1, <1>5, <2>1
    <3> QED  BY <2>1, <2>2, <3>1 DEF InOrder
  <2>4. Distance(j - 1) = 0
    BY <1>5, <2>1, <2>2, <2>3, Links
  <2>5. 0 <= hopoDelta
    BY ChartAssumption
  <2> QED  BY <2>1, <2>4, <2>5 DEF Joined, Near
<1>6. Joined(last) =>
        /\ \A x \in ChordBefore : x # last =>
             x \in Notes /\ x < last /\ Joined(x + 1) /\ track[x].time = track[last].time
        /\ last - 1 \in ChordBefore
        /\ Joined(last - 1) => last - 2 \in ChordBefore
  BY <1>2, RememberedChord
<1>8. \A j \in Notes : j # n /\ j # last =>
        M[j] = marks[j] \/ (M[j] = 1 /\ j < last /\ Joined(j + 1) /\ track[j].time = track[last].time
                              /\ Joined(last) /\ M[n] \in {2, 3})
  <2>1. CASE Kept(M, n)
    BY <2>1 DEF Kept
  <2>2. CASE Started(M, n) /\ Joined(last) /\ M[n] \in {2, 3}
    BY <1>6, <2>2 DEF Started
  <2> QED  BY <1>3, <2>1, <2>2 DEF Turned
<1>9. \A j \in n + 1 .. Len(track) : Fact(M, Len(track), j)
  <2>1. TAKE j \in n + 1 .. Len(track)
  <2>2. M[j] = marks[j] /\ Fact(marks, Len(track), j)
    BY <1>1, <1>2, <1>8
  <2> QED  BY <2>2 DEF Fact
<1>10. \A j \in last + 1 .. n - 1 : M[j] \notin {1, 2, 3}
  <2>1. TAKE j \in last + 1 .. n - 1
  <2>2. j \in Notes /\ j \notin hopoNotes /\ M[j] = marks[j] /\ Fact(marks, Len(track), j)
    BY <1>1, <1>2, <1>8
  <2>3. ~Near(j) /\ ~Near(j + 1)
    BY <2>2 DEF hopoNotes
  <2> QED  BY <2>2, <2>3 DEF Fact
<1>11. Follows(M, n) /\ GoesOn(M, n, n)
  <2>1. SUFFICES ASSUME M[n] \in {2, 3}  PROVE Follows(M, n)
    BY DEF Follows, GoesOn
  <2>2. /\ Near(n) /\ ~Joined(n) /\ ~Joined(n + 1) /\ (Joined(last) \/ ~SameFret(n))
        /\ M[last] \in {1, 2} /\ (Joined(last) => Started(M, n))
    BY <1>3, <2>1 DEF Turned
  <2>3. last = n - 1
    BY <1>4, <2>2
  <2>4. ASSUME NEW k \in Notes, n - 3 <= k, k < n, track[k].time = track[n - 1].time
        PROVE  M[k] \in {1, 2}
    <3>1. CASE k = last
      BY <2>2, <3>1
    <3>2. CASE k # last
      <4>1. Joined(last) /\ Started(M, n)
        BY <1>1, <1>5, <2>2, <2>3, <2>4, <3>2
      <4>2. CASE k = last - 1
        BY <1>1, <1>6, <4>1, <4>2 DEF Started
      <4>3. CASE k # last - 1
        <5>1. k = last - 2 /\ track[k].time = track[last - 1].time /\ last - 1 \in Notes
          BY <1>1, <1>6, <2>3, <2>4, <3>2, <4>1, <4>3
        <5>2. Joined(last - 1)
          <6>1. k < last /\ k < last - 1
            BY <1>1, <5>1
          <6> QED  BY <1>1, <1>5, <5>1, <6>1
        <5> QED  BY <1>1, <1>6, <4>1, <5>1, <5>2 DEF Started
      <4> QED  BY <4>2, <4>3
    <3> QED  BY <3>1, <3>2
  <2>5. Joined(n - 1) \/ ~SameFret(n)
    BY <2>2, <2>3
  <2> QED  BY <2>2, <2>4, <2>5 DEF Follows
<1>12. Follows(M, last) /\ GoesOn(M, n, last)
  <2>1. Follows(M, last)
    <3>1. SUFFICES ASSUME M[last] \in {2, 3}  PROVE Follows(M, last)
      BY DEF Follows
    <3>2. marks[last] \in {2, 3} /\ Follows(marks, last)
      BY <1>1, <1>2, <1>3, <3>1 DEF Turned
    <3>3. \A k \in Notes : k < last => M[k] = marks[k] \/ M[k] = 1
      BY <1>1, <1>8
    <3> QED  BY <3>2, <3>3 DEF Follows
  <2>2. M[last] \in {1, 2} => Near(n) /\ ~Joined(n) /\ M[n] \in {2, 3} /\ last = n - 1
    BY <1>3, <1>4 DEF Turned
  <2>3. M[last] \in {1, 2} => Leads(last, n)
    BY <1>1, <2>2 DEF Leads
  <2> QED  BY <1>1, <2>1, <2>2, <2>3 DEF GoesOn
<1>13. ASSUME NEW j \in 1 .. last - 1  PROVE Follows(M, j) /\ GoesOn(M, n, j)
  <2>1. j \in Notes /\ j # n /\ j # last /\ j < last /\ Follows(marks, j) /\ GoesOn(marks, last, j)
    BY <1>1, <1>2
  <2>2. Follows(M, j)
    <3>1. SUFFICES ASSUME M[j] \in {2, 3}  PROVE Follows(M, j)
      BY DEF Follows
    <3>2. marks[j] \in {2, 3}
      BY <1>8, <2>1, <3>1
    <3>3. \A k \in Notes : k < j => M[k] = marks[k] \/ M[k] = 1
      BY <1>1, <1>8, <2>1
    <3> QED  BY <2>1, <3>2, <3>3 DEF Follows
  <2>3. GoesOn(M, n, j)
    <3>1. SUFFICES ASSUME M[j] \in {1, 2}
                   PROVE  \E w \in 1 .. n : Leads(j, w) /\ M[w] \in {2, 3}
      BY DEF GoesOn
    <3>2. CASE marks[j] \in {1, 2}
      <4>1. PICK w \in 1 .. last : Leads(j, w) /\ marks[w] \in {2, 3}
        BY <2>1, <3>2 DEF GoesOn
      <4>2. M[w] \in {2, 3}
        <5>1. CASE w = last
          BY <1>3, <4>1, <5>1 DEF Turned
        <5>2. CASE w # last
          <6>1. w \in Notes /\ w # n /\ Follows(marks, w)
            BY <1>1, <1>2, <5>2
          <6>2. ~Joined(w + 1)
            BY <4>1, <6>1 DEF Follows
          <6> QED  BY <1>8, <4>1, <5>2, <6>1, <6>2
        <5> QED  BY <5>1, <5>2
      <4> QED  BY <1>1, <4>1, <4>2
    <3>3. CASE marks[j] \notin {1, 2}
      <4>1. track[j].time = track[last].time /\ M[n] \in {2, 3}
        BY <1>8, <2>1, <3>1, <3>3
      <4>2. Near(n) /\ ~Joined(n) /\ last = n - 1
        BY <1>3, <1>4, <4>1 DEF Turned
      <4>3. Leads(j, n)
        BY <1>1, <2>1, <4>1, <4>2 DEF Leads
      <4> QED  BY <1>1, <4>1, <4>3
    <3> QED  BY <3>2, <3>3
  <2> QED  BY <2>2, <2>3
<1>14. \A j \in 1 .. n : j = n \/ j = last \/ j \in 1 .. last - 1 \/ j \in last + 1 .. n - 1
  BY <1>1
<1> QED  BY <1>3, <1>9, <1>10, <1>11, <1>12, <1>13, <1>14 DEF Turned, Follows, GoesOn

-----------------------------------------------------------------------------
\* Steps

\* markHopo does not change the track.
LEMMA SameTrack ==
  ASSUME track' = track, hopoAfterChord' = hopoAfterChord
  PROVE  /\ Notes' = Notes /\ (InOrder' <=> InOrder) /\ hopoNotes' = hopoNotes
         /\ (ListedTwice' <=> ListedTwice) /\ ChordMark' = ChordMark
         /\ \A j : /\ Near(j)' <=> Near(j)
                   /\ Joined(j)' <=> Joined(j)
                   /\ Same(j)' <=> Same(j)
                   /\ Open(j)' <=> Open(j)
                   /\ SameFret(j)' <=> SameFret(j)
                   /\ Distance(j)' = Distance(j)
<1>1. Notes' = Notes /\ (InOrder' <=> InOrder)
  BY DEF Notes, InOrder
<1>2. \A j : Distance(j)' = Distance(j) /\ (SameFret(j)' <=> SameFret(j))
  BY DEF Distance, SameFret
<1>3. \A j : Near(j)' <=> Near(j)
  BY <1>2 DEF Near
<1>4. hopoNotes' = hopoNotes
  BY <1>1, <1>3 DEF hopoNotes
<1>5. ListedTwice' <=> ListedTwice
  BY <1>2 DEF ListedTwice
<1>6. \A j : (Joined(j)' <=> Joined(j)) /\ (Same(j)' <=> Same(j)) /\ (Open(j)' <=> Open(j))
  BY <1>2, <1>3 DEF Joined, Same, Open
<1>7. ChordMark' = ChordMark
  BY DEF ChordMark
<1> QED  BY <1>1, <1>2, <1>3, <1>4, <1>5, <1>6, <1>7

\* What is said of marks is said of the next ones.
LEMMA SameFacts ==
  ASSUME track' = track, hopoAfterChord' = hopoAfterChord
  PROVE  /\ FirstInv(marks', last') => FirstInv(marks, last)'
         /\ \A j : Fact(marks', Len(track), j) => Fact(marks, Len(track), j)'
         /\ LastMark(marks', last') => LastMark(marks, last)'
         /\ \A j : Follows(marks', j) => Follows(marks, j)'
         /\ \A j : GoesOn(marks', last', j) => GoesOn(marks, last, j)'
         /\ \A j, w : Leads(j, w)' <=> Leads(j, w)
<1>1. /\ Notes' = Notes /\ ChordMark' = ChordMark
      /\ \A j : /\ Near(j)' <=> Near(j)
                /\ Joined(j)' <=> Joined(j)
                /\ Same(j)' <=> Same(j)
                /\ Open(j)' <=> Open(j)
                /\ SameFret(j)' <=> SameFret(j)
  BY SameTrack
<1>2. \A j : Fact(marks', Len(track), j) => Fact(marks, Len(track), j)'
  <2>1. TAKE j
  <2>2. /\ Near(2)' <=> Near(2)
        /\ Near(j)' <=> Near(j)
        /\ Near(j + 1)' <=> Near(j + 1)
        /\ Joined(j - 1)' <=> Joined(j - 1)
        /\ Joined(j)' <=> Joined(j)
        /\ Joined(j + 1)' <=> Joined(j + 1)
        /\ Joined(j + 2)' <=> Joined(j + 2)
        /\ Same(j)' <=> Same(j)
        /\ Same(j + 1)' <=> Same(j + 1)
        /\ Open(j)' <=> Open(j)
    BY <1>1
  <2> QED  BY <1>1, <2>2, SMT DEF Fact
<1>3. \A j : Fact(marks', last', j) => Fact(marks, last, j)'
  <2>1. TAKE j
  <2>2. /\ Near(2)' <=> Near(2)
        /\ Near(j)' <=> Near(j)
        /\ Near(j + 1)' <=> Near(j + 1)
        /\ Joined(j - 1)' <=> Joined(j - 1)
        /\ Joined(j)' <=> Joined(j)
        /\ Joined(j + 1)' <=> Joined(j + 1)
        /\ Joined(j + 2)' <=> Joined(j + 2)
        /\ Same(j)' <=> Same(j)
        /\ Same(j + 1)' <=> Same(j + 1)
        /\ Open(j)' <=> Open(j)
    BY <1>1
  <2> QED  BY <1>1, <2>2, SMT DEF Fact
<1>4. FirstInv(marks', last') => FirstInv(marks, last)'
  BY <1>3 DEF FirstInv
<1>5. LastMark(marks', last') => LastMark(marks, last)'
  BY <1>1, Zenon DEF LastMark
<1>6. \A j : Follows(marks', j) => Follows(marks, j)'
  BY <1>1, Zenon DEF Follows
<1>7. \A j, w : Leads(j, w)' <=> Leads(j, w)
  BY <1>1 DEF Leads
<1>8. \A j : GoesOn(marks', last', j) => GoesOn(marks, last, j)'
  BY <1>7 DEF GoesOn
<1> QED  BY <1>2, <1>4, <1>5, <1>6, <1>7, <1>8

\* Writing a mark leaves a function.
LEMMA Written ==
  ASSUME NEW S, NEW T, NEW f \in [S -> T], NEW x, NEW v \in T
  PROVE  [f EXCEPT ![x] = v] \in [S -> T]
  OBVIOUS

\* Writing two marks does so too.
LEMMA WrittenTwice ==
  ASSUME NEW S, NEW T, NEW f \in [S -> T], NEW x, NEW v \in T, NEW y, NEW w \in T
  PROVE  [f EXCEPT ![x] = v, ![y] = w] \in [S -> T]
<1> DEFINE g == [f EXCEPT ![x] = v]
<1>1. g \in [S -> T]
  OBVIOUS
<1>2. [f EXCEPT ![x] = v, ![y] = w] = [g EXCEPT ![y] = w]
  OBVIOUS
<1> HIDE DEF g
<1> QED  BY <1>1, <1>2

\* The marks stay within their range, in whatever order the notes are.
LEMMA FirstRange ==
  ASSUME NEW m \in [Notes -> -5 .. 3], NEW i \in Notes
  PROVE  FirstMark(m, i) \in [Notes -> -5 .. 3]
<1> DEFINE F == [Notes -> -5 .. 3]
           k == IF i = 2 /\ Near(2) THEN [m EXCEPT ![1] = 1] ELSE m
<1>7. \A v \in {-5, -4, -3, -2, -1, 0, 1, 2, 3} : v \in -5 .. 3
  OBVIOUS
<1>8. \A f \in F : \A x, v : v \in {-5, -4, -3, -2, -1, 0, 1, 2, 3} => [f EXCEPT ![x] = v] \in F
  BY <1>7, Written
<1> HIDE DEF F
<1>1. k \in F
  BY <1>8 DEF F
<1> HIDE DEF k
<1>2. MarkSame(k, i) \in F
  <2> DEFINE v == IF k[Back(i, 2)] = -4 /\ Distance(i - 1) <= hopoDelta THEN -5 ELSE -2
  <2>1. v \in {-5, -2}
    OBVIOUS
  <2>2. MarkSame(k, i) = IF ~hopoAfterChord THEN [k EXCEPT ![i] = -2, ![i - 1] = -2]
                         ELSE IF k[i - 1] = -4 THEN k
                         ELSE [k EXCEPT ![i - 1] = -2, ![i] = v]
    BY Zenon DEF MarkSame
  <2> HIDE DEF v
  <2>3. [k EXCEPT ![i] = -2, ![i - 1] = -2] \in F
    BY <1>1, <1>7, WrittenTwice DEF F
  <2>4. [k EXCEPT ![i - 1] = -2, ![i] = v] \in F
    BY <1>1, <1>7, <2>1, WrittenTwice DEF F
  <2> QED  BY <1>1, <2>2, <2>3, <2>4
<1>3. MarkChord(k, i) \in F
  <2> DEFINE b == Back(i, 2)
             after == k[b] = -2 /\ Distance(i - 1) <= hopoDelta
                        /\ k[Back(i, 3)] >= 0 /\ Distance(i - 2) <= hopoDelta
             l == IF after THEN [k EXCEPT ![b] = IF k[i - 1] = -2 THEN 0 ELSE -5] ELSE k
  <2>1. MarkChord(k, i) = IF hopoAfterChord THEN [l EXCEPT ![i - 1] = -4, ![i] = -4]
                                            ELSE [k EXCEPT ![i - 1] = -1, ![i] = -1]
    BY DEF MarkChord
  <2> HIDE DEF after, b
  <2>2. l \in F
    BY <1>1, <1>8
  <2> HIDE DEF l
  <2>3. [l EXCEPT ![i - 1] = -4, ![i] = -4] \in F
    BY <2>2, <1>7, WrittenTwice DEF F
  <2>4. [k EXCEPT ![i - 1] = -1, ![i] = -1] \in F
    BY <1>1, <1>7, WrittenTwice DEF F
  <2> QED  BY <2>1, <2>3, <2>4
<1>4. MarkFar(k, i) \in F
  BY <1>1, <1>8 DEF MarkFar
<1>5. [m EXCEPT ![1] = -3] \in F
  BY <1>8 DEF F
<1>6. \/ FirstMark(m, i) = [m EXCEPT ![1] = -3]
      \/ FirstMark(m, i) = MarkFar(k, i)
      \/ FirstMark(m, i) = MarkSame(k, i)
      \/ FirstMark(m, i) = MarkChord(k, i)
      \/ FirstMark(m, i) = k
  BY DEF FirstMark, k
<1> QED  BY <1>1, <1>2, <1>3, <1>4, <1>5, <1>6 DEF F

\* So they do in the second loop.
LEMMA SecondRange ==
  ASSUME NEW m \in [Notes -> -5 .. 3], NEW n \in Notes, last \in Notes, NEW delta
  PROVE  SecondMark(m, n, delta) \in [Notes -> -5 .. 3]
<1>1. StartAtChord(m) \in [Notes -> -5 .. 3]
  BY DEF StartAtChord
<1>2. SecondInvalid(m, n) \in [Notes -> -5 .. 3]
  BY <1>1 DEF SecondInvalid
<1>3. SecondEnd(m, n) \in [Notes -> -5 .. 3]
  BY <1>1 DEF SecondEnd
<1>4. SecondMiddle(m, n) \in [Notes -> -5 .. 3]
  BY DEF SecondMiddle
<1>5. SecondOpen(m, n, delta) \in [Notes -> -5 .. 3]
  BY <1>1 DEF SecondOpen
<1> QED  BY <1>2, <1>3, <1>4, <1>5 DEF SecondMark

\* The last note of the list may be marked again.
LEMMA LastRange ==
  ASSUME NEW m \in [Notes -> -5 .. 3]
  PROVE  MarkLast(m) \in [Notes -> -5 .. 3]
<1>1. \/ MarkLast(m) = [m EXCEPT ![last] = 0]
      \/ MarkLast(m) = [m EXCEPT ![last] = IF d < chordFudge THEN -4 ELSE 3]
      \/ MarkLast(m) = m
  BY DEF MarkLast
<1> QED  BY <1>1

\* Times differ by at most the length of the track.
LEMMA DistanceRange ==
  ASSUME TypeOK
  PROVE  /\ \A i, j \in Notes : track[i].time - track[j].time \in -MaxTime .. MaxTime
         /\ Distance(Len(track)) \in -MaxTime .. MaxTime
<1>1. MaxTime \in Nat
  BY ChartAssumption DEF chordFudge
<1>2. \A i, j \in Notes : track[i].time - track[j].time \in -MaxTime .. MaxTime
  <2>1. TAKE i, j \in Notes
  <2>2. track[i].time \in 0 .. MaxTime /\ track[j].time \in 0 .. MaxTime
    BY Values
  <2> QED  BY <1>1, <2>2
<1>3. Distance(Len(track)) \in -MaxTime .. MaxTime
  <2>1. CASE Len(track) < 2
    BY <1>1, <2>1 DEF Distance
  <2>2. CASE ~(Len(track) < 2)
    <3>1. Len(track) \in Notes /\ Len(track) - 1 \in Notes
      BY <2>2, Values
    <3> QED  BY <1>2, <2>2, <3>1 DEF Distance
  <2> QED  BY <2>1, <2>2
<1> QED  BY <1>2, <1>3

\* The types are kept by every step.
LEMMA TypeStep ==
  ASSUME TypeOK, [Next]_vars
  PROVE  TypeOK'
<1>1. /\ Len(track) \in Nat /\ Notes = 1 .. Len(track) /\ MaxTime \in Nat /\ MaxNotes \in Nat
      /\ Gaps \subseteq Nat
  <2>1. MaxTime \in Nat /\ MaxNotes \in Nat /\ Gaps \subseteq Nat
    BY ChartAssumption DEF chordFudge
  <2> QED  BY <2>1, Values
<1>2. ASSUME NEW g \in Gaps, Pass(g)  PROVE TypeOK'
  <2>1. now' \in 0 .. MaxTime
    BY <1>1, <1>2 DEF Pass, TypeOK
  <2> QED  BY <1>2, <2>1 DEF Pass, TypeOK, pastVars, Notes
<1>3. ASSUME NEW f \in Frets, note_on(f)  PROVE TypeOK'
  <2>1. heldNotes' \in [Frets -> (0 .. MaxTime) \cup {None}]
    BY <1>3 DEF note_on, TypeOK
  <2> QED  BY <1>3, <2>1 DEF note_on, TypeOK, pastVars, Notes
<1>4. ASSUME NEW f \in Frets, note_off(f)  PROVE TypeOK'
  <2>1. heldNotes' \in [Frets -> (0 .. MaxTime) \cup {None}]
    BY <1>4 DEF note_off, TypeOK
  <2>2. [time |-> heldNotes[f], number |-> f] \in Note
    BY <1>4 DEF note_off, TypeOK, Note
  <2>3. track' \in Seq(Note) /\ Len(track') = Len(track) + 1
    BY <1>4, <2>2 DEF note_off, TypeOK
  <2>4. Len(track') <= MaxNotes
    BY <1>1, <1>4, <2>3 DEF note_off
  <2>5. last' \in 0 .. Len(track')
    BY <1>1, <1>4, <2>3 DEF note_off, TypeOK
  <2>6. {before', before2', before3'} \subseteq 0 .. Len(track')
    BY <1>1, <1>4, <2>3 DEF note_off, TypeOK, pastVars
  <2>7. phase' = "read" /\ marks' = marks /\ now' = now /\ hopoAfterChord' = hopoAfterChord
        /\ d' = d /\ d1' = d1 /\ d2' = d2 /\ phase = "read"
    BY <1>4 DEF note_off, pastVars
  <2> QED  BY <2>1, <2>3, <2>4, <2>5, <2>6, <2>7 DEF TypeOK
<1>5. ASSUME markHopo  PROVE TypeOK'
  <2>1. heldNotes' \in [Frets -> (0 .. MaxTime) \cup {None}] /\ now' \in 0 .. MaxTime
    BY <1>1, <1>5 DEF markHopo, None
  <2>2. marks' \in [Notes -> -5 .. 3] /\ Notes' = Notes /\ phase' # "read"
    BY <1>1, <1>5 DEF markHopo, Notes
  <2> QED  BY <1>5, <2>1, <2>2 DEF markHopo, TypeOK, pastVars
<1>6. phase # "read" => marks \in [Notes -> -5 .. 3]
  BY DEF TypeOK
<1>7. ASSUME FirstTurn  PROVE TypeOK'
  <2>1. last + 1 \in Notes /\ last' \in 0 .. Len(track)
    BY <1>1, <1>7 DEF FirstTurn, TypeOK
  <2>2. marks' \in [Notes -> -5 .. 3]
    BY <1>6, <1>7, <2>1, FirstRange DEF FirstTurn
  <2> QED  BY <1>7, <2>1, <2>2 DEF FirstTurn, TypeOK, readerVars, pastVars, Notes
<1>8. ASSUME FirstEnd  PROVE TypeOK'
  <2>1. d' \in -MaxTime .. MaxTime
    BY <1>8, DistanceRange DEF FirstEnd
  <2> QED  BY <1>1, <1>6, <1>8, <2>1 DEF FirstEnd, TypeOK, readerVars, Notes
<1>9. ASSUME NEW n \in Notes, SecondStart(n)  PROVE TypeOK'
  <2>1. marks' \in [Notes -> -5 .. 3]
    BY <1>6, <1>9 DEF SecondStart
  <2>2. n \in 0 .. Len(track)
    BY <1>1
  <2> QED  BY <1>9, <2>1, <2>2 DEF SecondStart, TypeOK, readerVars, Notes
<1>10. ASSUME NEW n \in Notes, SecondTurn(n)  PROVE TypeOK'
  <2>1. last \in Notes /\ n \in 0 .. Len(track)
    BY <1>1, <1>10 DEF SecondTurn, TypeOK
  <2>2. marks' \in [Notes -> -5 .. 3]
    BY <1>6, <1>10, <2>1, SecondRange DEF SecondTurn
  <2>3. d' \in -MaxTime .. MaxTime
    BY <1>10, <2>1, DistanceRange DEF SecondTurn
  <2> QED  BY <1>10, <2>1, <2>2, <2>3 DEF SecondTurn, TypeOK, readerVars, Notes
<1>11. ASSUME SecondEndOfList  PROVE TypeOK'
  <2>1. marks' \in [Notes -> -5 .. 3]
    BY <1>6, <1>11, LastRange DEF SecondEndOfList
  <2> QED  BY <1>11, <2>1 DEF SecondEndOfList, TypeOK, readerVars, pastVars, Notes
<1>12. CASE UNCHANGED vars
  BY <1>12 DEF TypeOK, vars, readerVars, pastVars, Notes
<1> QED  BY <1>2, <1>3, <1>4, <1>5, <1>7, <1>8, <1>9, <1>10, <1>11, <1>12 DEF Next

\* While the track is read, notes on one fret do not overlap.
LEMMA ReaderStep ==
  ASSUME TypeOK, ReaderInv, [Next]_vars
  PROVE  ReaderInv'
<1>1. /\ Len(track) \in Nat /\ Notes = 1 .. Len(track)
      /\ \A i \in Notes : track[i].time \in Int
  BY Values
<1>2. phase = "read" =>
        /\ last = 0 /\ before = 0 /\ now \in Int
        /\ \A i \in Notes : track[i].time < now
        /\ \A f \in Frets : heldNotes[f] # None =>
             /\ heldNotes[f] \in Int /\ heldNotes[f] <= now
             /\ \A i \in Notes : track[i].number = f => track[i].time < heldNotes[f]
  BY DEF ReaderInv, TypeOK
<1>3. ASSUME NEW g \in Gaps, Pass(g)  PROVE ReaderInv'
  <2>1. g \in Nat /\ g > 0
    BY ChartAssumption DEF chordFudge
  <2>2. now < now' /\ now' \in Int /\ Notes' = Notes
    BY <1>2, <1>3, <2>1 DEF Pass, Notes
  <2>3. /\ \A i \in Notes : track[i].time < now'
        /\ \A f \in Frets : heldNotes[f] # None => heldNotes[f] <= now'
    BY <1>1, <1>2, <1>3, <2>2 DEF Pass
  <2> QED  BY <1>2, <1>3, <2>2, <2>3 DEF Pass, ReaderInv, pastVars
<1>4. ASSUME NEW f \in Frets, note_on(f)  PROVE ReaderInv'
  <2>1. /\ heldNotes'[f] = now
        /\ \A g \in Frets : g # f => heldNotes'[g] = heldNotes[g]
    BY <1>4 DEF note_on, TypeOK
  <2>2. ASSUME NEW g \in Frets, heldNotes'[g] # None
        PROVE  /\ heldNotes'[g] <= now
               /\ \A i \in Notes : track[i].number = g => track[i].time < heldNotes'[g]
    <3>1. CASE g = f
      BY <1>2, <1>4, <2>1, <3>1 DEF note_on
    <3>2. CASE g # f
      BY <1>2, <1>4, <2>1, <2>2, <3>2 DEF note_on
    <3> QED  BY <3>1, <3>2
  <2> QED  BY <1>2, <1>4, <2>2 DEF note_on, ReaderInv, pastVars, Notes
<1>5. ASSUME NEW f \in Frets, note_off(f)  PROVE ReaderInv'
  <2> DEFINE new == [time |-> heldNotes[f], number |-> f]
             n == Len(track) + 1
  <2>1. /\ phase = "read" /\ heldNotes[f] # None /\ heldNotes[f] # now
        /\ track' = Append(track, new) /\ now' = now /\ last' = last /\ before' = before
    BY <1>5 DEF note_off, pastVars
  <2>2. heldNotes[f] < now /\ heldNotes[f] \in Int
    BY <1>2, <2>1
  <2>3. /\ Notes' = 1 .. n /\ track'[n] = new /\ n \in Nat
        /\ \A i \in Notes : track'[i] = track[i]
    <3>1. track \in Seq(Note) /\ new \in Note
      BY <2>1 DEF TypeOK, Note
    <3> QED  BY <1>1, <2>1, <3>1, AppendProperties DEF Notes
  <2>4. \A i \in Notes' : i \in Notes \/ i = n
    BY <1>1, <2>3
  <2>5. \A i \in Notes' : track'[i].time < now
    BY <1>2, <2>1, <2>2, <2>3, <2>4
  <2>6. /\ heldNotes'[f] = None
        /\ \A g \in Frets : g # f => heldNotes'[g] = heldNotes[g]
    BY <1>5 DEF note_off, TypeOK
  <2>7. ASSUME NEW g \in Frets, heldNotes'[g] # None
        PROVE  /\ heldNotes'[g] <= now
               /\ \A i \in Notes' : track'[i].number = g => track'[i].time < heldNotes'[g]
    <3>1. g # f /\ heldNotes'[g] = heldNotes[g]
      BY <2>6, <2>7
    <3> QED  BY <1>2, <2>1, <2>3, <2>4, <2>7, <3>1
  <2>8. ASSUME NEW i \in Notes', NEW j \in Notes', i < j, track'[i].number = track'[j].number
        PROVE  track'[i].time < track'[j].time
    <3>1. i \in Notes
      BY <1>1, <2>3, <2>8
    <3>2. CASE j = n
      BY <1>2, <2>1, <2>3, <2>8, <3>1, <3>2
    <3>3. CASE j \in Notes
      BY <2>3, <2>8, <3>1, <3>3 DEF ReaderInv
    <3> QED  BY <2>4, <3>2, <3>3
  <2> QED  BY <1>2, <2>1, <2>5, <2>7, <2>8 DEF ReaderInv
<1>6. ASSUME track' = track, phase' # "read"  PROVE ReaderInv'
  BY <1>6 DEF ReaderInv, Notes
<1>7. ASSUME markHopo \/ FirstTurn \/ FirstEnd \/ SecondEndOfList
             \/ \E n \in Notes : SecondStart(n) \/ SecondTurn(n)
      PROVE  ReaderInv'
  BY <1>6, <1>7 DEF markHopo, FirstTurn, FirstEnd, SecondStart, SecondTurn, SecondEndOfList, readerVars
<1>8. CASE UNCHANGED vars
  BY <1>8 DEF ReaderInv, vars, readerVars, pastVars, Notes
<1> QED  BY <1>3, <1>4, <1>5, <1>7, <1>8 DEF Next

\* The first loop is begun, goes on and ends.
LEMMA FirstSteps ==
  ASSUME TypeOK, ReaderInv, InOrder, phase = "first" => FirstInv(marks, last)
  PROVE  /\ markHopo => FirstInv(marks, last)' /\ phase' = "first"
         /\ FirstTurn => FirstInv(marks, last)' /\ phase' = "first"
         /\ FirstEnd => SecondInv' /\ phase' = "second"
<1>1. Len(track) \in Nat /\ Notes = 1 .. Len(track)
  BY Values
<1>2. ASSUME markHopo  PROVE FirstInv(marks, last)' /\ phase' = "first"
  <2>1. last = 0
    BY <1>2 DEF markHopo, ReaderInv
  <2>2. last' = 0 /\ \A j \in 1 .. Len(track) : marks'[j] = 0
    BY <1>2, <2>1 DEF markHopo
  <2>3. FirstInv(marks', last')
    BY <1>1, <2>2 DEF FirstInv
  <2> QED  BY <1>2, <2>3, SameFacts DEF markHopo
<1>3. ASSUME FirstTurn  PROVE FirstInv(marks, last)' /\ phase' = "first"
  <2>1. last + 1 \in Notes /\ marks \in [Notes -> -5 .. 3] /\ last \in Int
    BY <1>1, <1>3 DEF FirstTurn, TypeOK
  <2>2. FirstInv(marks, (last + 1) - 1)
    BY <1>3, <2>1 DEF FirstTurn
  <2>3. FirstInv(marks', last')
    BY <1>3, <2>1, <2>2, FirstTurnKeeps DEF FirstTurn
  <2> QED  BY <1>3, <2>3, SameFacts DEF FirstTurn, readerVars
<1>4. ASSUME FirstEnd  PROVE SecondInv' /\ phase' = "second"
  <2>1. \A j \in 1 .. Len(track) : Fact(marks', Len(track), j)
    BY <1>4 DEF FirstEnd, FirstInv
  <2>2. \A j \in 1 .. Len(track) : Fact(marks, Len(track), j)'
    BY <1>4, <2>1, SameFacts DEF FirstEnd, readerVars
  <2>3. last' = 0 /\ Len(track)' = Len(track) /\ 0 + 1 = 1 /\ last' + 1 = 1
    BY <1>4 DEF FirstEnd, readerVars
  <2>4. \A j \in 1 .. last' : FALSE
    BY <2>3
  <2>5. \A j \in (last + 1)' .. Len(track)' : Fact(marks, Len(track), j)'
    BY <2>2, <2>3
  <2> QED  BY <1>4, <2>3, <2>4, <2>5 DEF FirstEnd, SecondInv
<1> QED  BY <1>2, <1>3, <1>4

\* The second loop begins with the first note that has a neighbour.
LEMMA SecondStartStep ==
  ASSUME TypeOK, ReaderInv, InOrder, phase = "second", SecondInv, NEW n \in Notes, SecondStart(n)
  PROVE  SecondInv'
<1>1. /\ Len(track) \in Nat /\ Notes = 1 .. Len(track) /\ n \in Int /\ last = 0
      /\ marks \in [Notes -> -5 .. 3]
      /\ \A j \in Notes : Fact(marks, Len(track), j)
  <2>1. Len(track) \in Nat /\ Notes = 1 .. Len(track) /\ last = 0
    BY Values DEF SecondStart
  <2>2. \A j \in last + 1 .. Len(track) : Fact(marks, Len(track), j)
    BY DEF SecondInv
  <2> QED  BY <2>1, <2>2 DEF TypeOK
<1>2. n \in hopoNotes /\ \A k \in hopoNotes : n <= k
  BY <1>1 DEF SecondStart, Upcoming, hopoNotes
<1>3. ~Near(n) /\ Near(n + 1) /\ n < Len(track)
  <2>1. ~Near(n)
    <3>1. Near(n) => n - 1 \in hopoNotes
      BY <1>1, Links DEF hopoNotes
    <3> QED  BY <1>1, <1>2, <3>1
  <2> QED  BY <1>1, <1>2, <2>1, Links DEF hopoNotes
<1>4. /\ track' = track /\ hopoAfterChord' = hopoAfterChord
      /\ last' = n /\ before' = n /\ before2' = n /\ before3' = n
      /\ marks' = IF marks[n] >= 0 THEN [marks EXCEPT ![n] = 1] ELSE marks
  BY DEF SecondStart, readerVars
<1>5. /\ \A j \in Notes : j # n => marks'[j] = marks[j]
      /\ marks'[n] = IF marks[n] >= 0 THEN 1 ELSE marks[n]
  BY <1>1, <1>4
<1>6. ~Joined(n) /\ ~Same(n) /\ ~Open(n)
  BY <1>3 DEF Joined, Same, Open
<1>7. LastMark(marks', n)
  <2>1. Fact(marks, Len(track), n) /\ ~(Joined(n + 1) /\ Open(n + 1))
        /\ ~(Joined(n + 1) /\ Same(n + 1))
    BY <1>1, Links
  <2> QED  BY <1>1, <1>3, <1>5, <1>6, <2>1 DEF LastMark, Fact, ChordMark
<1>8. \A j \in n + 1 .. Len(track) : Fact(marks', Len(track), j)
  <2>1. TAKE j \in n + 1 .. Len(track)
  <2>2. marks'[j] = marks[j] /\ Fact(marks, Len(track), j)
    BY <1>1, <1>5
  <2> QED  BY <2>2 DEF Fact
<1>9. \A j \in 1 .. n : Follows(marks', j) /\ GoesOn(marks', n, j)
  <2>1. TAKE j \in 1 .. n
  <2>2. CASE j = n
    <3>1. marks'[n] \notin {2, 3}
      BY <1>1, <1>5
    <3> QED  BY <2>2, <3>1 DEF Follows, GoesOn
  <2>3. CASE j # n
    <3>1. j \in Notes /\ j \notin hopoNotes /\ marks'[j] = marks[j]
      BY <1>1, <1>2, <1>5, <2>3
    <3>2. ~Near(j) /\ ~Near(j + 1) /\ Fact(marks, Len(track), j)
      BY <1>1, <3>1 DEF hopoNotes
    <3>3. marks'[j] \notin {1, 2, 3}
      BY <3>1, <3>2 DEF Fact
    <3> QED  BY <3>3 DEF Follows, GoesOn
  <2> QED  BY <2>2, <2>3
<1>10. /\ hopoNotes' = hopoNotes /\ ~Near(n)' /\ ~Joined(n)'
  BY <1>3, <1>4, <1>6, SameTrack
<1>11. Registers'
  <2>1. ~Again'
    BY <1>3, <1>4 DEF Again
  <2>2. ~Near(last)' /\ ~Joined(last)'
    BY <1>4, <1>10 DEF Near, Joined, Distance
  <2>3. last' \in hopoNotes' /\ before' \in 1 .. last' /\ before2' \in 1 .. last' /\ before3' = before2'
    BY <1>1, <1>2, <1>4, <1>10
  <2> QED  BY <1>4, <2>2, <2>3 DEF Registers
<1>12. \A j \in 1 .. last' : Follows(marks, j)' /\ GoesOn(marks, last, j)'
  BY <1>4, <1>9, SameFacts
<1>13. \A j \in (last + 1)' .. Len(track)' : Fact(marks, Len(track), j)'
  BY <1>4, <1>8, SameFacts
<1>14. LastMark(marks, last)'
  BY <1>4, <1>7, SameFacts
<1> QED  BY <1>11, <1>12, <1>13, <1>14 DEF SecondInv

\* What a turn of the second loop remembers of the notes before.
LEMMA RegistersTurn ==
  ASSUME TypeOK, ReaderInv, InOrder, SecondInv, last # 0, NEW n \in Notes, n > last,
         n \in hopoNotes, \A k \in hopoNotes : last < k => n <= k, SecondTurn(n)
  PROVE  Registers'
<1>1. /\ Len(track) \in Nat /\ Notes = 1 .. Len(track) /\ n \in Int /\ last \in Notes
      /\ last \in hopoNotes /\ Registers /\ ~Again
  <2>1. Len(track) \in Nat /\ Notes = 1 .. Len(track) /\ Registers
    BY Values DEF SecondInv
  <2>2. last \in hopoNotes /\ last \in Notes /\ n \in Int
    BY <2>1 DEF Registers, hopoNotes
  <2> QED  BY <2>1, <2>2 DEF Again
<1>2. /\ track' = track /\ hopoAfterChord' = hopoAfterChord
      /\ last' = n /\ before' = last /\ before2' = before /\ before3' = before
      /\ d' = track[n].time - track[last].time /\ d1' = d
  BY DEF SecondTurn, readerVars
<1>3. /\ last' \in hopoNotes' /\ before' \in 1 .. last' /\ before2' \in 1 .. last'
      /\ before3' = before2'
  <2>1. before \in 1 .. last /\ hopoNotes' = hopoNotes
    BY <1>1, <1>2, SameTrack DEF Registers
  <2> QED  BY <1>1, <1>2, <2>1
<1>4. Near(n) => last = n - 1 /\ d' = Distance(n)
  BY <1>1, <1>2, NextOne, Links
<1>5. ~Near(n) => d' > hopoDelta
  BY <1>1, <1>2, NextOne
<1>6. /\ Near(last) => before = last - 1 /\ d = Distance(last)
      /\ ~Near(last) => before = last \/ d > hopoDelta
  BY <1>1 DEF Registers
<1>7. hopoDelta \in Nat /\ hopoDelta > chordFudge /\ chordFudge = 1
  BY ChartAssumption DEF chordFudge
<1>8. Joined(n) => Near(n)
  BY DEF Joined
<1>9. Joined(n) /\ Joined(n - 1) => before2' = n - 2 /\ d1' < chordFudge
  <2>1. SUFFICES ASSUME Joined(n), Joined(n - 1)  PROVE before2' = n - 2 /\ d1' < chordFudge
    OBVIOUS
  <2>2. last = n - 1 /\ Near(last) /\ Distance(last) = 0
    BY <1>4, <1>8, <2>1 DEF Joined
  <2> QED  BY <1>1, <1>2, <1>6, <1>7, <2>2
<1>10. Joined(n) /\ d1' < chordFudge => before2' = before' \/ (Joined(n - 1) /\ before2' = n - 2)
  <2>1. SUFFICES ASSUME Joined(n), d < chordFudge
                 PROVE  before = last \/ (Joined(n - 1) /\ before = n - 2)
    BY <1>2
  <2>2. last = n - 1
    BY <1>4, <1>8, <2>1
  <2>3. CASE Near(last)
    <3>1. Distance(last) \in Nat /\ d = Distance(last) /\ before = last - 1
      BY <1>1, <1>6, <2>3, Links
    <3>2. Joined(last)
      BY <1>7, <2>1, <2>3, <3>1 DEF Joined
    <3> QED  BY <1>1, <2>2, <3>1, <3>2
  <2>4. CASE ~Near(last)
    <3>1. d \in Int
      BY ChartAssumption DEF TypeOK, chordFudge
    <3> QED  BY <1>6, <1>7, <2>1, <2>4, <3>1
  <2> QED  BY <2>3, <2>4
<1>11. /\ Near(last)' <=> Near(n)
       /\ Joined(last)' <=> Joined(n)
       /\ Joined(last - 1)' <=> Joined(n - 1)
       /\ Distance(last)' = Distance(n)
  <2>1. \A j : /\ Near(j)' <=> Near(j)
               /\ Joined(j)' <=> Joined(j)
               /\ Distance(j)' = Distance(j)
    BY <1>2, SameTrack
  <2>2. /\ Near(last)' <=> Near(n)'
        /\ Joined(last)' <=> Joined(n)'
        /\ Joined(last - 1)' <=> Joined(n - 1)'
        /\ Distance(last)' = Distance(n)'
    BY <1>2 DEF Near, Joined, Distance
  <2> QED  BY <2>1, <2>2
<1>12. /\ Near(last)' => before' = last' - 1 /\ d' = Distance(last)'
       /\ ~Near(last)' => before' = last' \/ d' > hopoDelta
       /\ Joined(last)' /\ Joined(last - 1)' => before2' = last' - 2 /\ d1' < chordFudge
       /\ Joined(last)' /\ d1' < chordFudge
            => before2' = before' \/ (Joined(last - 1)' /\ before2' = last' - 2)
  BY <1>2, <1>4, <1>5, <1>9, <1>10, <1>11
<1> QED  BY <1>3, <1>12 DEF Registers, chordFudge

\* A turn of the second loop.
LEMMA SecondTurnStep ==
  ASSUME TypeOK, ReaderInv, InOrder, phase = "second", SecondInv, NEW n \in Notes, SecondTurn(n)
  PROVE  SecondInv'
<1>1. /\ Len(track) \in Nat /\ Notes = 1 .. Len(track) /\ n \in Int /\ last # 0
      /\ marks \in [Notes -> -5 .. 3] /\ last \in Notes /\ Registers /\ LastMark(marks, last)
  <2>1. Len(track) \in Nat /\ Notes = 1 .. Len(track) /\ last # 0
    BY Values DEF SecondTurn
  <2>2. Registers /\ LastMark(marks, last)
    BY <2>1 DEF SecondInv
  <2>3. last \in hopoNotes
    BY <2>2 DEF Registers
  <2> QED  BY <2>1, <2>2, <2>3 DEF TypeOK, hopoNotes
<1> DEFINE M == SecondMark(marks, n, track[n].time - track[last].time)
<1>2. /\ track' = track /\ hopoAfterChord' = hopoAfterChord /\ marks' = M
      /\ last' = n /\ before' = last /\ before2' = before /\ before3' = before
  BY DEF SecondTurn, readerVars
<1>3. CASE n > last
  <2>1. n \in hopoNotes /\ \A k \in hopoNotes : last < k => n <= k
    BY <1>1, <1>3 DEF SecondTurn, Upcoming
  <2>2. /\ \A j \in n + 1 .. Len(track) : Fact(marks', Len(track), j)
        /\ LastMark(marks', last')
        /\ \A j \in 1 .. n : Follows(marks', j) /\ GoesOn(marks', last', j)
    BY <1>1, <1>2, <1>3, <2>1, TurnKeeps
  <2>3. Registers'
    BY <1>1, <1>3, <2>1, RegistersTurn
  <2>4. /\ \A j \in n + 1 .. Len(track) : Fact(marks, Len(track), j)'
        /\ LastMark(marks, last)'
        /\ \A j \in 1 .. n : Follows(marks, j)' /\ GoesOn(marks, last, j)'
    BY <1>2, <2>2, SameFacts
  <2>5. /\ \A j \in 1 .. last' : Follows(marks, j)' /\ GoesOn(marks, last, j)'
        /\ \A j \in (last + 1)' .. Len(track)' : Fact(marks, Len(track), j)'
    BY <1>2, <2>4
  <2> QED  BY <2>3, <2>4, <2>5 DEF SecondInv
<1>4. CASE ~(n > last)
  <2>1. n = last /\ n = Len(track) /\ ListedTwice
    BY <1>1, <1>4 DEF SecondTurn, Upcoming
  <2>2. Open(last) /\ last = Len(track)
    <3>1. /\ last \in 2 .. Len(track) /\ ~SameFret(last)
          /\ Distance(last) \in (chordFudge + 1) .. (hopoDelta - 1)
      BY <1>1, <2>1 DEF ListedTwice
    <3>2. hopoDelta \in Nat
      BY ChartAssumption
    <3> QED  BY <2>1, <3>1, <3>2 DEF Open, Near, chordFudge
  <2>3. marks[last] \in {1, 2}
    BY <1>1, <2>2 DEF LastMark
  <2>4. marks' = marks
    <3>1. CASE marks[last] = 1
      <4>1. ~(marks[n] < 0) /\ marks[n] # 3 /\ marks[n] # 2 /\ marks[n] = 1 /\ marks[last] # 2
        BY <2>1, <3>1
      <4> QED  BY <1>2, <4>1, Zenon DEF SecondMark
    <3>2. CASE marks[last] = 2
      <4>1. ~(marks[n] < 0) /\ marks[n] # 3 /\ marks[n] # 1 /\ marks[n] = 2
        BY <2>1, <3>2
      <4>2. marks[last] # -2 /\ marks[last] # -1 /\ marks[last] # 3
        BY <3>2
      <4> QED  BY <1>2, <4>1, <4>2, Zenon DEF SecondMark, SecondMiddle
    <3> QED  BY <2>3, <3>1, <3>2
  <2>5. Again'
    BY <1>2, <2>1, SameTrack DEF Again
  <2>6. Registers'
    <3>1. before \in 1 .. last /\ last \in hopoNotes /\ hopoNotes' = hopoNotes
      BY <1>1, <1>2, SameTrack DEF Registers
    <3>2. before' \in 1 .. last' /\ before2' \in 1 .. last' /\ last' \in hopoNotes'
      BY <1>1, <1>2, <2>1, <3>1
    <3> QED  BY <1>2, <2>5, <3>2 DEF Registers
  <2>7. /\ LastMark(marks', last')
        /\ \A j \in 1 .. last : Follows(marks', j) /\ GoesOn(marks', last', j)
        /\ \A j \in last + 1 .. Len(track) : Fact(marks', Len(track), j)
    <3>1. last' = last
      BY <1>2, <2>1
    <3> QED  BY <1>1, <2>4, <3>1 DEF SecondInv
  <2>8. /\ \A j \in last + 1 .. Len(track) : Fact(marks, Len(track), j)'
        /\ LastMark(marks, last)'
        /\ \A j \in 1 .. last : Follows(marks, j)' /\ GoesOn(marks, last, j)'
    BY <1>2, <2>7, SameFacts
  <2>9. /\ \A j \in 1 .. last' : Follows(marks, j)' /\ GoesOn(marks, last, j)'
        /\ \A j \in (last + 1)' .. Len(track)' : Fact(marks, Len(track), j)'
    BY <1>2, <2>1, <2>8
  <2> QED  BY <2>6, <2>8, <2>9 DEF SecondInv
<1> QED  BY <1>3, <1>4

LessThan == {ss \in Nat \X Nat : ss[1] < ss[2]}

\* There is no infinite descent among the natural numbers.
LEMMA NaturalsDescend == IsWellFoundedOn(LessThan, Nat)
  BY NatLessThanWellFounded DEF OpToRel, LessThan

\* A set of natural numbers has a least one.
LEMMA LeastOfNaturals ==
  ASSUME NEW T, T \subseteq Nat, T # {}
  PROVE  \E y \in T : \A z \in T : y <= z
<1>1. PICK y \in T : \A z \in T : ~ (<<z, y>> \in LessThan)
  BY NaturalsDescend, WFMin, Zenon
<1>2. \A z \in T : ~ (z < y)
  BY <1>1 DEF LessThan
<1> QED  BY <1>2

\* The list ends when every note that has a neighbour was visited.
LEMMA AllVisited ==
  ASSUME TypeOK, \A n \in Notes : ~Upcoming(n)
  PROVE  \A k \in hopoNotes : k <= last
<1> DEFINE T == {k \in hopoNotes : last < k}
<1>1. Len(track) \in Nat /\ Notes = 1 .. Len(track) /\ last \in Nat
  BY Values DEF TypeOK
<1>2. T = {}
  <2>1. SUFFICES ASSUME T # {}  PROVE FALSE
    OBVIOUS
  <2>2. T \subseteq Nat
    BY <1>1 DEF hopoNotes
  <2>3. PICK y \in T : \A z \in T : y <= z
    BY <2>1, <2>2, LeastOfNaturals
  <2>4. y \in Notes /\ y \in hopoNotes /\ last < y /\ \A k \in hopoNotes : last < k => y <= k
    BY <2>3 DEF hopoNotes
  <2> QED  BY <2>4 DEF Upcoming
<1>3. \A k \in hopoNotes : k \in Nat /\ ~(last < k)
  BY <1>1, <1>2 DEF hopoNotes
<1> QED  BY <1>1, <1>3

\* The end of the second loop.
LEMMA SecondEndStep ==
  ASSUME TypeOK, ReaderInv, InOrder, phase = "second", SecondInv, SecondEndOfList
  PROVE  DoneInv'
<1> DEFINE M == MarkLast(marks)
<1>1. /\ Len(track) \in Nat /\ Notes = 1 .. Len(track) /\ last \in 0 .. Len(track)
      /\ marks \in [Notes -> -5 .. 3] /\ \A k \in hopoNotes : k <= last
  <2>1. \A k \in hopoNotes : k <= last
    BY AllVisited DEF SecondEndOfList
  <2> QED  BY <2>1, Values DEF TypeOK
<1>2. /\ track' = track /\ hopoAfterChord' = hopoAfterChord /\ marks' = M
  BY DEF SecondEndOfList, readerVars
<1>3. /\ \A j \in Notes : j # last => M[j] = marks[j]
      /\ last # 0 => /\ M[last] \notin {1, 2}
                     /\ M[last] \in {2, 3} => marks[last] \in {2, 3}
                     /\ marks[last] = 3 => M[last] = 3
  <2>1. CASE last # 0 /\ marks[last] = 1
    <3>1. M = [marks EXCEPT ![last] = 0]
      <4>1. marks[last] # 2
        BY <2>1
      <4> QED  BY <2>1, <4>1, Zenon DEF MarkLast
    <3> QED  BY <1>1, <2>1, <3>1
  <2>2. CASE last # 0 /\ marks[last] = 2
    <3>1. M = [marks EXCEPT ![last] = IF d < chordFudge THEN -4 ELSE 3]
      <4>1. marks[last] # 1
        BY <2>2
      <4> QED  BY <2>2, <4>1, Zenon DEF MarkLast
    <3> QED  BY <1>1, <2>2, <3>1
  <2>3. CASE last = 0 \/ marks[last] \notin {1, 2}
    <3>1. M = marks
      <4>1. ~(last # 0 /\ marks[last] = 1) /\ ~(last # 0 /\ marks[last] = 2)
        BY <2>3
      <4> QED  BY <4>1, Zenon DEF MarkLast
    <3> QED  BY <2>3, <3>1
  <2> QED  BY <2>1, <2>2, <2>3
<1> HIDE DEF M
<1>4. \A j \in Notes : j > last => M[j] \notin {1, 2, 3}
  <2>1. SUFFICES ASSUME NEW j \in Notes, j > last  PROVE marks[j] \notin {1, 2, 3}
    BY <1>1, <1>3
  <2>2. ~Near(j) /\ ~Near(j + 1)
    BY <1>1, <2>1 DEF hopoNotes
  <2>3. Fact(marks, Len(track), j)
    BY <1>1, <2>1 DEF SecondInv
  <2> QED  BY <2>2, <2>3 DEF Fact
<1>5. last # 0 /\ marks[last] = 2 => last = Len(track)
  <2>1. SUFFICES ASSUME last # 0, last < Len(track)  PROVE marks[last] # 2
    BY <1>1
  <2>2. ~Near(last + 1)
    <3>1. last + 1 \in Notes /\ last + 1 \notin hopoNotes
      BY <1>1, <2>1
    <3> QED  BY <3>1 DEF hopoNotes
  <2> QED  BY <2>1, <2>2 DEF SecondInv, LastMark
<1>6. ASSUME NEW j \in Notes  PROVE Follows(M, j)
  <2>1. SUFFICES ASSUME M[j] \in {2, 3}  PROVE Follows(M, j)
    BY DEF Follows
  <2>2. j <= last /\ marks[j] \in {2, 3}
    BY <1>1, <1>3, <1>4, <2>1
  <2>3. Follows(marks, j)
    BY <1>1, <2>2 DEF SecondInv
  <2>4. \A k \in Notes : k < j => M[k] = marks[k]
    BY <1>1, <1>3, <2>2
  <2> QED  BY <2>2, <2>3, <2>4 DEF Follows
<1>7. ASSUME NEW j \in Notes, M[j] \in {1, 2}
      PROVE  \E w \in Notes : Leads(j, w) /\ (M[w] \in {2, 3} \/ w = Len(track))
  <2>1. j < last /\ marks[j] \in {1, 2}
    BY <1>1, <1>3, <1>4, <1>7
  <2>2. GoesOn(marks, last, j)
    BY <1>1, <2>1 DEF SecondInv
  <2>3. PICK w \in 1 .. last : Leads(j, w) /\ marks[w] \in {2, 3}
    BY <1>1, <2>1, <2>2 DEF GoesOn
  <2>4. w \in Notes
    BY <1>1
  <2>5. CASE w = last
    BY <1>1, <1>3, <1>5, <2>1, <2>3, <2>4, <2>5
  <2>6. CASE w # last
    BY <1>3, <2>3, <2>4, <2>6
  <2> QED  BY <2>5, <2>6
<1>8. /\ \A j \in Notes : Follows(marks, j)'
      /\ \A j, w : Leads(j, w)' <=> Leads(j, w)
      /\ Notes' = Notes /\ Len(track)' = Len(track)
  BY <1>2, <1>6, SameFacts, SameTrack
<1>9. ASSUME NEW j \in Notes, marks'[j] \in {1, 2}
      PROVE  \E w \in Notes' : Leads(j, w)' /\ (marks'[w] \in {2, 3} \/ w = Len(track)')
  BY <1>2, <1>7, <1>8, <1>9
<1> QED  BY <1>8, <1>9 DEF DoneInv

-----------------------------------------------------------------------------
\* Theorems

\* The invariant holds when the program starts.
LEMMA InitIInv == ASSUME Init  PROVE IInv
<1>1. MaxTime \in Nat /\ MaxNotes \in Nat
  BY ChartAssumption DEF chordFudge
<1>2. track = <<>> /\ Len(track) = 0 /\ track \in Seq(Note) /\ phase = "read" /\ Notes = {}
  BY DEF Init, Notes
<1>3. TypeOK
  <2>1. heldNotes \in [Frets -> (0 .. MaxTime) \cup {None}] /\ now \in 0 .. MaxTime
    BY <1>1 DEF Init
  <2>2. marks \in [{} -> -5 .. 3]
    BY DEF Init
  <2>3. 0 \in -MaxTime .. MaxTime
    BY <1>1
  <2> QED  BY <1>1, <1>2, <2>1, <2>2, <2>3 DEF Init, TypeOK
<1>4. ReaderInv
  BY <1>2 DEF Init, ReaderInv
<1> QED  BY <1>2, <1>3, <1>4 DEF IInv

\* Every step keeps the invariant.
LEMMA StepIInv == ASSUME IInv, [Next]_vars  PROVE IInv'
<1>1. TypeOK /\ ReaderInv /\ TypeOK' /\ ReaderInv'
  BY TypeStep, ReaderStep DEF IInv
<1>2. ASSUME phase' = "read"  PROVE IInv'
  BY <1>1, <1>2 DEF IInv
<1>3. ASSUME track' = track, hopoAfterChord' = hopoAfterChord,
             InOrder => \/ phase' = "first" /\ FirstInv(marks, last)'
                        \/ phase' = "second" /\ SecondInv'
                        \/ phase' = "done" /\ DoneInv'
      PROVE  IInv'
  <2>1. InOrder' <=> InOrder
    BY <1>3, SameTrack
  <2> QED  BY <1>1, <1>3, <2>1 DEF IInv
<1>4. CASE \/ \E g \in Gaps : Pass(g)
           \/ \E f \in Frets : note_on(f) \/ note_off(f)
  <2>1. phase' = "read"
    BY <1>4 DEF Pass, note_on, note_off
  <2> QED  BY <1>2, <2>1
<1>5. CASE markHopo \/ FirstTurn \/ FirstEnd
  <2>1. InOrder => \/ phase' = "first" /\ FirstInv(marks, last)'
                   \/ phase' = "second" /\ SecondInv'
    BY <1>1, <1>5, FirstSteps DEF IInv
  <2>2. track' = track /\ hopoAfterChord' = hopoAfterChord
    BY <1>5 DEF markHopo, FirstTurn, FirstEnd, readerVars
  <2> QED  BY <1>3, <2>1, <2>2
<1>6. ASSUME NEW n \in Notes, SecondStart(n) \/ SecondTurn(n)  PROVE IInv'
  <2>1. /\ track' = track /\ hopoAfterChord' = hopoAfterChord
        /\ phase = "second" /\ phase' = "second"
    BY <1>6 DEF SecondStart, SecondTurn, readerVars
  <2>2. InOrder => SecondInv'
    BY <1>1, <1>6, <2>1, SecondStartStep, SecondTurnStep DEF IInv
  <2> QED  BY <1>3, <2>1, <2>2
<1>7. CASE SecondEndOfList
  <2>1. /\ track' = track /\ hopoAfterChord' = hopoAfterChord
        /\ phase = "second" /\ phase' = "done"
    BY <1>7 DEF SecondEndOfList, readerVars
  <2>2. InOrder => DoneInv'
    BY <1>1, <1>7, <2>1, SecondEndStep DEF IInv
  <2> QED  BY <1>3, <2>1, <2>2
<1>8. CASE UNCHANGED vars
  <2>1. /\ track' = track /\ hopoAfterChord' = hopoAfterChord /\ marks' = marks
        /\ phase' = phase /\ last' = last /\ before' = before /\ before2' = before2
        /\ before3' = before3 /\ d' = d /\ d1' = d1
    BY <1>8 DEF vars, readerVars, pastVars
  <2>2. InOrder' <=> InOrder
    BY <2>1, SameTrack
  <2>3. FirstInv(marks, last)' <=> FirstInv(marks, last)
    BY <2>1 DEF FirstInv, Fact, ChordMark, Joined, Same, Open, Near, SameFret, Distance
  <2>4. DoneInv' <=> DoneInv
    BY <2>1 DEF DoneInv, Follows, Leads, Notes, Joined, Near, SameFret, Distance
  <2>5. SecondInv => SecondInv'
    <3>1. /\ \A j \in (last + 1)' .. Len(track)' : Fact(marks, Len(track), j) => Fact(marks, Len(track), j)'
          /\ LastMark(marks, last) => LastMark(marks, last)'
          /\ \A j : Follows(marks, j) => Follows(marks, j)'
          /\ \A j : GoesOn(marks, last, j) => GoesOn(marks, last, j)'
      BY <2>1, SameFacts
    <3>2. Registers => Registers'
      <4>1. /\ Near(last)' <=> Near(last)
            /\ Joined(last)' <=> Joined(last)
            /\ Joined(last - 1)' <=> Joined(last - 1)
            /\ Distance(last)' = Distance(last)
            /\ Again' <=> Again
        BY <2>1 DEF Near, Joined, Distance, Again, ListedTwice, SameFret
      <4>2. hopoNotes' = hopoNotes
        BY <2>1, SameTrack
      <4> QED  BY <2>1, <4>1, <4>2 DEF Registers
    <3> QED  BY <2>1, <3>1, <3>2 DEF SecondInv
  <2> QED  BY <1>1, <2>1, <2>2, <2>3, <2>4, <2>5 DEF IInv
<1> QED  BY <1>4, <1>5, <1>6, <1>7, <1>8 DEF Next

\* The invariant holds in every state.
THEOREM Invariance == Spec => []IInv
<1>1. Init => IInv
  BY InitIInv
<1>2. IInv /\ [Next]_vars => IInv'
  BY StepIInv
<1> QED  BY <1>1, <1>2, PTL DEF Spec

\* Reading and marking a chart keep the types: in particular both loops of
\* markHopo only write tappables of -5 to 3, to notes of the track.
THEOREM TypeCorrect == Spec => []TypeOK
<1>1. IInv => TypeOK
  BY DEF IInv
<1> QED  BY <1>1, Invariance, PTL

\* Before a note that is near, and not in a chord with the note before, is the
\* chord of that note.
LEMMA PreviousChord ==
  ASSUME TypeOK, ReaderInv, InOrder, NEW i \in Notes, Near(i), ~Joined(i)
  PROVE  /\ i - 1 \in Notes /\ Distance(i) = track[i].time - track[i - 1].time
         /\ Distance(i) <= hopoDelta
         /\ Previous(i) = {j \in Notes : j < i /\ track[j].time = track[i - 1].time}
<1>1. /\ Notes = 1 .. Len(track) /\ Len(track) \in Nat /\ i \in 2 .. Len(track) /\ i - 1 \in Notes
      /\ Distance(i) \in Nat /\ Distance(i) = track[i].time - track[i - 1].time
      /\ Distance(i) <= hopoDelta /\ Distance(i) # 0
  BY Values, Links DEF Joined
<1>2. \A j \in Notes : track[j].time \in Nat
  BY Values
<1>3. track[i - 1].time < track[i].time
  BY <1>1, <1>2
<1>4. \A j \in Notes : track[j].time < track[i].time => j < i /\ track[j].time <= track[i - 1].time
  <2>1. TAKE j \in Notes
  <2>2. HAVE track[j].time < track[i].time
  <2>3. j < i
    <3>1. i < j => track[i].time <= track[j].time
      BY DEF InOrder
    <3> QED  BY <1>1, <1>2, <2>2, <3>1
  <2>4. track[j].time <= track[i - 1].time
    <3>1. j = i - 1 \/ j < i - 1
      BY <1>1, <2>3
    <3> QED  BY <1>1, <1>2, <3>1 DEF InOrder
  <2> QED  BY <2>3, <2>4
<1>5. \A j \in Previous(i) : j \in Notes /\ j < i /\ track[j].time = track[i - 1].time
  <2>1. TAKE j \in Previous(i)
  <2>2. /\ j \in Notes /\ track[j].time < track[i].time
        /\ track[i - 1].time <= track[j].time
    BY <1>1, <1>3 DEF Previous
  <2> QED  BY <1>1, <1>2, <1>4, <2>2
<1>6. \A j \in Notes : track[j].time = track[i - 1].time => j \in Previous(i)
  BY <1>3, <1>4 DEF Previous
<1> QED  BY <1>1, <1>5, <1>6

\* A note that is hammered on or pulled off is alone, and follows a chord that
\* is near, that is not the same single note, and whose last three notes start
\* or continue a run, however long the track is.
THEOREM HammeredAfterStart == Spec => []HopoHasStart
<1>1. IInv => HopoHasStart
  <2>1. SUFFICES ASSUME IInv, phase = "done", InOrder, NEW i \in Notes, marks[i] \in {2, 3}
                 PROVE  /\ ChordOf(i) = {i} /\ Previous(i) # {}
                        /\ \A j \in Previous(i) :
                             /\ track[i].time - track[j].time <= hopoDelta
                             /\ j >= i - 3 => marks[j] \in {1, 2}
                             /\ Previous(i) = {j} => track[j].number # track[i].number
    BY DEF HopoHasStart
  <2>2. /\ TypeOK /\ ReaderInv /\ Near(i) /\ ~Joined(i) /\ ~Joined(i + 1)
        /\ Joined(i - 1) \/ ~SameFret(i)
        /\ \A k \in Notes : i - 3 <= k /\ k < i /\ track[k].time = track[i - 1].time
                              => marks[k] \in {1, 2}
    BY <2>1 DEF IInv, DoneInv, Follows
  <2>3. /\ Notes = 1 .. Len(track) /\ Len(track) \in Nat /\ i \in Int
        /\ \A j \in Notes : track[j].time \in Nat
    BY <2>2, Values
  <2>4. /\ i - 1 \in Notes /\ Distance(i) = track[i].time - track[i - 1].time
        /\ Distance(i) <= hopoDelta
        /\ Previous(i) = {j \in Notes : j < i /\ track[j].time = track[i - 1].time}
    BY <2>1, <2>2, PreviousChord
  <2>5. ChordOf(i) = {i}
    <3>1. ASSUME NEW j \in Notes, track[j].time = track[i].time, j < i  PROVE FALSE
      <4>1. j = i - 1 \/ j < i - 1
        BY <2>3, <3>1
      <4>2. track[j].time <= track[i - 1].time /\ track[i - 1].time <= track[i].time
        BY <2>1, <2>3, <2>4, <4>1 DEF InOrder
      <4>3. Distance(i) = 0
        BY <2>3, <2>4, <3>1, <4>2
      <4> QED  BY <2>2, <4>3 DEF Joined
    <3>2. ASSUME NEW j \in Notes, track[j].time = track[i].time, i < j  PROVE FALSE
      <4>1. i + 1 \in 2 .. Len(track) /\ i + 1 \in Notes /\ (j = i + 1 \/ i + 1 < j)
        BY <2>3, <3>2
      <4>2. track[i + 1].time <= track[j].time /\ track[i].time <= track[i + 1].time
        BY <2>1, <2>3, <4>1 DEF InOrder
      <4>3. Distance(i + 1) = track[i + 1].time - track[(i + 1) - 1].time /\ (i + 1) - 1 = i
        BY <2>1, <2>2, <2>3, <4>1, Links
      <4>4. Distance(i + 1) = 0
        BY <2>3, <3>2, <4>1, <4>2, <4>3
      <4>5. 0 <= hopoDelta
        BY ChartAssumption
      <4> QED  BY <2>2, <4>1, <4>4, <4>5 DEF Joined, Near
    <3>3. \A j \in Notes : track[j].time = track[i].time => j = i
      BY <2>3, <3>1, <3>2
    <3> QED  BY <3>3 DEF ChordOf
  <2>6. i - 1 \in Previous(i)
    BY <2>3, <2>4
  <2>7. ASSUME NEW j \in Previous(i)
        PROVE  /\ track[i].time - track[j].time <= hopoDelta
               /\ j >= i - 3 => marks[j] \in {1, 2}
    BY <2>2, <2>3, <2>4
  <2>8. ASSUME NEW j \in Previous(i), Previous(i) = {j}
        PROVE  track[j].number # track[i].number
    <3>1. j = i - 1
      BY <2>6, <2>8
    <3>2. ~Joined(i - 1)
      <4>1. SUFFICES ASSUME Joined(i - 1)  PROVE i - 2 \in Previous(i)
        BY <2>3, <2>8, <3>1
      <4>2. /\ i - 1 \in 2 .. Len(track) /\ (i - 1) - 1 = i - 2 /\ i - 2 \in Notes
            /\ Distance(i - 1) = track[i - 1].time - track[(i - 1) - 1].time
        BY <2>1, <2>2, <2>3, <4>1, Links DEF Joined
      <4>3. track[i - 2].time = track[i - 1].time
        BY <2>3, <2>4, <4>1, <4>2 DEF Joined
      <4> QED  BY <2>3, <2>4, <4>2, <4>3
    <3> QED  BY <2>2, <3>1, <3>2 DEF SameFret
  <2> QED  BY <2>5, <2>6, <2>7, <2>8
<1> QED  BY <1>1, Invariance, PTL

\* A run of hammer-ons that is started goes on, up to the last note of the
\* song, however long the track is.
THEOREM StartGoesOn == Spec => []RunGoesOn
<1>1. IInv => RunGoesOn
  <2>1. SUFFICES ASSUME IInv, phase = "done", InOrder, NEW i \in Notes, marks[i] \in {1, 2}
                 PROVE  \E j \in Notes : i \in Previous(j) /\ (marks[j] \in {2, 3} \/ j = Len(track))
    BY DEF RunGoesOn
  <2>2. PICK w \in Notes : Leads(i, w) /\ (marks[w] \in {2, 3} \/ w = Len(track))
    BY <2>1 DEF IInv, DoneInv
  <2>3. Previous(w) = {j \in Notes : j < w /\ track[j].time = track[w - 1].time}
    BY <2>1, <2>2, PreviousChord DEF IInv, Leads
  <2>4. i \in Previous(w)
    BY <2>2, <2>3 DEF Leads
  <2> QED  BY <2>2, <2>4
<1> QED  BY <1>1, Invariance, PTL

=============================================================================
