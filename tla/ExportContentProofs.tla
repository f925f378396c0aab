------------------------- MODULE ExportContentProofs -------------------------
(* Proofs about ExportContent: what the file and the buffer hold, where the *)
(* parts end and what the archive is made of, whatever is retried, for any  *)
(* number and size of windows, lines, buffer and parts.                     *)
EXTENDS ExportContent, SequenceTheorems, TLAPS

Byte == Nat \X Nat \X Nat
Tracker == [offset : Nat, partSize : Nat, bounds : Seq(Nat)]
Sent == [bytes : Seq(Byte), lines : Nat]

(* The types that the steps rely on *)
Types ==
    /\ TypeOK
    /\ file \in Seq(Byte) /\ buf \in Seq(Byte)
    /\ tracker \in Tracker
    /\ mark \in [tracker : Tracker, lines : Nat]
    /\ kept \in Sent /\ answer \in Sent

(* The descriptor stands at the end of the file, the tracker's offset counts
   what was written, and both hold what the windows sent. *)
Written ==
    /\ pos = Len(file)
    /\ tracker.offset = Len(file) + Len(buf)
    /\ file \o buf = kept.bytes \o answer.bytes
    /\ lines = kept.lines + answer.lines

(* During an answer the mark lies where the windows done end, and that much is
   in the file, not in the buffer; outside of one nothing is in progress. *)
Marked ==
    /\ pc = "fetch" =>
          /\ mark.lines = kept.lines
          /\ mark.tracker.offset = Len(kept.bytes)
          /\ mark.tracker.partSize <= mark.tracker.offset
          /\ Len(kept.bytes) <= Len(file)
    /\ pc \in {"mark", "close"} => answer = Nothing
    /\ pc \in {"mark", "fetch"} => win < NumWindows

IInv == Types /\ Written /\ Marked

-----------------------------------------------------------------------------
(* Sequences *)

(* A write at the end of the file appends. *)
LEMMA AppendAtEnd ==
    ASSUME NEW S, NEW f \in Seq(S), NEW p \in Seq(S)
    PROVE  WriteAt(f, Len(f), p) = f \o p
<1>1. WriteAt(f, Len(f), p) =
        [i \in 1 .. Len(f) + Len(p) |->
            CASE i \in Len(f) + 1 .. Len(f) + Len(p) -> p[i - Len(f)]
              [] i <= Len(f) /\ i \notin Len(f) + 1 .. Len(f) + Len(p) -> f[i]
              [] OTHER -> Hole]
  <2>1. Len(f) \in Nat /\ Len(p) \in Nat
    OBVIOUS
  <2>2. (IF Len(f) + Len(p) > Len(f) THEN Len(f) + Len(p) ELSE Len(f)) = Len(f) + Len(p)
    BY <2>1
  <2> QED
    BY <2>2 DEF WriteAt
<1>2. f \o p \in Seq(S) /\ Len(f \o p) = Len(f) + Len(p)
  BY ConcatProperties
<1>3. \A i \in 1 .. Len(f) + Len(p) :
        (f \o p)[i] = IF i <= Len(f) THEN f[i] ELSE p[i - Len(f)]
  OBVIOUS
<1>4. \A i \in 1 .. Len(f) + Len(p) :
        (CASE i \in Len(f) + 1 .. Len(f) + Len(p) -> p[i - Len(f)]
           [] i <= Len(f) /\ i \notin Len(f) + 1 .. Len(f) + Len(p) -> f[i]
           [] OTHER -> Hole) = IF i <= Len(f) THEN f[i] ELSE p[i - Len(f)]
  OBVIOUS
<1>5. f \o p = [i \in 1 .. Len(f) + Len(p) |-> (f \o p)[i]]
  BY <1>2, LenProperties
<1> QED
  BY <1>1, <1>3, <1>4, <1>5

(* Two sequences that agree with the two halves of a third join to it. *)
LEMMA HalvesJoin ==
    ASSUME NEW S, NEW s \in Seq(S), NEW a \in Seq(S), NEW b \in Seq(S),
           NEW k \in Nat, Len(a) = k, Len(s) = k + Len(b),
           \A i \in 1 .. k : a[i] = s[i],
           \A i \in 1 .. Len(b) : b[i] = s[k + i]
    PROVE  a \o b = s
<1>1. Len(a) \in Nat /\ Len(b) \in Nat /\ Len(s) \in Nat
  OBVIOUS
<1> DEFINE t == a \o b
<1>2. /\ t \in Seq(S) /\ Len(t) = Len(a) + Len(b)
      /\ \A i \in 1 .. Len(a) + Len(b) :
            t[i] = IF i <= Len(a) THEN a[i] ELSE b[i - Len(a)]
  BY ConcatProperties
<1> HIDE DEF t
<1>3. ASSUME NEW i \in 1 .. Len(s) PROVE t[i] = s[i]
  <2>1. CASE i <= k
    BY <1>1, <1>2, <2>1
  <2>2. CASE ~(i <= k)
    <3>1. i - k \in 1 .. Len(b) /\ k + (i - k) = i
      BY <1>1, <2>2
    <3>2. t[i] = b[i - k]
      BY <1>1, <1>2, <2>2
    <3>3. b[i - k] = s[k + (i - k)]
      BY <3>1
    <3> QED
      BY <3>1, <3>2, <3>3
  <2> QED
    BY <2>1, <2>2
<1>4. Len(t) = Len(s)
  BY <1>1, <1>2
<1>5. t = s
  BY <1>2, <1>3, <1>4, SeqEqual
<1> QED
  BY <1>5 DEF t

(* What spills from the buffer and what stays in it join again. *)
LEMMA SplitJoins ==
    ASSUME NEW S, NEW s \in Seq(S), NEW k \in 0 .. Len(s)
    PROVE  /\ SubSeq(s, 1, k) \in Seq(S) /\ Len(SubSeq(s, 1, k)) = k
           /\ SubSeq(s, k + 1, Len(s)) \in Seq(S)
           /\ Len(SubSeq(s, k + 1, Len(s))) = Len(s) - k
           /\ SubSeq(s, 1, k) \o SubSeq(s, k + 1, Len(s)) = s
<1>1. \A i \in 1 .. Len(s) : s[i] \in S
  OBVIOUS
<1>2. /\ SubSeq(s, 1, k) \in Seq(S)
      /\ Len(SubSeq(s, 1, k)) = k
      /\ \A i \in 1 .. k : SubSeq(s, 1, k)[i] = s[i]
  BY <1>1, SubSeqProperties
<1>3. /\ SubSeq(s, k + 1, Len(s)) \in Seq(S)
      /\ Len(SubSeq(s, k + 1, Len(s))) = Len(s) - k
      /\ \A i \in 1 .. Len(s) - k : SubSeq(s, k + 1, Len(s))[i] = s[k + i]
  BY <1>1, SubSeqProperties
<1>4. SubSeq(s, 1, k) \o SubSeq(s, k + 1, Len(s)) = s
  <2> DEFINE a == SubSeq(s, 1, k)  b == SubSeq(s, k + 1, Len(s))
  <2>1. /\ a \in Seq(S) /\ b \in Seq(S) /\ k \in Nat /\ Len(a) = k
        /\ Len(s) = k + Len(b)
        /\ \A i \in 1 .. k : a[i] = s[i]
        /\ \A i \in 1 .. Len(b) : b[i] = s[k + i]
    BY <1>2, <1>3
  <2> HIDE DEF a, b
  <2>2. a \o b = s
    BY <2>1, HalvesJoin
  <2> QED
    BY <2>2 DEF a, b
<1> QED
  BY <1>2, <1>3, <1>4

(* Moving bytes from the buffer to the file does not change them. *)
LEMMA JoinAssociates ==
    ASSUME NEW S, NEW a \in Seq(S), NEW b \in Seq(S), NEW c \in Seq(S)
    PROVE  (a \o b) \o c = a \o (b \o c)
  OBVIOUS

(* An empty buffer or answer adds nothing. *)
LEMMA JoinNothing ==
    ASSUME NEW S, NEW a \in Seq(S)
    PROVE  a \o <<>> = a /\ <<>> \o a = a
  OBVIOUS

(* What is cut at the end of an earlier content is that content. *)
LEMMA CutKeeps ==
    ASSUME NEW S, NEW f \in Seq(S), NEW b \in Seq(S), NEW k \in Seq(S),
           NEW a \in Seq(S), f \o b = k \o a, Len(k) <= Len(f)
    PROVE  [i \in 1 .. Len(k) |-> IF i <= Len(f) THEN f[i] ELSE Hole] = k
<1>1. \A i \in 1 .. Len(k) : (f \o b)[i] = f[i] /\ (k \o a)[i] = k[i] /\ i <= Len(f)
  OBVIOUS
<1>2. \A i \in 1 .. Len(k) : (IF i <= Len(f) THEN f[i] ELSE Hole) = k[i]
  BY <1>1
<1>3. k = [i \in 1 .. Len(k) |-> k[i]]
  OBVIOUS
<1> QED
  BY <1>2, <1>3

-----------------------------------------------------------------------------
(* The invariant *)

USE ContentAssumption

(* A new sink satisfies the invariant. *)
LEMMA InitInvariant == Init => IInv
<1> SUFFICES ASSUME Init PROVE IInv
  OBVIOUS
<1> USE DEF Init, NewTracker, Nothing
<1>1. <<>> \in Seq(Byte) /\ Len(<<>>) = 0 /\ <<>> \o <<>> = <<>> /\ <<0>> \in Seq(Nat)
  BY EmptySeq, JoinNothing
<1>2. Types
  BY <1>1 DEF Types, TypeOK, Tracker, Sent
<1>3. Written
  BY <1>1 DEF Written
<1>4. Marked
  BY DEF Marked
<1> QED
  BY <1>2, <1>3, <1>4 DEF IInv

(* Flushing moves the buffer to the end of the file and changes nothing else *)
LEMMA FlushMoves ==
    ASSUME Types, Written, Flush
    PROVE  /\ file' = file \o buf /\ buf' = <<>>
           /\ file' \in Seq(Byte) /\ buf' \in Seq(Byte)
           /\ Len(file') = Len(file) + Len(buf) /\ pos' = Len(file')
           /\ file' \o buf' = file \o buf
           /\ Len(buf') = 0
<1>1. file \in Seq(Byte) /\ buf \in Seq(Byte) /\ pos = Len(file)
  BY DEF Types, Written
<1>2. file' = WriteAt(file, Len(file), buf) /\ buf' = <<>> /\ pos' = pos + Len(buf)
  BY <1>1 DEF Flush, ToDisk
<1>3. file' = file \o buf
  BY <1>1, <1>2, AppendAtEnd
<1>4. file' \in Seq(Byte) /\ Len(file') = Len(file) + Len(buf)
  BY <1>1, <1>3, ConcatProperties
<1>5. file' \o buf' = file'
  BY <1>2, <1>4, JoinNothing
<1>6. buf' \in Seq(Byte) /\ Len(buf') = 0
  BY <1>2, EmptySeq
<1> QED
  BY <1>1, <1>2, <1>3, <1>4, <1>5, <1>6

(* A mark leaves everything in the file, where the windows done end. *)
LEMMA MarkPreserves == IInv /\ Mark => IInv'
<1> SUFFICES ASSUME IInv, Mark PROVE IInv'
  OBVIOUS
<1>1. Types /\ Written /\ Marked /\ Flush
  BY DEF IInv, Mark
<1>2. /\ file' = file \o buf
      /\ file' \in Seq(Byte) /\ buf' \in Seq(Byte)
      /\ Len(file') = Len(file) + Len(buf) /\ pos' = Len(file')
      /\ file' \o buf' = file \o buf
      /\ Len(buf') = 0
  BY <1>1, FlushMoves
<1>3. Types'
  BY <1>1, <1>2 DEF Types, TypeOK, Mark, Tracker
<1>4. Written'
  BY <1>1, <1>2, <1>3 DEF Types, Written, Mark
<1>5. file' = kept.bytes
  <2>1. answer.bytes = <<>> /\ kept.bytes \in Seq(Byte)
    BY <1>1 DEF Marked, Mark, Nothing, Types, Sent
  <2>2. file' = kept.bytes \o <<>>
    BY <1>1, <1>2, <2>1 DEF Written
  <2> QED
    BY <2>1, <2>2, JoinNothing
<1>6. tracker.offset = Len(kept.bytes) /\ lines = kept.lines /\ win < NumWindows
  BY <1>1, <1>2, <1>5 DEF Written, Marked, Mark, Nothing, Types, Sent
<1>7. Marked'
  BY <1>1, <1>2, <1>5, <1>6 DEF Marked, Mark, Types, TypeOK
<1> QED
  BY <1>3, <1>4, <1>7 DEF IInv

(* Closing the sink only flushes it. *)
LEMMA ClosePreserves == IInv /\ Close => IInv'
<1> SUFFICES ASSUME IInv, Close PROVE IInv'
  OBVIOUS
<1>1. Types /\ Written /\ Marked /\ Flush
  BY DEF IInv, Close
<1>2. /\ file' \in Seq(Byte) /\ buf' \in Seq(Byte)
      /\ Len(file') = Len(file) + Len(buf) /\ pos' = Len(file')
      /\ file' \o buf' = file \o buf
      /\ Len(buf') = 0
  BY <1>1, FlushMoves
<1>3. Types'
  BY <1>1, <1>2 DEF Types, TypeOK, Close, Tracker
<1>4. Written'
  BY <1>1, <1>2, <1>3 DEF Types, Written, Close
<1>5. Marked'
  BY DEF Marked, Close
<1> QED
  BY <1>3, <1>4, <1>5 DEF IInv

(* A line of n bytes: what spills goes to the end of the file, the rest stays *)
LEMMA SpillIsPart ==
    ASSUME Types, NEW line \in Seq(Byte), NEW all \in Seq(Byte),
           Len(all) = Len(buf) + Len(line)
    PROVE  /\ Spilled(line) \in 0 .. Len(all)
           /\ Len(all) - Spilled(line) <= BufSize
<1>1. Len(buf) \in Nat /\ Len(line) \in Nat /\ BufSize \in Nat
  BY DEF Types
<1> DEFINE n == Len(buf) + Len(line)
<1>2. CASE n <= BufSize
  BY <1>1, <1>2 DEF Spilled
<1>3. CASE n > BufSize /\ (buf = <<>> \/ n > 2 * BufSize)
  <2>1. Spilled(line) = n
    BY <1>1, <1>3 DEF Spilled
  <2> QED
    BY <1>1, <2>1
<1>4. CASE n > BufSize /\ ~(buf = <<>> \/ n > 2 * BufSize)
  <2>1. Spilled(line) = BufSize
    BY <1>1, <1>4 DEF Spilled
  <2> QED
    BY <1>1, <1>4, <2>1
<1> QED
  BY <1>1, <1>2, <1>3, <1>4

(* The tracker's next state: its offset moves by the line, its part stays within. *)
LEMMA TrackedIsTracker ==
    ASSUME Types, NEW n \in Nat
    PROVE  /\ Tracked(n) \in Tracker
           /\ Tracked(n).offset = tracker.offset + n
           /\ Tracked(n).partSize <= Tracked(n).offset
<1>1. /\ tracker \in Tracker /\ tracker.partSize \in Nat /\ tracker.offset \in Nat
      /\ tracker.partSize <= tracker.offset
      /\ Append(tracker.bounds, tracker.offset) \in Seq(Nat)
  BY DEF Types, TypeOK, Tracker
<1> QED
  BY <1>1 DEF Tracked, Tracker

(* A line is added to the file and the buffer together, however it spills. *)
LEMMA LinePreserves == ASSUME NEW n \in LineSizes PROVE IInv /\ WriteLine(n) => IInv'
<1> SUFFICES ASSUME IInv, WriteLine(n) PROVE IInv'
  OBVIOUS
<1>1. Types /\ Written /\ Marked /\ n \in Nat
  BY DEF IInv
<1>2. CASE n = 0
  <2>1. Types'
    BY <1>1, <1>2 DEF Types, TypeOK, WriteLine, sink
  <2>2. Written' /\ Marked'
    BY <1>1, <1>2 DEF Written, Marked, WriteLine, sink
  <2> QED
    BY <2>1, <2>2 DEF IInv
<1>3. CASE n # 0
  <2> DEFINE line == [b \in 1 .. n |-> <<win + 1, attempt, received + 1>>]
             all == buf \o line
             k == Spilled(line)
             rest == SubSeq(all, k + 1, Len(all))
             out == SubSeq(all, 1, k)
  <2>1. /\ ToDisk(out) /\ buf' = rest /\ tracker' = Tracked(n)
        /\ lines' = lines + 1
        /\ answer' = Then(answer, [bytes |-> line, lines |-> 1])
    BY <1>3 DEF WriteLine
  <2>2. line \in Seq(Byte) /\ Len(line) = n
    <3>1. <<win + 1, attempt, received + 1>> \in Byte
      BY <1>1 DEF Types, TypeOK, Byte
    <3> QED
      BY <1>1, <3>1
  <2>3. file \in Seq(Byte) /\ buf \in Seq(Byte)
    BY <1>1 DEF Types
  <2> HIDE DEF line
  <2>4. all \in Seq(Byte) /\ Len(all) = Len(buf) + Len(line)
    BY <2>2, <2>3, ConcatProperties
  <2>5. k \in 0 .. Len(all) /\ Len(all) - k <= BufSize
    BY <1>1, <2>2, <2>4, SpillIsPart
  <2> HIDE DEF all, k
  <2>6. /\ out \in Seq(Byte) /\ Len(out) = k
        /\ rest \in Seq(Byte) /\ Len(rest) = Len(all) - k
        /\ out \o rest = all
    BY <2>4, <2>5, SplitJoins
  <2> HIDE DEF out, rest
  <2>7. /\ file' = file \o out /\ pos' = Len(file) + Len(out)
        /\ file' \in Seq(Byte) /\ Len(file') = Len(file) + Len(out)
    <3>1. file' = WriteAt(file, Len(file), out) /\ pos' = Len(file) + Len(out)
      BY <1>1, <2>1 DEF ToDisk, Written
    <3>2. file' = file \o out
      BY <2>3, <2>6, <3>1, AppendAtEnd
    <3> QED
      BY <2>3, <2>6, <3>1, <3>2, ConcatProperties
  <2>8. file' \o buf' = kept.bytes \o (answer.bytes \o line)
    <3>1. file' \o buf' = file \o all
      <4>1. file' \o buf' = (file \o out) \o rest
        BY <2>1, <2>7
      <4>2. out \in Seq(Byte) /\ rest \in Seq(Byte) /\ file \in Seq(Byte)
        BY <2>3, <2>6
      <4>3. (file \o out) \o rest = file \o (out \o rest)
        BY <4>2, JoinAssociates
      <4> QED
        BY <2>6, <4>1, <4>3
    <3>2. file \o all = (file \o buf) \o line
      BY <2>2, <2>3, JoinAssociates DEF all
    <3> DEFINE old == kept.bytes
               new == answer.bytes
    <3>3. old \in Seq(Byte) /\ new \in Seq(Byte)
      BY <1>1 DEF Types, Sent
    <3>4. file \o buf = old \o new
      BY <1>1 DEF Written
    <3> HIDE DEF old, new
    <3>5. (old \o new) \o line = old \o (new \o line)
      BY <2>2, <3>3, JoinAssociates
    <3>6. file' \o buf' = old \o (new \o line)
      BY <3>1, <3>2, <3>4, <3>5
    <3> QED
      BY <3>6 DEF old, new
  <2>9. answer' = [bytes |-> answer.bytes \o line, lines |-> answer.lines + 1]
    BY <2>1 DEF Then
  <2>10. answer.bytes \o line \in Seq(Byte) /\ answer.lines + 1 \in Nat
    BY <1>1, <2>2, ConcatProperties DEF Types, Sent
  <2>11. answer' \in Sent
    BY <2>9, <2>10 DEF Sent
  <2>12. /\ tracker' \in Tracker /\ tracker'.offset = tracker.offset + n
         /\ tracker'.partSize <= tracker'.offset
    BY <1>1, <2>1, TrackedIsTracker
  <2>13. Types'
    <3>1. TypeOK'
      BY <1>1, <1>3, <2>1, <2>5, <2>6, <2>7, <2>12
      DEF Types, TypeOK, WriteLine, Tracker
    <3> QED
      BY <1>1, <2>1, <2>6, <2>7, <2>11, <2>12, <3>1 DEF Types, WriteLine
  <2>14. Written'
    <3>1. pos' = Len(file')
      BY <2>7
    <3>2. tracker'.offset = Len(file') + Len(buf')
      BY <1>1, <2>1, <2>2, <2>3, <2>4, <2>5, <2>6, <2>7, <2>12 DEF Written
    <3>3. file' \o buf' = kept'.bytes \o answer'.bytes
      BY <2>8, <2>9 DEF WriteLine
    <3>4. lines' = kept'.lines + answer'.lines
      BY <1>1, <2>1, <2>9 DEF Written, WriteLine, Types, Sent
    <3> QED
      BY <3>1, <3>2, <3>3, <3>4 DEF Written
  <2>15. Marked'
    BY <1>1, <2>3, <2>6, <2>7 DEF Marked, WriteLine, Types, Sent
  <2> QED
    BY <2>13, <2>14, <2>15 DEF IInv
<1> QED
  BY <1>2, <1>3

(* A complete answer becomes part of what the windows done have sent. *)
LEMMA WindowPreserves == IInv /\ WindowDone => IInv'
<1> SUFFICES ASSUME IInv, WindowDone PROVE IInv'
  OBVIOUS
<1>1. Types /\ Written /\ Marked
  BY DEF IInv
<1>2. kept.bytes \in Seq(Byte) /\ answer.bytes \in Seq(Byte)
      /\ kept.lines \in Nat /\ answer.lines \in Nat
  BY <1>1 DEF Types, Sent
<1> DEFINE all == kept.bytes \o answer.bytes
<1>3. all \in Seq(Byte)
  BY <1>2, ConcatProperties
<1>4. kept' = [bytes |-> all, lines |-> kept.lines + answer.lines]
  BY DEF WindowDone, Then
<1>5. answer' = Nothing /\ Nothing \in Sent
  BY EmptySeq DEF WindowDone, Nothing, Sent
<1> HIDE DEF all
<1>6. win < NumWindows
  BY <1>1 DEF Marked, WindowDone
<1>7. Types'
  <2>1. kept' \in Sent
    BY <1>2, <1>3, <1>4 DEF Sent
  <2> QED
    BY <1>1, <1>5, <1>6, <2>1 DEF Types, TypeOK, WindowDone, sink
<1>8. Written'
  <2>1. file \o buf = all
    BY <1>1 DEF Written, all
  <2>2. all \o <<>> = all
    BY <1>3, JoinNothing
  <2>3. file' \o buf' = kept'.bytes \o answer'.bytes
    BY <1>4, <1>5, <2>1, <2>2 DEF WindowDone, sink, Nothing
  <2>4. lines' = kept'.lines + answer'.lines
    BY <1>1, <1>2, <1>4, <1>5 DEF Written, WindowDone, sink, Nothing
  <2> QED
    BY <1>1, <2>3, <2>4 DEF Written, WindowDone, sink
<1>9. Marked'
  BY <1>1, <1>5, <1>6 DEF Marked, WindowDone, Types, TypeOK
<1> QED
  BY <1>7, <1>8, <1>9 DEF IInv

(* A retry restores the file, the buffer, the tracker and the count at once. *)
LEMMA RetryPreserves == IInv /\ Retry => IInv'
<1> SUFFICES ASSUME IInv, Retry PROVE IInv'
  OBVIOUS
<1>1. Types /\ Written /\ Marked /\ pc = "fetch"
  BY DEF IInv, Retry
<1>2. /\ file \in Seq(Byte) /\ buf \in Seq(Byte)
      /\ kept.bytes \in Seq(Byte) /\ answer.bytes \in Seq(Byte)
      /\ kept.lines \in Nat
  BY <1>1 DEF Types, Sent
<1>3. /\ mark.lines = kept.lines /\ mark.tracker.offset = Len(kept.bytes)
      /\ mark.tracker.partSize <= mark.tracker.offset
      /\ Len(kept.bytes) <= Len(file) /\ win < NumWindows
  BY <1>1 DEF Marked
<1> DEFINE old == kept.bytes
           new == answer.bytes
<1>4. file \o buf = old \o new
  BY <1>1 DEF Written
<1>5. /\ file' = [i \in 1 .. Len(old) |-> IF i <= Len(file) THEN file[i] ELSE Hole]
      /\ pos' = Len(old)
  BY <1>3 DEF Retry, Rollback, CutTo
<1>6. file' = old
  <2>1. old \in Seq(Byte) /\ new \in Seq(Byte) /\ Len(old) <= Len(file)
    BY <1>2, <1>3
  <2> HIDE DEF old, new
  <2> QED
    BY <1>2, <1>4, <1>5, <2>1, CutKeeps
<1>7. buf' = <<>> /\ buf' \in Seq(Byte) /\ Len(buf') = 0
  BY EmptySeq DEF Retry, Rollback
<1>8. answer' = Nothing /\ Nothing \in Sent /\ kept' = kept /\ lines' = kept.lines
  BY <1>3, EmptySeq DEF Retry, Rollback, Nothing, Sent
<1>9. /\ tracker' \in Tracker /\ tracker'.offset = mark.tracker.offset
      /\ tracker'.partSize = mark.tracker.partSize
  <2> DEFINE n == Len(mark.tracker.bounds)
  <2>1. mark.tracker \in Tracker /\ tracker.bounds \in Seq(Nat) /\ n \in Nat
    BY <1>1 DEF Types, Tracker
  <2>2. BoundsAtMark \in Seq(Nat)
    <3>1. CASE Len(tracker.bounds) > n
      <4> DEFINE b == tracker.bounds
      <4>1. b \in Seq(Nat) /\ n \in 0 .. Len(b)
        BY <2>1, <3>1
      <4>2. BoundsAtMark = SubSeq(b, 1, n)
        BY <3>1 DEF BoundsAtMark
      <4> HIDE DEF b, n
      <4> QED
        BY <4>1, <4>2, SplitJoins
    <3>2. CASE ~(Len(tracker.bounds) > n)
      BY <2>1, <3>2 DEF BoundsAtMark
    <3> QED
      BY <3>1, <3>2
  <2>3. tracker' = [mark.tracker EXCEPT !.bounds = BoundsAtMark]
    BY DEF Retry, Rollback
  <2> QED
    BY <2>1, <2>2, <2>3 DEF Tracker
<1>10. TypeOK'
  BY <1>1, <1>2, <1>3, <1>5, <1>7, <1>8, <1>9
  DEF Types, TypeOK, Retry, CountRetry, Tracker
<1>11. Types'
  BY <1>1, <1>2, <1>6, <1>7, <1>8, <1>9, <1>10 DEF Types, Retry
<1>12. Written'
  <2>1. old \o <<>> = old
    BY <1>2, JoinNothing
  <2>2. file' \o buf' = kept'.bytes \o answer'.bytes
    BY <1>6, <1>7, <1>8, <2>1 DEF Nothing
  <2>3. lines' = kept'.lines + answer'.lines
    BY <1>2, <1>8 DEF Nothing
  <2>4. pos' = Len(file') /\ tracker'.offset = Len(file') + Len(buf')
    BY <1>2, <1>3, <1>5, <1>6, <1>7, <1>9
  <2> QED
    BY <2>2, <2>3, <2>4 DEF Written
<1>13. Marked'
  BY <1>3, <1>8 DEF Marked, Retry
<1> QED
  BY <1>11, <1>12, <1>13 DEF IInv

(* What does not touch the sink *)
LEMMA OthersPreserve ==
    IInv /\ (\/ Fail \/ Cancelled \/ PackWhole \/ OpenVolume \/ PackPart
             \/ CloseVolume \/ UNCHANGED vars) => IInv'
<1> SUFFICES ASSUME IInv, \/ Fail \/ Cancelled \/ PackWhole \/ OpenVolume
                          \/ PackPart \/ CloseVolume \/ UNCHANGED vars
             PROVE  IInv'
  OBVIOUS
<1>1. Types /\ Written /\ Marked
  BY DEF IInv
<1>2. /\ UNCHANGED <<win, attempt, sink, mark, kept, answer, received>>
      /\ pc' \in {pc, "failed", "cancelled", "packing", "done"}
  <2>1. CASE Fail
    BY <2>1 DEF Fail
  <2>2. CASE Cancelled
    BY <2>2 DEF Cancelled
  <2>3. CASE PackWhole
    BY <2>3 DEF PackWhole
  <2>4. CASE OpenVolume
    BY <2>4 DEF OpenVolume
  <2>5. CASE PackPart
    BY <2>5 DEF PackPart
  <2>6. CASE CloseVolume
    BY <2>6 DEF CloseVolume
  <2>7. CASE UNCHANGED vars
    BY <2>7 DEF vars
  <2> QED
    BY <2>1, <2>2, <2>3, <2>4, <2>5, <2>6, <2>7
<1>3. Types'
  BY <1>1, <1>2 DEF Types, TypeOK, sink
<1>4. Written' /\ Marked'
  BY <1>1, <1>2 DEF Written, Marked, sink
<1> QED
  BY <1>3, <1>4 DEF IInv

(* IInv holds in every reachable state. *)
THEOREM Invariance == Spec => []IInv
<1>1. Init => IInv
  BY InitInvariant
<1>2. IInv /\ [Next]_vars => IInv'
  <2> SUFFICES ASSUME IInv, [Next]_vars PROVE IInv'
    OBVIOUS
  <2>1. CASE Mark
    BY <2>1, MarkPreserves
  <2>2. CASE WindowDone
    BY <2>2, WindowPreserves
  <2>3. CASE Retry
    BY <2>3, RetryPreserves
  <2>4. CASE Close
    BY <2>4, ClosePreserves
  <2>5. ASSUME NEW n \in LineSizes, WriteLine(n) PROVE IInv'
    BY <2>5, LinePreserves
  <2>6. CASE \/ Fail \/ Cancelled \/ PackWhole \/ OpenVolume \/ PackPart
             \/ CloseVolume \/ UNCHANGED vars
    BY <2>6, OthersPreserve
  <2> QED
    BY <2>1, <2>2, <2>3, <2>4, <2>5, <2>6 DEF Next
<1> QED
  BY <1>1, <1>2, PTL DEF Spec

(* The types of the sink: no more retries than allowed, a buffer that is not
   overrun, a part no larger than the output. *)
THEOREM TypeCorrect == Spec => []TypeOK
<1>1. IInv => TypeOK
  BY DEF IInv, Types
<1> QED
  BY <1>1, Invariance, PTL

(* File and buffer hold what the windows sent, once and in order, whatever
   was retried and wherever the buffer spilled. *)
THEOREM ContentKept == Spec => []ContentExact
<1>1. IInv => ContentExact
  BY DEF IInv, Written, ContentExact
<1> QED
  BY <1>1, Invariance, PTL

(* The job counts the lines that it holds, not those of abandoned answers. *)
THEOREM LinesKept == Spec => []LinesCounted
<1>1. IInv => LinesCounted
  BY DEF IInv, Written, LinesCounted
<1> QED
  BY <1>1, Invariance, PTL
-----------------------------------------------------------------------------
(* The parts *)

(* The byte of B at an offset begins a line. *)
Begins(B, o) == o = 0 \/ B[o] # B[o + 1]

(* Where the i-th part of a tracker ends *)
SpanEnd(t, i) == IF i < Len(t.bounds) THEN t.bounds[i + 1] ELSE t.offset

(* From s to e there is no more than a part may hold, or one line. *)
Small(B, s, e) ==
    \/ Limit = 0 \/ e - s <= Limit
    \/ \A o \in s + 1 .. e - 1 : ~Begins(B, o)

(* The first line after s would not have fitted into the part that begins at p. *)
FullBefore(B, p, s, e) ==
    \E next \in s + 1 .. e : /\ next - p > Limit
                             /\ \A o \in s + 1 .. next - 1 : ~Begins(B, o)

(* The bounds of a tracker cut the bytes it has seen at lines, into parts that
   are neither larger than allowed nor cut short. *)
Tiled(B, t) ==
    /\ t.offset = Len(B)
    /\ Len(t.bounds) >= 1 /\ t.bounds[1] = 0
    /\ t.bounds[Len(t.bounds)] + t.partSize = t.offset
    /\ t.partSize = 0 => t.offset = 0
    /\ \A i \in 2 .. Len(t.bounds) :
          /\ t.bounds[i - 1] < t.bounds[i] /\ t.bounds[i] < t.offset
          /\ Begins(B, t.bounds[i])
          /\ FullBefore(B, t.bounds[i - 1], t.bounds[i], SpanEnd(t, i))
    /\ \A i \in 1 .. Len(t.bounds) : Small(B, t.bounds[i], SpanEnd(t, i))

(* A byte tells its window and its line: none of the next line is in the sink. *)
Tagged ==
    /\ \A i \in 1 .. Len(kept.bytes) : kept.bytes[i][1] <= win
    /\ \A i \in 1 .. Len(answer.bytes) :
          answer.bytes[i][1] = win + 1 /\ answer.bytes[i][3] <= received

(* The mark of an attempt cuts what was there before it, and the bounds have
   only grown since. *)
BoundsGrow ==
    pc = "fetch" =>
        /\ Tiled(kept.bytes, mark.tracker)
        /\ Len(mark.tracker.bounds) <= Len(tracker.bounds)
        /\ \A i \in 1 .. Len(mark.tracker.bounds) :
              tracker.bounds[i] = mark.tracker.bounds[i]

PartsInv == Tiled(kept.bytes \o answer.bytes, tracker) /\ BoundsGrow /\ Tagged

(* What a line at the end of B leaves of the lines before, and adds. *)
LEMMA LineBegins ==
    ASSUME NEW B \in Seq(Byte), NEW line \in Seq(Byte), line # <<>>,
           \A i, j \in 1 .. Len(line) : line[i] = line[j],
           Len(B) > 0 => B[Len(B)] # line[1]
    PROVE  /\ B \o line \in Seq(Byte) /\ Len(B \o line) = Len(B) + Len(line)
           /\ \A o \in 0 .. Len(B) - 1 : Begins(B \o line, o) <=> Begins(B, o)
           /\ Begins(B \o line, Len(B))
           /\ \A o \in Len(B) + 1 .. (Len(B) + Len(line)) - 1 : ~Begins(B \o line, o)
<1> DEFINE C == B \o line
           m == Len(B)
           n == Len(line)
<1>1. m \in Nat /\ n \in Nat /\ n > 0
  BY EmptySeq
<1>2. /\ C \in Seq(Byte) /\ Len(C) = m + n
      /\ \A i \in 1 .. m + n : C[i] = IF i <= m THEN B[i] ELSE line[i - m]
  BY ConcatProperties
<1>3. /\ \A i, j \in 1 .. n : line[i] = line[j]
      /\ m > 0 => B[m] # line[1]
  OBVIOUS
<1> HIDE DEF C, m, n
<1>4. \A i \in 1 .. m : C[i] = B[i]
  BY <1>1, <1>2
<1>5. ASSUME NEW i \in m + 1 .. m + n PROVE C[i] = line[1]
  <2>1. i \in 1 .. m + n /\ ~(i <= m) /\ i - m \in 1 .. n /\ 1 \in 1 .. n
    BY <1>1
  <2>2. C[i] = line[i - m]
    BY <1>2, <2>1
  <2> QED
    BY <1>3, <2>1, <2>2
<1>6. ASSUME NEW o \in 0 .. m - 1 PROVE Begins(C, o) <=> Begins(B, o)
  <2>1. CASE o = 0
    BY <2>1 DEF Begins
  <2>2. CASE o # 0
    <3>1. o \in 1 .. m /\ o + 1 \in 1 .. m
      BY <1>1, <2>2
    <3> QED
      BY <1>4, <3>1 DEF Begins
  <2> QED
    BY <2>1, <2>2
<1>7. Begins(C, m)
  <2>1. CASE m = 0
    BY <2>1 DEF Begins
  <2>2. CASE m # 0
    <3>1. m > 0 /\ m \in 1 .. m /\ m + 1 \in m + 1 .. m + n
      BY <1>1, <2>2
    <3>2. C[m] = B[m] /\ C[m + 1] = line[1]
      BY <1>4, <1>5, <3>1
    <3> QED
      BY <1>3, <3>1, <3>2 DEF Begins
  <2> QED
    BY <2>1, <2>2
<1>8. ASSUME NEW o \in m + 1 .. (m + n) - 1 PROVE ~Begins(C, o)
  <2>1. o \in m + 1 .. m + n /\ o + 1 \in m + 1 .. m + n /\ o # 0
    BY <1>1
  <2> QED
    BY <1>5, <2>1 DEF Begins
<1> QED
  BY <1>2, <1>6, <1>7, <1>8 DEF C, m, n

(* The ends of the parts of a tiled output: each part is not empty and lies
   within it, unless there is no output. *)
LEMMA SpansOrdered ==
    ASSUME NEW B \in Seq(Byte), NEW t \in Tracker, Tiled(B, t)
    PROVE  /\ \A i \in 1 .. Len(t.bounds) :
                 /\ t.bounds[i] \in Nat /\ SpanEnd(t, i) \in Nat
                 /\ SpanEnd(t, i) <= t.offset
                 /\ t.offset > 0 => t.bounds[i] < SpanEnd(t, i)
           /\ t.offset = 0 => Len(t.bounds) = 1
<1> DEFINE m == Len(t.bounds)
<1>1. t.offset \in Nat /\ t.partSize \in Nat /\ t.bounds \in Seq(Nat) /\ m \in Nat
  BY DEF Tracker
<1>2. \A i \in 1 .. m : t.bounds[i] \in Nat
  BY <1>1
<1>3. /\ m >= 1 /\ t.bounds[m] + t.partSize = t.offset
      /\ t.partSize = 0 => t.offset = 0
      /\ \A i \in 2 .. m : t.bounds[i - 1] < t.bounds[i] /\ t.bounds[i] < t.offset
  BY DEF Tiled
<1> HIDE DEF m
<1>4. ASSUME NEW i \in 1 .. m
      PROVE  /\ t.bounds[i] \in Nat /\ SpanEnd(t, i) \in Nat
             /\ SpanEnd(t, i) <= t.offset
             /\ t.offset > 0 => t.bounds[i] < SpanEnd(t, i)
  <2>1. CASE i < m
    <3>1. i + 1 \in 2 .. m /\ i + 1 \in 1 .. m /\ (i + 1) - 1 = i
      BY <1>1, <2>1
    <3>2. SpanEnd(t, i) = t.bounds[i + 1]
      BY <2>1 DEF SpanEnd, m
    <3>3. t.bounds[i] < t.bounds[i + 1] /\ t.bounds[i + 1] < t.offset
      BY <1>3, <3>1
    <3> QED
      BY <1>1, <1>2, <3>1, <3>2, <3>3
  <2>2. CASE i = m
    <3>1. SpanEnd(t, i) = t.offset
      BY <2>2 DEF SpanEnd, m
    <3>2. t.bounds[i] \in Nat /\ t.bounds[i] + t.partSize = t.offset
      BY <1>2, <1>3, <2>2
    <3> QED
      BY <1>1, <1>3, <3>1, <3>2
  <2> QED
    BY <1>1, <2>1, <2>2
<1>5. t.offset = 0 => m = 1
  <2> SUFFICES ASSUME t.offset = 0, m # 1 PROVE FALSE
    OBVIOUS
  <2>1. m \in 2 .. m /\ m \in 1 .. m
    BY <1>1, <1>3
  <2> QED
    BY <1>2, <1>3, <2>1
<1> QED
  BY <1>4, <1>5 DEF m

(* Bytes added to the output change no part that ended before them. *)
LEMMA PartsStay ==
    ASSUME NEW B \in Seq(Byte), NEW C \in Seq(Byte),
           \A o \in 0 .. Len(B) - 1 : Begins(C, o) <=> Begins(B, o),
           NEW s \in Nat, NEW e \in Nat, e <= Len(B)
    PROVE  /\ Small(B, s, e) => Small(C, s, e)
           /\ \A p, d \in Nat : FullBefore(B, p, s, e) /\ e <= d
                  => FullBefore(C, p, s, d)
<1>1. Len(B) \in Nat
  OBVIOUS
<1>2. \A o \in s + 1 .. e - 1 : o \in 0 .. Len(B) - 1
  BY <1>1
<1>3. Small(B, s, e) => Small(C, s, e)
  BY <1>2 DEF Small
<1>4. ASSUME NEW p \in Nat, NEW d \in Nat, FullBefore(B, p, s, e), e <= d
      PROVE  FullBefore(C, p, s, d)
  <2>1. PICK next \in s + 1 .. e : /\ next - p > Limit
                                   /\ \A o \in s + 1 .. next - 1 : ~Begins(B, o)
    BY <1>4 DEF FullBefore
  <2>2. \A o \in s + 1 .. next - 1 : o \in 0 .. Len(B) - 1
    BY <1>1, <2>1
  <2>3. next \in s + 1 .. d
    BY <1>4, <2>1
  <2> QED
    BY <2>1, <2>2, <2>3 DEF FullBefore
<1> QED
  BY <1>3, <1>4

(* The tracker keeps the output tiled: a line is added to the last part, or
   begins the next one where it would not have fitted. *)
LEMMA LineKeepsTiles ==
    ASSUME Types, NEW B \in Seq(Byte), Tiled(B, tracker),
           NEW line \in Seq(Byte), line # <<>>,
           \A i, j \in 1 .. Len(line) : line[i] = line[j],
           Len(B) > 0 => B[Len(B)] # line[1]
    PROVE  Tiled(B \o line, Tracked(Len(line)))
<1> DEFINE C == B \o line
           n == Len(line)
           m == Len(B)
           t == tracker
           u == Tracked(n)
           k == Len(t.bounds)
<1>1. /\ n \in Nat /\ n > 0 /\ m \in Nat /\ t \in Tracker /\ k \in Nat
      /\ t.offset \in Nat /\ t.partSize \in Nat /\ t.bounds \in Seq(Nat)
  BY EmptySeq DEF Types, Tracker
<1>2. /\ C \in Seq(Byte) /\ Len(C) = m + n
      /\ \A o \in 0 .. m - 1 : Begins(C, o) <=> Begins(B, o)
      /\ Begins(C, m)
      /\ \A o \in m + 1 .. (m + n) - 1 : ~Begins(C, o)
  BY LineBegins
<1>3. /\ t.offset = m
      /\ k >= 1 /\ t.bounds[1] = 0
      /\ t.bounds[k] + t.partSize = m
      /\ t.partSize = 0 => m = 0
      /\ \A i \in 2 .. k :
            /\ t.bounds[i - 1] < t.bounds[i] /\ t.bounds[i] < m
            /\ Begins(B, t.bounds[i])
            /\ FullBefore(B, t.bounds[i - 1], t.bounds[i], SpanEnd(t, i))
      /\ \A i \in 1 .. k : Small(B, t.bounds[i], SpanEnd(t, i))
  BY DEF Tiled
<1>4. \A i \in 1 .. k :
          t.bounds[i] \in Nat /\ SpanEnd(t, i) \in Nat /\ SpanEnd(t, i) <= m
  BY <1>1, <1>3, SpansOrdered
<1>5. /\ u.offset = m + n
      /\ u.partSize = IF StartsPart(n) THEN n ELSE t.partSize + n
      /\ u.bounds = IF StartsPart(n) THEN Append(t.bounds, m) ELSE t.bounds
  BY <1>3 DEF Tracked
<1>6. \A i \in 1 .. k : i < k => SpanEnd(t, i) = t.bounds[i + 1]
  BY DEF SpanEnd
<1>7. SpanEnd(t, k) = m
  BY <1>3 DEF SpanEnd
<1>8. StartsPart(n) <=> Limit > 0 /\ t.partSize > 0 /\ t.partSize + n > Limit
  BY DEF StartsPart
<1> HIDE DEF C, n, m, u, k, t
<1>9. \A i \in 1 .. k : Small(C, t.bounds[i], SpanEnd(t, i))
  BY <1>2, <1>3, <1>4, PartsStay DEF m
<1>10. ASSUME NEW i \in 2 .. k, NEW d \in Nat, SpanEnd(t, i) <= d
       PROVE  /\ t.bounds[i - 1] < t.bounds[i] /\ t.bounds[i] < m
              /\ Begins(C, t.bounds[i])
              /\ FullBefore(C, t.bounds[i - 1], t.bounds[i], d)
  <2>1. i \in 1 .. k /\ i - 1 \in 1 .. k
    BY <1>1
  <2>2. /\ t.bounds[i - 1] < t.bounds[i] /\ t.bounds[i] < m
        /\ Begins(B, t.bounds[i])
        /\ FullBefore(B, t.bounds[i - 1], t.bounds[i], SpanEnd(t, i))
    BY <1>3
  <2>3. t.bounds[i] \in 0 .. m - 1 /\ t.bounds[i - 1] \in Nat
    BY <1>1, <1>4, <2>1, <2>2
  <2>4. FullBefore(C, t.bounds[i - 1], t.bounds[i], d)
    <3> DEFINE p == t.bounds[i - 1]
               s == t.bounds[i]
               e == SpanEnd(t, i)
    <3>1. p \in Nat /\ s \in Nat /\ e \in Nat /\ e <= Len(B) /\ e <= d
      BY <1>4, <1>10, <2>1 DEF m
    <3>2. FullBefore(B, p, s, e)
      BY <2>2
    <3>3. C \in Seq(Byte) /\ \A o \in 0 .. Len(B) - 1 : Begins(C, o) <=> Begins(B, o)
      BY <1>2 DEF m
    <3> HIDE DEF p, s, e
    <3>4. FullBefore(C, p, s, d)
      BY <3>1, <3>2, <3>3, PartsStay
    <3> QED
      BY <3>4 DEF p, s
  <2> QED
    BY <1>2, <2>2, <2>3, <2>4
<1>11. CASE ~StartsPart(n)
  <2>1. u.bounds = t.bounds /\ Len(u.bounds) = k /\ u.partSize = t.partSize + n
    BY <1>5, <1>11 DEF k
  <2>2. \A i \in 1 .. k : i < k => SpanEnd(u, i) = SpanEnd(t, i)
    BY <1>6, <2>1 DEF SpanEnd
  <2>3. SpanEnd(u, k) = m + n
    BY <1>5, <2>1 DEF SpanEnd
  <2>4. \A i \in 1 .. k : SpanEnd(u, i) \in Nat /\ SpanEnd(t, i) <= SpanEnd(u, i)
    BY <1>1, <1>4, <1>7, <2>2, <2>3
  <2>5. ASSUME NEW i \in 2 .. k
        PROVE  /\ u.bounds[i - 1] < u.bounds[i] /\ u.bounds[i] < u.offset
               /\ Begins(C, u.bounds[i])
               /\ FullBefore(C, u.bounds[i - 1], u.bounds[i], SpanEnd(u, i))
    <3>1. i \in 1 .. k
      BY <1>1
    <3>2. /\ t.bounds[i - 1] < t.bounds[i] /\ t.bounds[i] < m
          /\ Begins(C, t.bounds[i])
          /\ FullBefore(C, t.bounds[i - 1], t.bounds[i], SpanEnd(u, i))
      BY <1>10, <2>4, <3>1
    <3>3. t.bounds[i] < m + n
      BY <1>1, <1>4, <3>1, <3>2
    <3> QED
      BY <1>5, <2>1, <3>2, <3>3
  <2>6. Small(C, t.bounds[k], m + n)
    <3>1. k \in 1 .. k /\ t.bounds[k] \in Nat
      BY <1>1, <1>3, <1>4
    <3>2. CASE Limit = 0
      BY <3>2 DEF Small
    <3>3. CASE t.partSize = 0
      <4>1. t.bounds[k] = m
        BY <1>1, <1>3, <3>1, <3>3
      <4> QED
        BY <1>2, <4>1 DEF Small
    <3>4. CASE t.partSize + n <= Limit
      <4>1. (m + n) - t.bounds[k] <= Limit
        BY <1>1, <1>3, <3>1, <3>4
      <4> QED
        BY <4>1 DEF Small
    <3> QED
      BY <1>1, <1>8, <1>11, <3>2, <3>3, <3>4
  <2>7. ASSUME NEW i \in 1 .. k PROVE Small(C, u.bounds[i], SpanEnd(u, i))
    <3>1. CASE i = k
      BY <2>1, <2>3, <2>6, <3>1
    <3>2. CASE i # k
      <4>1. i < k
        BY <1>1, <3>2
      <4> QED
        BY <1>9, <2>1, <2>2, <4>1
    <3> QED
      BY <3>1, <3>2
  <2>8. /\ u.offset = Len(C)
        /\ Len(u.bounds) >= 1 /\ u.bounds[1] = 0
        /\ u.bounds[Len(u.bounds)] + u.partSize = u.offset
        /\ u.partSize = 0 => u.offset = 0
    <3>1. t.bounds[k] \in Nat /\ t.bounds[k] + t.partSize = m
      BY <1>1, <1>3, <1>4
    <3>2. u.bounds[1] = 0 /\ k >= 1
      BY <1>3, <2>1
    <3>3. t.bounds[k] + (t.partSize + n) = m + n /\ t.partSize + n # 0
      <4>1. t.partSize \in Nat /\ n \in Nat /\ n > 0 /\ m \in Nat
        BY <1>1
      <4> DEFINE a == t.bounds[k]
                 b == t.partSize
      <4>2. a \in Nat /\ b \in Nat /\ a + b = m
        BY <3>1, <4>1
      <4> HIDE DEF a, b
      <4>3. a + (b + n) = m + n /\ b + n # 0
        BY <4>1, <4>2
      <4> QED
        BY <4>3 DEF a, b
    <3> QED
      BY <1>2, <1>5, <2>1, <3>2, <3>3
  <2>9. Tiled(C, u)
    BY <2>1, <2>5, <2>7, <2>8 DEF Tiled
  <2> QED
    BY <2>9 DEF C, u, n
<1>12. CASE StartsPart(n)
  <2>1. /\ u.bounds = Append(t.bounds, m) /\ u.partSize = n
        /\ Len(u.bounds) = k + 1
        /\ u.bounds[k + 1] = m
        /\ \A i \in 1 .. k : u.bounds[i] = t.bounds[i]
    BY <1>1, <1>5, <1>12 DEF k
  <2>2. \A i \in 1 .. k : SpanEnd(u, i) = SpanEnd(t, i)
    <3> SUFFICES ASSUME NEW i \in 1 .. k PROVE SpanEnd(u, i) = SpanEnd(t, i)
      OBVIOUS
    <3>1. SpanEnd(u, i) = u.bounds[i + 1]
      BY <1>1, <2>1 DEF SpanEnd
    <3>2. CASE i = k
      BY <1>7, <2>1, <3>1, <3>2
    <3>3. CASE i # k
      <4>1. i < k /\ i + 1 \in 1 .. k
        BY <1>1, <3>3
      <4> QED
        BY <1>6, <2>1, <3>1, <4>1
    <3> QED
      BY <3>2, <3>3
  <2>3. SpanEnd(u, k + 1) = m + n
    BY <1>1, <1>5, <2>1 DEF SpanEnd
  <2>4. t.bounds[k] \in Nat /\ t.bounds[k] < m /\ (m + n) - t.bounds[k] > Limit
    <3>1. k \in 1 .. k
      BY <1>1, <1>3
    <3>2. t.bounds[k] \in Nat /\ t.bounds[k] + t.partSize = m
      BY <1>3, <1>4, <3>1
    <3> QED
      BY <1>1, <1>8, <1>12, <3>2
  <2>5. ASSUME NEW i \in 2 .. k + 1
        PROVE  /\ u.bounds[i - 1] < u.bounds[i] /\ u.bounds[i] < u.offset
               /\ Begins(C, u.bounds[i])
               /\ FullBefore(C, u.bounds[i - 1], u.bounds[i], SpanEnd(u, i))
    <3>1. CASE i = k + 1
      <4>1. i - 1 = k /\ k \in 1 .. k
        BY <1>1, <1>3, <3>1
      <4>2. FullBefore(C, t.bounds[k], m, m + n)
        <5>1. m + n \in m + 1 .. m + n
          BY <1>1
        <5>2. \A o \in m + 1 .. (m + n) - 1 : ~Begins(C, o)
          BY <1>2
        <5> QED
          BY <2>4, <5>1, <5>2 DEF FullBefore
      <4>3. u.bounds[i - 1] = t.bounds[k] /\ u.bounds[i] = m /\ SpanEnd(u, i) = m + n
        BY <2>1, <2>3, <3>1, <4>1
      <4>4. t.bounds[k] < m /\ m < m + n
        BY <1>1, <2>4
      <4>5. Begins(C, m)
        BY <1>2
      <4> QED
        BY <1>5, <4>2, <4>3, <4>4, <4>5
    <3>2. CASE i # k + 1
      <4>1. i \in 2 .. k /\ i \in 1 .. k /\ i - 1 \in 1 .. k
        BY <1>1, <3>2
      <4>2. SpanEnd(t, i) \in Nat /\ SpanEnd(t, i) <= SpanEnd(t, i)
        BY <1>4, <4>1
      <4>3. /\ t.bounds[i - 1] < t.bounds[i] /\ t.bounds[i] < m
            /\ Begins(C, t.bounds[i])
            /\ FullBefore(C, t.bounds[i - 1], t.bounds[i], SpanEnd(t, i))
        BY <1>10, <4>1, <4>2
      <4>4. t.bounds[i] < m + n
        <5>1. t.bounds[i] \in Nat /\ t.bounds[i] < m
          BY <1>4, <4>1, <4>3
        <5> QED
          BY <1>1, <5>1
      <4>5. /\ u.bounds[i - 1] = t.bounds[i - 1] /\ u.bounds[i] = t.bounds[i]
            /\ SpanEnd(u, i) = SpanEnd(t, i)
        BY <2>1, <2>2, <4>1
      <4> QED
        BY <1>5, <4>3, <4>4, <4>5
    <3> QED
      BY <3>1, <3>2
  <2>6. ASSUME NEW i \in 1 .. k + 1 PROVE Small(C, u.bounds[i], SpanEnd(u, i))
    <3>1. CASE i = k + 1
      <4>1. Small(C, m, m + n)
        BY <1>2 DEF Small
      <4> QED
        BY <1>1, <2>1, <2>3, <3>1, <4>1
    <3>2. CASE i # k + 1
      <4>1. i \in 1 .. k
        BY <1>1, <3>2
      <4> QED
        BY <1>9, <2>1, <2>2, <4>1
    <3> QED
      BY <3>1, <3>2
  <2>7. /\ u.offset = Len(C)
        /\ Len(u.bounds) >= 1 /\ u.bounds[1] = 0
        /\ u.bounds[Len(u.bounds)] + u.partSize = u.offset
        /\ u.partSize = 0 => u.offset = 0
    <3>1. 1 \in 1 .. k /\ k + 1 >= 1 /\ n # 0
      BY <1>1, <1>3
    <3>2. u.bounds[1] = 0
      BY <1>3, <2>1, <3>1
    <3> QED
      BY <1>2, <1>5, <2>1, <3>1, <3>2
  <2>8. Tiled(C, u)
    BY <2>1, <2>5, <2>6, <2>7 DEF Tiled
  <2> QED
    BY <2>8 DEF C, u, n
<1> QED
  BY <1>11, <1>12

(* A new sink is tiled by one empty part. *)
LEMMA PartsInit == Init => PartsInv
<1> SUFFICES ASSUME Init PROVE PartsInv
  OBVIOUS
<1>1. kept.bytes \o answer.bytes = <<>>
  <2>1. kept.bytes = <<>> /\ answer.bytes = <<>>
    BY DEF Init, Nothing
  <2>2. <<>> \in Seq(Byte)
    BY EmptySeq
  <2> QED
    BY <2>1, <2>2, JoinNothing
<1>2. /\ Len(<<>>) = 0 /\ tracker = NewTracker
      /\ tracker.offset = 0 /\ tracker.partSize = 0
      /\ tracker.bounds = <<0>> /\ Len(<<0>>) = 1 /\ <<0>>[1] = 0
  BY DEF Init, NewTracker
<1>3. Small(<<>>, 0, SpanEnd(tracker, 1))
  BY <1>2 DEF Small, SpanEnd
<1>4. Tiled(<<>>, tracker)
  BY <1>2, <1>3 DEF Tiled
<1>5. BoundsGrow
  BY DEF Init, BoundsGrow
<1>6. Tagged
  BY DEF Init, Tagged, Nothing
<1> QED
  BY <1>1, <1>4, <1>5, <1>6 DEF PartsInv

(* A mark records the tiling of the windows done. *)
LEMMA PartsMark == IInv /\ PartsInv /\ Mark => PartsInv'
<1> SUFFICES ASSUME IInv, PartsInv, Mark PROVE PartsInv'
  OBVIOUS
<1>1. Types /\ Marked /\ Tiled(kept.bytes \o answer.bytes, tracker) /\ Tagged
  BY DEF IInv, PartsInv
<1>2. /\ UNCHANGED <<win, tracker, kept, answer, received>>
      /\ mark'.tracker = tracker
  BY DEF Mark
<1>3. kept.bytes \o answer.bytes = kept.bytes
  <2>1. kept.bytes \in Seq(Byte)
    BY <1>1 DEF Types, Sent
  <2>2. answer.bytes = <<>>
    BY <1>1 DEF Marked, Mark, Nothing
  <2> QED
    BY <2>1, <2>2, JoinNothing
<1>4. Tiled(kept'.bytes \o answer'.bytes, tracker')
  BY <1>1, <1>2
<1>5. BoundsGrow'
  <2>1. Tiled(kept'.bytes, mark'.tracker)
    BY <1>1, <1>2, <1>3
  <2>2. Len(tracker.bounds) \in Nat
    BY <1>1 DEF Types, Tracker
  <2> QED
    BY <1>2, <2>1, <2>2 DEF BoundsGrow
<1>6. Tagged'
  BY <1>1, <1>2 DEF Tagged
<1> QED
  BY <1>4, <1>5, <1>6 DEF PartsInv

(* A complete answer moves into what the windows done have sent. *)
LEMMA PartsWindow == IInv /\ PartsInv /\ WindowDone => PartsInv'
<1> SUFFICES ASSUME IInv, PartsInv, WindowDone PROVE PartsInv'
  OBVIOUS
<1>1. Types /\ Tiled(kept.bytes \o answer.bytes, tracker) /\ Tagged
  BY DEF IInv, PartsInv
<1> DEFINE a == kept.bytes
           b == answer.bytes
<1>2. a \in Seq(Byte) /\ b \in Seq(Byte) /\ win \in Nat
  BY <1>1 DEF Types, TypeOK, Sent
<1>3. kept'.bytes = a \o b /\ answer'.bytes = <<>>
  BY DEF WindowDone, Then, Nothing
<1>4. UNCHANGED tracker /\ win' = win + 1 /\ pc' \in {"mark", "close"}
  BY DEF WindowDone, sink
<1>5. /\ \A i \in 1 .. Len(a) : a[i][1] <= win
      /\ \A i \in 1 .. Len(b) : b[i][1] = win + 1
  BY <1>1 DEF Tagged
<1>6. \A i \in 1 .. Len(a) : a[i][1] \in Nat
  <2> SUFFICES ASSUME NEW i \in 1 .. Len(a) PROVE a[i][1] \in Nat
    OBVIOUS
  <2>1. a[i] \in Byte
    BY <1>2
  <2> QED
    BY <2>1 DEF Byte
<1> HIDE DEF a, b
<1>7. Tiled(kept'.bytes \o answer'.bytes, tracker')
  <2>1. a \o b \in Seq(Byte)
    BY <1>2, ConcatProperties
  <2>2. (a \o b) \o <<>> = a \o b
    BY <2>1, JoinNothing
  <2>3. Tiled(a \o b, tracker)
    BY <1>1 DEF a, b
  <2> QED
    BY <1>3, <1>4, <2>2, <2>3
<1>8. BoundsGrow'
  BY <1>4 DEF BoundsGrow
<1>9. Tagged'
  <2>1. ASSUME NEW i \in 1 .. Len(a \o b) PROVE (a \o b)[i][1] <= win + 1
    <3>1. /\ Len(a) \in Nat /\ Len(b) \in Nat /\ i \in 1 .. Len(a) + Len(b)
          /\ (a \o b)[i] = IF i <= Len(a) THEN a[i] ELSE b[i - Len(a)]
      BY <1>2, ConcatProperties
    <3>2. CASE i <= Len(a)
      <4>1. i \in 1 .. Len(a) /\ (a \o b)[i] = a[i]
        BY <3>1, <3>2
      <4>2. a[i][1] \in Nat /\ a[i][1] <= win
        BY <1>5, <1>6, <4>1
      <4> QED
        BY <1>2, <4>1, <4>2
    <3>3. CASE ~(i <= Len(a))
      <4>1. i - Len(a) \in 1 .. Len(b) /\ (a \o b)[i] = b[i - Len(a)]
        BY <3>1, <3>3
      <4>2. (a \o b)[i][1] = win + 1
        BY <1>5, <4>1
      <4> QED
        BY <1>2, <4>2
    <3> QED
      BY <3>2, <3>3
  <2> QED
    BY <1>3, <1>4, <2>1 DEF Tagged
<1> QED
  BY <1>7, <1>8, <1>9 DEF PartsInv

(* A retry restores the tracker that the windows done had left: the bounds of
   the mark are the first ones, so that their number is enough. *)
LEMMA PartsRetry == IInv /\ PartsInv /\ Retry => PartsInv'
<1> SUFFICES ASSUME IInv, PartsInv, Retry PROVE PartsInv'
  OBVIOUS
<1>1. Types /\ BoundsGrow /\ Tagged /\ pc = "fetch"
  BY DEF IInv, PartsInv, Retry
<1>2. /\ tracker' = [mark.tracker EXCEPT !.bounds = BoundsAtMark]
      /\ UNCHANGED <<win, kept>> /\ pc' = "mark"
      /\ answer'.bytes = <<>>
  BY DEF Retry, Rollback, Nothing
<1>3. /\ Tiled(kept.bytes, mark.tracker)
      /\ Len(mark.tracker.bounds) <= Len(tracker.bounds)
      /\ \A i \in 1 .. Len(mark.tracker.bounds) :
            tracker.bounds[i] = mark.tracker.bounds[i]
  BY <1>1 DEF BoundsGrow
<1>4. BoundsAtMark = mark.tracker.bounds
  <2> DEFINE old == mark.tracker.bounds
             now == tracker.bounds
             n == Len(old)
  <2>1. old \in Seq(Nat) /\ now \in Seq(Nat) /\ n \in Nat /\ Len(now) \in Nat
    BY <1>1 DEF Types, Tracker
  <2>2. BoundsAtMark = IF Len(now) > n THEN SubSeq(now, 1, n) ELSE now
    BY DEF BoundsAtMark
  <2>3. n <= Len(now) /\ \A i \in 1 .. n : now[i] = old[i]
    BY <1>3
  <2> HIDE DEF old, now
  <2>4. CASE Len(now) > n
    <3>1. n \in 0 .. Len(now) /\ \A i \in 1 .. Len(now) : now[i] \in Nat
      BY <2>1, <2>3
    <3>2. /\ SubSeq(now, 1, n) \in Seq(Nat) /\ Len(SubSeq(now, 1, n)) = n
          /\ \A i \in 1 .. n : SubSeq(now, 1, n)[i] = now[i]
      BY <2>1, <3>1, SubSeqProperties
    <3>3. SubSeq(now, 1, n) = old
      BY <2>1, <2>3, <3>2, SeqEqual
    <3> QED
      BY <2>2, <2>4, <3>3 DEF old
  <2>5. CASE ~(Len(now) > n)
    <3>1. Len(now) = n
      BY <2>1, <2>3, <2>5
    <3>2. now = old
      BY <2>1, <2>3, <3>1, SeqEqual
    <3> QED
      BY <2>2, <2>5, <3>2 DEF old
  <2> QED
    BY <2>4, <2>5
<1>5. tracker' = mark.tracker
  BY <1>1, <1>2, <1>4 DEF Types, Tracker
<1>6. Tiled(kept'.bytes \o answer'.bytes, tracker')
  <2>1. kept.bytes \in Seq(Byte)
    BY <1>1 DEF Types, Sent
  <2>2. kept.bytes \o <<>> = kept.bytes
    BY <2>1, JoinNothing
  <2> QED
    BY <1>2, <1>3, <1>5, <2>2
<1>7. BoundsGrow'
  BY <1>2 DEF BoundsGrow
<1>8. Tagged'
  <2>1. \A i \in 1 .. Len(kept.bytes) : kept.bytes[i][1] <= win
    BY <1>1 DEF Tagged
  <2>2. 1 .. Len(<<>>) = {}
    OBVIOUS
  <2> QED
    BY <1>2, <2>1, <2>2 DEF Tagged
<1> QED
  BY <1>6, <1>7, <1>8 DEF PartsInv

(* A line is told apart from the one before it, so that it begins where the
   output ended; a line that is dropped changes nothing. *)
LEMMA PartsLine ==
    ASSUME NEW n \in LineSizes PROVE IInv /\ PartsInv /\ WriteLine(n) => PartsInv'
<1> SUFFICES ASSUME IInv, PartsInv, WriteLine(n) PROVE PartsInv'
  OBVIOUS
<1>1. /\ Types /\ Written /\ n \in Nat
      /\ Tiled(kept.bytes \o answer.bytes, tracker) /\ BoundsGrow /\ Tagged
  BY DEF IInv, PartsInv
<1>2. /\ pc = "fetch" /\ received' = received + 1 /\ received \in Nat /\ win \in Nat
      /\ UNCHANGED <<pc, win, mark, kept>>
  BY <1>1 DEF WriteLine, Types, TypeOK
<1>3. CASE n = 0
  <2>1. UNCHANGED <<tracker, answer>>
    BY <1>3 DEF WriteLine, sink
  <2>2. Tiled(kept'.bytes \o answer'.bytes, tracker') /\ BoundsGrow'
    BY <1>1, <1>2, <2>1 DEF BoundsGrow
  <2>3. Tagged'
    <3>1. \A i \in 1 .. Len(answer.bytes) :
             answer.bytes[i][3] \in Nat /\ answer.bytes[i][3] <= received + 1
      <4> SUFFICES ASSUME NEW i \in 1 .. Len(answer.bytes)
                   PROVE  answer.bytes[i][3] \in Nat /\ answer.bytes[i][3] <= received + 1
        OBVIOUS
      <4>1. answer.bytes[i] \in Byte
        BY <1>1 DEF Types, Sent
      <4>2. answer.bytes[i][3] \in Nat /\ answer.bytes[i][3] <= received
        BY <1>1, <4>1 DEF Tagged, Byte
      <4> QED
        BY <1>2, <4>2
    <3> QED
      BY <1>1, <1>2, <2>1, <3>1 DEF Tagged
  <2> QED
    BY <2>2, <2>3 DEF PartsInv
<1>4. CASE n # 0
  <2> DEFINE tag == <<win + 1, attempt, received + 1>>
             line == [b \in 1 .. n |-> tag]
             old == kept.bytes
             new == answer.bytes
             B == old \o new
  <2>1. tracker' = Tracked(n) /\ answer'.bytes = new \o line
    <3>1. tracker' = Tracked(n) /\ answer' = Then(answer, [bytes |-> line, lines |-> 1])
      BY <1>4 DEF WriteLine
    <3>2. answer'.bytes = answer.bytes \o line
      BY <3>1 DEF Then
    <3> QED
      BY <3>1, <3>2
  <2>2. tag \in Byte /\ tag[1] = win + 1 /\ tag[3] = received + 1
    BY <1>1 DEF Types, TypeOK, Byte
  <2>3. /\ line \in Seq(Byte) /\ Len(line) = n /\ line # <<>>
        /\ \A i \in 1 .. n : line[i] = tag
    BY <1>1, <1>4, <2>2
  <2>4. old \in Seq(Byte) /\ new \in Seq(Byte) /\ B \in Seq(Byte)
    BY <1>1, ConcatProperties DEF Types, Sent
  <2>5. /\ \A i \in 1 .. Len(old) : old[i][1] <= win
        /\ \A i \in 1 .. Len(new) : new[i][1] = win + 1 /\ new[i][3] <= received
    BY <1>1 DEF Tagged
  <2>6. /\ \A i \in 1 .. Len(old) : old[i][1] \in Nat
        /\ \A i \in 1 .. Len(new) : new[i][3] \in Nat
    <3>1. /\ \A i \in 1 .. Len(old) : old[i] \in Byte
          /\ \A i \in 1 .. Len(new) : new[i] \in Byte
      BY <2>4
    <3> QED
      BY <3>1 DEF Byte
  <2> HIDE DEF tag, line, old, new
  <2>7. ASSUME Len(B) > 0 PROVE B[Len(B)] # tag
    <3>1. /\ Len(old) \in Nat /\ Len(new) \in Nat /\ Len(B) = Len(old) + Len(new)
          /\ \A i \in 1 .. Len(old) + Len(new) :
                B[i] = IF i <= Len(old) THEN old[i] ELSE new[i - Len(old)]
      BY <2>4, ConcatProperties
    <3> DEFINE k == Len(B)
    <3>2. k \in 1 .. Len(old) + Len(new) /\ k = Len(old) + Len(new)
      BY <2>7, <3>1
    <3> HIDE DEF B, k
    <3>3. CASE Len(new) = 0
      <4>1. k \in 1 .. Len(old) /\ k <= Len(old)
        BY <3>1, <3>2, <3>3
      <4>2. B[k] = old[k]
        BY <3>1, <3>2, <4>1
      <4>3. old[k][1] \in Nat /\ old[k][1] <= win
        BY <2>5, <2>6, <4>1
      <4>4. old[k][1] # win + 1
        BY <1>2, <4>3
      <4> QED
        BY <2>2, <4>2, <4>4 DEF k
    <3>4. CASE Len(new) # 0
      <4>1. ~(k <= Len(old)) /\ k - Len(old) \in 1 .. Len(new)
        BY <3>1, <3>2, <3>4
      <4>2. B[k] = new[k - Len(old)]
        BY <3>1, <3>2, <4>1
      <4>3. B[k][3] \in Nat /\ B[k][3] <= received
        BY <2>5, <2>6, <4>1, <4>2
      <4>4. B[k][3] # received + 1
        BY <1>2, <4>3
      <4> QED
        BY <2>2, <4>4 DEF k
    <3> QED
      BY <3>3, <3>4
  <2>8. Tiled(kept'.bytes \o answer'.bytes, tracker')
    <3>1. Tiled(B, tracker)
      BY <1>1 DEF old, new
    <3>2. line[1] = tag /\ \A i, j \in 1 .. Len(line) : line[i] = line[j]
      <4>1. 1 \in 1 .. n
        BY <1>1, <1>4
      <4> QED
        BY <2>3, <4>1
    <3>3. Len(B) > 0 => B[Len(B)] # line[1]
      BY <2>7, <3>2
    <3>4. B \o line = old \o (new \o line)
      BY <2>3, <2>4, JoinAssociates
    <3> HIDE DEF B
    <3>5. Tiled(B \o line, Tracked(Len(line)))
      BY <1>1, <2>3, <2>4, <3>1, <3>2, <3>3, LineKeepsTiles
    <3>6. kept'.bytes = old
      BY <1>2 DEF old
    <3> QED
      BY <2>1, <2>3, <3>4, <3>5, <3>6
  <2>9. BoundsGrow'
    <3> DEFINE now == tracker.bounds
               then == mark.tracker.bounds
    <3>1. /\ now \in Seq(Nat) /\ Len(now) \in Nat /\ tracker.offset \in Nat
          /\ Len(then) \in Nat
      BY <1>1 DEF Types, Tracker
    <3>2. tracker'.bounds = IF StartsPart(n) THEN Append(now, tracker.offset) ELSE now
      BY <2>1 DEF Tracked
    <3>3. /\ Tiled(old, mark.tracker) /\ Len(then) <= Len(now)
          /\ \A i \in 1 .. Len(then) : now[i] = then[i]
      BY <1>1, <1>2 DEF BoundsGrow, old
    <3> HIDE DEF now
    <3>4. /\ Len(now) <= Len(tracker'.bounds)
          /\ Len(tracker'.bounds) \in Nat
          /\ \A i \in 1 .. Len(now) : tracker'.bounds[i] = now[i]
      <4>1. CASE StartsPart(n)
        BY <3>1, <3>2, <4>1
      <4>2. CASE ~StartsPart(n)
        BY <3>1, <3>2, <4>2
      <4> QED
        BY <4>1, <4>2
    <3>5. Len(then) <= Len(tracker'.bounds)
      BY <3>1, <3>3, <3>4
    <3>6. \A i \in 1 .. Len(then) : tracker'.bounds[i] = then[i]
      <4>1. \A i \in 1 .. Len(then) : i \in 1 .. Len(now)
        BY <3>1, <3>3
      <4> QED
        BY <3>3, <3>4, <4>1
    <3>7. mark' = mark /\ kept' = kept
      BY <1>2
    <3> QED
      BY <3>3, <3>5, <3>6, <3>7 DEF BoundsGrow, old
  <2>10. Tagged'
    <3>1. ASSUME NEW i \in 1 .. Len(new \o line)
          PROVE  /\ (new \o line)[i][1] = win + 1
                 /\ (new \o line)[i][3] <= received + 1
      <4>1. /\ Len(new) \in Nat /\ i \in 1 .. Len(new) + n
            /\ (new \o line)[i] = IF i <= Len(new) THEN new[i] ELSE line[i - Len(new)]
        BY <2>3, <2>4, ConcatProperties
      <4>2. CASE i <= Len(new)
        <5>1. i \in 1 .. Len(new) /\ (new \o line)[i] = new[i]
          BY <4>1, <4>2
        <5>2. new[i][1] = win + 1 /\ new[i][3] \in Nat /\ new[i][3] <= received
          BY <2>5, <2>6, <5>1
        <5> QED
          BY <1>2, <5>1, <5>2
      <4>3. CASE ~(i <= Len(new))
        <5>1. i - Len(new) \in 1 .. n /\ (new \o line)[i] = line[i - Len(new)]
          BY <1>1, <4>1, <4>3
        <5>2. (new \o line)[i] = tag
          BY <2>3, <5>1
        <5> QED
          BY <1>2, <2>2, <5>2
      <4> QED
        BY <4>2, <4>3
    <3>2. kept'.bytes = old /\ win' = win /\ received' = received + 1
      BY <1>2 DEF old
    <3> QED
      BY <2>1, <2>5, <3>1, <3>2 DEF Tagged
  <2> QED
    BY <2>8, <2>9, <2>10 DEF PartsInv
<1> QED
  BY <1>3, <1>4

(* PartsInv holds in every reachable state. *)
LEMMA PartsInvariance == Spec => []PartsInv
<1>1. Init => PartsInv
  BY PartsInit
<1>2. IInv /\ PartsInv /\ [Next]_vars => PartsInv'
  <2> SUFFICES ASSUME IInv, PartsInv, [Next]_vars PROVE PartsInv'
    OBVIOUS
  <2>1. CASE Mark
    BY <2>1, PartsMark
  <2>2. CASE WindowDone
    BY <2>2, PartsWindow
  <2>3. CASE Retry
    BY <2>3, PartsRetry
  <2>4. ASSUME NEW n \in LineSizes, WriteLine(n) PROVE PartsInv'
    BY <2>4, PartsLine
  <2>5. CASE \/ Close \/ Fail \/ Cancelled \/ PackWhole \/ OpenVolume
             \/ PackPart \/ CloseVolume \/ UNCHANGED vars
    <3>1. /\ UNCHANGED <<win, tracker, mark, kept, answer, received>>
          /\ pc' = pc \/ pc' # "fetch"
      <4>1. CASE Close
        BY <4>1 DEF Close
      <4>2. CASE Fail
        BY <4>2 DEF Fail, sink
      <4>3. CASE Cancelled
        BY <4>3 DEF Cancelled, sink
      <4>4. CASE PackWhole
        BY <4>4 DEF PackWhole, sink
      <4>5. CASE OpenVolume
        BY <4>5 DEF OpenVolume, sink
      <4>6. CASE PackPart
        BY <4>6 DEF PackPart, sink
      <4>7. CASE CloseVolume
        BY <4>7 DEF CloseVolume, sink
      <4>8. CASE UNCHANGED vars
        BY <4>8 DEF vars, sink
      <4> QED
        BY <2>5, <4>1, <4>2, <4>3, <4>4, <4>5, <4>6, <4>7, <4>8
    <3>2. Tiled(kept.bytes \o answer.bytes, tracker) /\ BoundsGrow /\ Tagged
      BY DEF PartsInv
    <3>3. Tiled(kept'.bytes \o answer'.bytes, tracker')
      BY <3>1, <3>2
    <3>4. BoundsGrow' /\ Tagged'
      BY <3>1, <3>2 DEF BoundsGrow, Tagged
    <3> QED
      BY <3>3, <3>4 DEF PartsInv
  <2> QED
    BY <2>1, <2>2, <2>3, <2>4, <2>5 DEF Next
<1> QED
  BY <1>1, <1>2, Invariance, PTL DEF Spec

(* The parts of a tiled output are those between its bounds; an output without
   a byte has one part without a byte. *)
LEMMA PartsOfTiles ==
    ASSUME Types, NEW B \in Seq(Byte), Tiled(B, tracker)
    PROVE  /\ Parts = Spans /\ Len(Parts) = Len(tracker.bounds) /\ Len(Parts) >= 1
           /\ \A i \in 1 .. Len(Parts) :
                 Parts[i][1] = tracker.bounds[i] /\ Parts[i][2] = SpanEnd(tracker, i)
<1> DEFINE k == Len(tracker.bounds)
<1>1. tracker \in Tracker /\ k \in Nat /\ k >= 1 /\ tracker.offset \in Nat
  BY DEF Types, Tracker, Tiled
<1>2. /\ \A i \in 1 .. k :
            /\ tracker.bounds[i] \in Nat /\ SpanEnd(tracker, i) \in Nat
            /\ SpanEnd(tracker, i) <= tracker.offset
            /\ tracker.offset > 0 => tracker.bounds[i] < SpanEnd(tracker, i)
      /\ tracker.offset = 0 => k = 1
  BY <1>1, SpansOrdered
<1>3. Spans = [i \in 1 .. k |-> <<tracker.bounds[i], SpanEnd(tracker, i)>>]
  BY DEF Spans, SpanEnd
<1>4. /\ DOMAIN Spans = 1 .. k
      /\ \A i \in 1 .. k : /\ Spans[i] = <<tracker.bounds[i], SpanEnd(tracker, i)>>
                           /\ Spans[i][1] = tracker.bounds[i]
                           /\ Spans[i][2] = SpanEnd(tracker, i)
  BY <1>3
<1>5. Len(Spans) = k
  BY <1>1, <1>3
<1> HIDE DEF k
<1>6. Parts = Spans
  <2>1. CASE tracker.offset > 0
    <3>1. \A i \in DOMAIN Spans : IsFull(Spans[i])
      BY <1>2, <1>4, <2>1 DEF IsFull
    <3> QED
      BY <3>1 DEF Parts
  <2>2. CASE tracker.offset = 0
    <3>1. k = 1
      BY <1>2, <2>2
    <3>2. DOMAIN Spans = {1} /\ Spans = <<Spans[1]>> /\ Last(Spans) = Spans[1]
      BY <1>3, <1>4, <1>5, <3>1 DEF Last
    <3>3. tracker.bounds[1] \in Nat /\ SpanEnd(tracker, 1) \in Nat
          /\ SpanEnd(tracker, 1) <= 0
      BY <1>2, <2>2, <3>1
    <3>4. ~IsFull(Spans[1])
      BY <1>4, <3>1, <3>3 DEF IsFull
    <3> QED
      BY <3>2, <3>4 DEF Parts
  <2> QED
    BY <1>1, <2>1, <2>2
<1> QED
  BY <1>1, <1>4, <1>5, <1>6 DEF k

(* While an export runs its parts lie end to end over the output, begin at lines,
   and are no larger than the limit unless a line is. *)
THEOREM PartsCoverOutput == Spec => []PartsTile
<1>1. IInv /\ PartsInv => PartsTile
  <2> SUFFICES ASSUME IInv, PartsInv PROVE PartsTile
    OBVIOUS
  <2> DEFINE B == file \o buf
             t == tracker
             k == Len(t.bounds)
  <2>1. Types /\ B \in Seq(Byte) /\ Tiled(B, t)
    <3>1. Types /\ B = kept.bytes \o answer.bytes /\ file \in Seq(Byte) /\ buf \in Seq(Byte)
      BY DEF IInv, Types, Written
    <3>2. B \in Seq(Byte)
      BY <3>1, ConcatProperties
    <3> QED
      BY <3>1, <3>2 DEF PartsInv
  <2>2. \A o : BeginsLine(o) <=> Begins(B, o)
    BY DEF BeginsLine, Begins
  <2>3. t \in Tracker /\ k \in Nat
    BY <2>1 DEF Types, Tracker
  <2> HIDE DEF B
  <2>4. /\ Len(Parts) = k /\ k >= 1
        /\ \A i \in 1 .. k : Parts[i][1] = t.bounds[i] /\ Parts[i][2] = SpanEnd(t, i)
    BY <2>1, PartsOfTiles
  <2>5. /\ t.bounds[1] = 0
        /\ \A i \in 2 .. k : Begins(B, t.bounds[i])
        /\ \A i \in 1 .. k : Small(B, t.bounds[i], SpanEnd(t, i))
    BY <2>1 DEF Tiled
  <2>6. SpanEnd(t, k) = t.offset
    BY DEF SpanEnd
  <2>7. \A i \in 1 .. k : i < k => SpanEnd(t, i) = t.bounds[i + 1]
    BY DEF SpanEnd
  <2> HIDE DEF t, k
  <2>8. Parts[1][1] = 0 /\ Last(Parts)[2] = t.offset
    <3>1. 1 \in 1 .. k /\ k \in 1 .. k /\ Last(Parts) = Parts[k]
      BY <2>3, <2>4 DEF Last
    <3> QED
      BY <2>4, <2>5, <2>6, <3>1
  <2>9. ASSUME NEW i \in 2 .. k
        PROVE  Parts[i][1] = Parts[i - 1][2] /\ BeginsLine(Parts[i][1])
    <3>1. i \in 1 .. k /\ i - 1 \in 1 .. k /\ i - 1 < k /\ (i - 1) + 1 = i
      BY <2>3
    <3>2. Parts[i - 1][2] = t.bounds[i] /\ Parts[i][1] = t.bounds[i]
      BY <2>4, <2>7, <3>1
    <3> QED
      BY <2>2, <2>5, <3>2
  <2>10. ASSUME NEW i \in 1 .. k
         PROVE  \/ Limit = 0
                \/ Parts[i][2] - Parts[i][1] <= Limit
                \/ \A o \in Parts[i][1] + 1 .. Parts[i][2] - 1 : ~BeginsLine(o)
    <3>1. Small(B, Parts[i][1], Parts[i][2])
      BY <2>4, <2>5
    <3> QED
      BY <2>2, <3>1 DEF Small
  <2> QED
    BY <2>4, <2>8, <2>9, <2>10 DEF PartsTile, t
<1> QED
  BY <1>1, Invariance, PartsInvariance, PTL

(* A part ends only where its next line would not have fitted, whatever was
   retried: no retry leaves a part cut short. *)
THEOREM PartsWellFilled == Spec => []PartsAreFull
<1>1. IInv /\ PartsInv => PartsAreFull
  <2> SUFFICES ASSUME IInv, PartsInv PROVE PartsAreFull
    OBVIOUS
  <2> DEFINE B == file \o buf
             t == tracker
             k == Len(t.bounds)
  <2>1. Types /\ B \in Seq(Byte) /\ Tiled(B, t)
    <3>1. Types /\ B = kept.bytes \o answer.bytes /\ file \in Seq(Byte) /\ buf \in Seq(Byte)
      BY DEF IInv, Types, Written
    <3>2. B \in Seq(Byte)
      BY <3>1, ConcatProperties
    <3> QED
      BY <3>1, <3>2 DEF PartsInv
  <2>2. \A o : BeginsLine(o) <=> Begins(B, o)
    BY DEF BeginsLine, Begins
  <2>3. t \in Tracker /\ k \in Nat
    BY <2>1 DEF Types, Tracker
  <2> HIDE DEF B
  <2>4. /\ Len(Parts) = k /\ k >= 1
        /\ \A i \in 1 .. k : Parts[i][1] = t.bounds[i] /\ Parts[i][2] = SpanEnd(t, i)
    BY <2>1, PartsOfTiles
  <2>5. \A i \in 2 .. k : FullBefore(B, t.bounds[i - 1], t.bounds[i], SpanEnd(t, i))
    BY <2>1 DEF Tiled
  <2> HIDE DEF t, k
  <2>6. ASSUME NEW i \in 2 .. k
        PROVE  \E next \in Parts[i][1] + 1 .. Parts[i][2] :
                  /\ next - Parts[i - 1][1] > Limit
                  /\ \A o \in Parts[i][1] + 1 .. next - 1 : ~BeginsLine(o)
    <3>1. i \in 1 .. k /\ i - 1 \in 1 .. k
      BY <2>3
    <3>2. FullBefore(B, Parts[i - 1][1], Parts[i][1], Parts[i][2])
      BY <2>4, <2>5, <3>1
    <3> QED
      BY <2>2, <3>2 DEF FullBefore
  <2> QED
    BY <2>4, <2>6 DEF PartsAreFull
<1> QED
  BY <1>1, Invariance, PartsInvariance, PTL
-----------------------------------------------------------------------------
(* The archive *)

Span == Nat \X Nat

(* Where the closed volumes end *)
EndOf(vols) == IF vols = <<>> THEN 0 ELSE Last(Last(vols))[2]

ArchiveTypes ==
    volumes \in Seq(Seq(Span)) /\ volume \in Seq(Span) /\ packed \in Nat

(* Packaging begins with nothing packed and everything in the file. *)
Unpacked ==
    /\ pc \in {"mark", "fetch", "close", "pack"}
         => volumes = <<>> /\ volume = <<>> /\ packed = 0
    /\ pc \in {"pack", "packing", "done"} => buf = <<>> /\ answer = Nothing

(* The parts packed so far lie end to end in the closed volumes and the open one,
   which is empty only while there are parts to come. *)
Packing ==
    pc = "packing" =>
        /\ packed <= Len(Parts)
        /\ InOrder(volumes) /\ EndToEnd(volume)
        /\ volume = <<>> => /\ packed < Len(Parts)
                            /\ Parts[packed + 1][1] = EndOf(volumes)
        /\ volume # <<>> => /\ volume[1][1] = EndOf(volumes)
                            /\ packed > 0 /\ Last(volume)[2] = Parts[packed][2]

ArchiveInv == ArchiveTypes /\ Unpacked /\ Packing /\ ArchiveComplete

(* The parts lie end to end over the file and the buffer. *)
LEMMA PartsChain ==
    ASSUME IInv, PartsInv
    PROVE  /\ Len(Parts) \in Nat /\ Len(Parts) >= 1
           /\ Parts[1][1] = 0 /\ Parts[Len(Parts)][2] = Len(file) + Len(buf)
           /\ \A i \in 1 .. Len(Parts) : Parts[i] \in Span
           /\ EndToEnd(Parts)
<1> DEFINE B == kept.bytes \o answer.bytes
           t == tracker
           k == Len(t.bounds)
<1>1. /\ Types /\ B \in Seq(Byte) /\ Tiled(B, t) /\ t \in Tracker
      /\ t.offset = Len(file) + Len(buf)
  <2>1. Types /\ Written /\ Tiled(B, t)
    BY DEF IInv, PartsInv
  <2>2. kept.bytes \in Seq(Byte) /\ answer.bytes \in Seq(Byte)
    BY <2>1 DEF Types, Sent
  <2>3. B \in Seq(Byte)
    BY <2>2, ConcatProperties
  <2> QED
    BY <2>1, <2>3 DEF Types, Written
<1> HIDE DEF B
<1>2. k \in Nat /\ t.offset \in Nat
  BY <1>1 DEF Tracker
<1>3. /\ Parts = Spans /\ Len(Parts) = k /\ k >= 1
      /\ \A i \in 1 .. k : Parts[i][1] = t.bounds[i] /\ Parts[i][2] = SpanEnd(t, i)
  BY <1>1, PartsOfTiles
<1>4. \A i \in 1 .. k :
          /\ t.bounds[i] \in Nat /\ SpanEnd(t, i) \in Nat
          /\ SpanEnd(t, i) <= t.offset
          /\ t.offset > 0 => t.bounds[i] < SpanEnd(t, i)
  BY <1>1, SpansOrdered
<1>5. t.offset = 0 => k = 1
  BY <1>1, SpansOrdered
<1>6. t.bounds[1] = 0
  BY <1>1 DEF Tiled
<1>7. \A i \in 1 .. k : Parts[i] = <<t.bounds[i], SpanEnd(t, i)>>
  BY <1>3 DEF Spans, SpanEnd
<1>8. SpanEnd(t, k) = t.offset /\ \A i \in 1 .. k : i < k => SpanEnd(t, i) = t.bounds[i + 1]
  BY DEF SpanEnd
<1> HIDE DEF t, k
<1>9. Parts[1][1] = 0 /\ Parts[k][2] = Len(file) + Len(buf)
  <2>1. 1 \in 1 .. k /\ k \in 1 .. k
    BY <1>2, <1>3
  <2> QED
    BY <1>1, <1>3, <1>6, <1>8, <2>1
<1>10. \A i \in 1 .. k : Parts[i] \in Span
  BY <1>4, <1>7 DEF Span
<1>11. ASSUME NEW i \in 1 .. k
       PROVE  /\ Parts[i][1] <= Parts[i][2]
              /\ i > 1 => Parts[i][1] = Parts[i - 1][2]
  <2>1. t.bounds[i] <= SpanEnd(t, i)
    <3>1. CASE t.offset > 0
      BY <1>4, <3>1
    <3>2. CASE t.offset = 0
      <4>1. i = 1
        BY <1>2, <1>5, <3>2
      <4> QED
        BY <1>4, <1>6, <4>1
    <3> QED
      BY <1>2, <3>1, <3>2
  <2>2. ASSUME i > 1 PROVE Parts[i][1] = Parts[i - 1][2]
    <3>1. i - 1 \in 1 .. k /\ i - 1 < k /\ (i - 1) + 1 = i
      BY <1>2, <2>2
    <3> QED
      BY <1>3, <1>8, <3>1
  <2> QED
    BY <1>3, <2>1, <2>2
<1> QED
  BY <1>2, <1>3, <1>9, <1>10, <1>11 DEF EndToEnd

(* A part joins the ones before it in its volume. *)
LEMMA PartJoins ==
    ASSUME NEW vol \in Seq(Span), NEW part \in Span, EndToEnd(vol),
           part[1] <= part[2], vol # <<>> => part[1] = Last(vol)[2]
    PROVE  /\ Append(vol, part) \in Seq(Span) /\ Append(vol, part) # <<>>
           /\ EndToEnd(Append(vol, part))
           /\ Last(Append(vol, part)) = part
           /\ Append(vol, part)[1] = IF vol = <<>> THEN part ELSE vol[1]
<1> DEFINE n == Len(vol)
           new == Append(vol, part)
<1>1. /\ n \in Nat /\ new \in Seq(Span) /\ Len(new) = n + 1
      /\ \A i \in 1 .. n : new[i] = vol[i]
      /\ new[n + 1] = part
  OBVIOUS
<1>2. vol = <<>> <=> n = 0
  OBVIOUS
<1>3. vol # <<>> => part[1] = vol[n][2]
  BY DEF Last
<1>4. \A i \in 1 .. n : vol[i][1] <= vol[i][2] /\ (i > 1 => vol[i][1] = vol[i - 1][2])
  BY DEF EndToEnd
<1> HIDE DEF n, new
<1>5. ASSUME NEW i \in 1 .. n + 1
      PROVE  /\ new[i][1] <= new[i][2]
             /\ i > 1 => new[i][1] = new[i - 1][2]
  <2>1. CASE i <= n
    <3>1. i \in 1 .. n /\ (i > 1 => i - 1 \in 1 .. n)
      BY <1>1, <2>1
    <3> QED
      BY <1>1, <1>4, <3>1
  <2>2. CASE i = n + 1
    <3>1. i > 1 => n \in 1 .. n /\ i - 1 = n /\ n # 0
      BY <1>1, <2>2
    <3> QED
      BY <1>1, <1>2, <1>3, <2>2, <3>1
  <2> QED
    BY <1>1, <2>1, <2>2
<1>6. EndToEnd(new)
  BY <1>1, <1>5 DEF EndToEnd
<1>7. Last(new) = part /\ new # <<>>
  <2>1. Len(new) = n + 1 /\ n + 1 # 0
    BY <1>1
  <2> QED
    BY <1>1, <2>1 DEF Last
<1>8. new[1] = IF vol = <<>> THEN part ELSE vol[1]
  BY <1>1, <1>2
<1> QED
  BY <1>1, <1>6, <1>7, <1>8 DEF new

(* A volume that is not empty joins the ones before it. *)
LEMMA VolumeJoins ==
    ASSUME NEW vols \in Seq(Seq(Span)), NEW vol \in Seq(Span), InOrder(vols),
           vol # <<>>, EndToEnd(vol), vol[1][1] = EndOf(vols)
    PROVE  /\ Append(vols, vol) \in Seq(Seq(Span)) /\ Append(vols, vol) # <<>>
           /\ InOrder(Append(vols, vol))
           /\ Last(Append(vols, vol)) = vol
<1> DEFINE n == Len(vols)
           new == Append(vols, vol)
<1>1. /\ n \in Nat /\ new \in Seq(Seq(Span)) /\ Len(new) = n + 1
      /\ \A v \in 1 .. n : new[v] = vols[v]
      /\ new[n + 1] = vol
  OBVIOUS
<1>2. vols = <<>> <=> n = 0
  OBVIOUS
<1>3. vol[1][1] = IF n = 0 THEN 0 ELSE Last(vols[n])[2]
  BY <1>2 DEF EndOf, Last
<1>4. \A v \in 1 .. n :
          /\ vols[v] # <<>> /\ EndToEnd(vols[v])
          /\ vols[v][1][1] = IF v = 1 THEN 0 ELSE Last(vols[v - 1])[2]
  BY DEF InOrder
<1> HIDE DEF n, new
<1>5. ASSUME NEW v \in 1 .. n + 1
      PROVE  /\ new[v] # <<>> /\ EndToEnd(new[v])
             /\ new[v][1][1] = IF v = 1 THEN 0 ELSE Last(new[v - 1])[2]
  <2>1. CASE v <= n
    <3>1. v \in 1 .. n /\ (v # 1 => v - 1 \in 1 .. n)
      BY <1>1, <2>1
    <3>2. new[v] = vols[v] /\ (v # 1 => new[v - 1] = vols[v - 1])
      BY <1>1, <3>1
    <3> QED
      BY <1>4, <3>1, <3>2
  <2>2. CASE v = n + 1
    <3>1. v - 1 = n /\ (v = 1 <=> n = 0) /\ (v # 1 => n \in 1 .. n)
      BY <1>1, <2>2
    <3>2. new[v] = vol /\ (v # 1 => new[v - 1] = vols[n])
      BY <1>1, <2>2, <3>1
    <3> QED
      BY <1>3, <3>1, <3>2
  <2> QED
    BY <1>1, <2>1, <2>2
<1>6. InOrder(new)
  BY <1>1, <1>5 DEF InOrder
<1>7. Last(new) = vol /\ new # <<>>
  <2>1. Len(new) = n + 1 /\ n + 1 # 0
    BY <1>1
  <2> QED
    BY <1>1, <2>1 DEF Last
<1> QED
  BY <1>1, <1>6, <1>7 DEF new

(* Until the sink is closed nothing is packed, and then everything is in the file. *)
LEMMA ArchiveWaits ==
    IInv /\ ArchiveInv /\ (\/ Mark \/ WindowDone \/ Retry \/ Close
                           \/ \E n \in LineSizes : WriteLine(n)) => ArchiveInv'
<1> SUFFICES ASSUME IInv, ArchiveInv,
                    \/ Mark \/ WindowDone \/ Retry \/ Close
                    \/ \E n \in LineSizes : WriteLine(n)
             PROVE  ArchiveInv'
  OBVIOUS
<1>1. ArchiveTypes /\ Unpacked /\ Marked
  BY DEF IInv, ArchiveInv
<1>2. /\ pc \in {"mark", "fetch", "close"} /\ pc' \in {"mark", "fetch", "close", "pack"}
      /\ UNCHANGED archive
  <2>1. CASE Mark
    BY <2>1 DEF Mark
  <2>2. CASE WindowDone
    BY <2>2 DEF WindowDone
  <2>3. CASE Retry
    BY <2>3 DEF Retry
  <2>4. CASE Close
    BY <2>4 DEF Close
  <2>5. ASSUME NEW n \in LineSizes, WriteLine(n)
        PROVE  /\ pc \in {"mark", "fetch", "close"}
               /\ pc' \in {"mark", "fetch", "close", "pack"}
               /\ UNCHANGED archive
    BY <2>5 DEF WriteLine
  <2> QED
    BY <2>1, <2>2, <2>3, <2>4, <2>5
<1>3. pc' = "pack" => buf' = <<>> /\ answer' = Nothing
  <2>1. CASE Close
    BY <1>1, <2>1 DEF Close, Flush, Marked
  <2>2. CASE Mark
    BY <2>2 DEF Mark
  <2>3. CASE WindowDone
    BY <2>3 DEF WindowDone
  <2>4. CASE Retry
    BY <2>4 DEF Retry
  <2>5. ASSUME NEW n \in LineSizes, WriteLine(n) PROVE pc' # "pack"
    BY <1>2, <2>5 DEF WriteLine
  <2> QED
    BY <2>1, <2>2, <2>3, <2>4, <2>5
<1>4. volumes' = volumes /\ volume' = volume /\ packed' = packed
  BY <1>2 DEF archive
<1>5. ArchiveTypes' /\ Unpacked'
  BY <1>1, <1>2, <1>3, <1>4 DEF ArchiveTypes, Unpacked
<1>6. Packing' /\ ArchiveComplete'
  BY <1>2 DEF Packing, ArchiveComplete
<1> QED
  BY <1>5, <1>6 DEF ArchiveInv

(* Opening the first volume, writing the whole file, and ends without archive. *)
LEMMA ArchiveBegins ==
    IInv /\ PartsInv /\ ArchiveInv
      /\ (Fail \/ Cancelled \/ PackWhole \/ OpenVolume \/ UNCHANGED vars) => ArchiveInv'
<1> SUFFICES ASSUME IInv, PartsInv, ArchiveInv,
                    Fail \/ Cancelled \/ PackWhole \/ OpenVolume \/ UNCHANGED vars
             PROVE  ArchiveInv'
  OBVIOUS
<1>1. ArchiveTypes /\ Unpacked /\ Packing /\ ArchiveComplete /\ Written /\ Types
  BY DEF IInv, ArchiveInv
<1>2. CASE Fail \/ Cancelled
  <2>1. UNCHANGED archive /\ pc' \in {"failed", "cancelled"}
    BY <1>2 DEF Fail, Cancelled
  <2> QED
    BY <1>1, <2>1 DEF ArchiveInv, ArchiveTypes, Unpacked, Packing, ArchiveComplete, archive
<1>3. CASE OpenVolume
  <2>1. /\ pc = "pack" /\ pc' = "packing" /\ UNCHANGED <<archive, buf, answer, tracker>>
    BY <1>3 DEF OpenVolume, sink
  <2>2. /\ volumes = <<>> /\ volume = <<>> /\ packed = 0
        /\ volumes' = <<>> /\ volume' = <<>> /\ packed' = 0
        /\ buf' = <<>> /\ answer' = Nothing
    BY <1>1, <2>1 DEF Unpacked, archive
  <2>3. ArchiveTypes' /\ Unpacked' /\ ArchiveComplete'
    BY <1>1, <2>1, <2>2 DEF ArchiveTypes, Unpacked, ArchiveComplete, archive
  <2>4. Parts' = Parts
    BY <2>1 DEF Parts, FullSpans, Spans
  <2>5. Len(Parts) \in Nat /\ Len(Parts) >= 1 /\ Parts[1][1] = 0
    BY PartsChain
  <2>6. InOrder(<<>>) /\ EndToEnd(<<>>) /\ EndOf(<<>>) = 0
    BY DEF InOrder, EndToEnd, EndOf
  <2>7. Packing'
    BY <2>2, <2>4, <2>5, <2>6 DEF Packing
  <2> QED
    BY <2>3, <2>7 DEF ArchiveInv
<1>4. CASE PackWhole
  <2> DEFINE whole == <<0, Len(file)>>
  <2>1. /\ pc = "pack" /\ pc' = "done" /\ volumes' = <<<<whole>>>>
        /\ UNCHANGED <<volume, packed, file, buf, kept, answer>>
    BY <1>4 DEF PackWhole, sink
  <2>2. buf = <<>> /\ answer = Nothing
    BY <1>1, <2>1 DEF Unpacked
  <2>3. file = kept.bytes /\ Len(file) \in Nat
    <3>1. /\ file \in Seq(Byte) /\ kept.bytes \in Seq(Byte)
          /\ file \o <<>> = kept.bytes \o <<>>
      BY <1>1, <2>2 DEF Types, Written, Sent, Nothing
    <3> QED
      BY <3>1, JoinNothing
  <2>4. whole \in Span /\ whole[1] = 0 /\ whole[2] = Len(file)
    BY <2>3 DEF Span
  <2> HIDE DEF whole
  <2>5. /\ <<>> \in Seq(Span) /\ <<>> \in Seq(Seq(Span))
        /\ InOrder(<<>>) /\ EndToEnd(<<>>) /\ EndOf(<<>>) = 0
    BY DEF InOrder, EndToEnd, EndOf
  <2>6. /\ <<whole>> \in Seq(Span) /\ <<whole>> # <<>> /\ EndToEnd(<<whole>>)
        /\ Last(<<whole>>) = whole /\ <<whole>>[1] = whole
    <3>1. whole[1] <= whole[2]
      BY <2>3, <2>4
    <3>2. Append(<<>>, whole) = <<whole>>
      OBVIOUS
    <3> QED
      BY <2>4, <2>5, <3>1, <3>2, PartJoins
  <2>7. /\ <<<<whole>>>> \in Seq(Seq(Span)) /\ <<<<whole>>>> # <<>>
        /\ InOrder(<<<<whole>>>>) /\ Last(<<<<whole>>>>) = <<whole>>
    <3>1. Append(<<>>, <<whole>>) = <<<<whole>>>>
      OBVIOUS
    <3> QED
      BY <2>4, <2>5, <2>6, <3>1, VolumeJoins
  <2>8. ArchiveComplete'
    BY <2>1, <2>3, <2>4, <2>6, <2>7 DEF ArchiveComplete
  <2>9. ArchiveTypes' /\ Unpacked' /\ Packing'
    BY <1>1, <2>1, <2>2, <2>7 DEF ArchiveTypes, Unpacked, Packing
  <2> QED
    BY <2>8, <2>9 DEF ArchiveInv
<1>5. CASE UNCHANGED vars
  <2>1. UNCHANGED <<pc, file, buf, tracker, volumes, volume, packed, kept, answer>>
    BY <1>5 DEF vars, sink, archive
  <2>2. Parts' = Parts
    BY <2>1 DEF Parts, FullSpans, Spans
  <2> QED
    BY <1>1, <2>1, <2>2
       DEF ArchiveInv, ArchiveTypes, Unpacked, Packing, ArchiveComplete
<1> QED
  BY <1>2, <1>3, <1>4, <1>5

(* A part follows the one before it, in the open volume or as the first of it. *)
LEMMA ArchiveGrows == IInv /\ PartsInv /\ ArchiveInv /\ PackPart => ArchiveInv'
<1> SUFFICES ASSUME IInv, PartsInv, ArchiveInv, PackPart PROVE ArchiveInv'
  OBVIOUS
<1>1. ArchiveTypes /\ Unpacked /\ Packing
  BY DEF ArchiveInv
<1> DEFINE part == Parts[packed + 1]
           written == Append(volume, part)
           k == Len(Parts)
<1>2. /\ pc = "packing" /\ pc' = "packing" /\ packed < k /\ packed' = packed + 1
      /\ UNCHANGED <<buf, answer, tracker>>
  BY DEF PackPart, sink
<1>3. \/ volumes' = Append(volumes, written) /\ volume' = <<>> /\ packed + 1 < k
      \/ volumes' = volumes /\ volume' = written
  BY DEF PackPart, SplitsVolume
<1>4. /\ k \in Nat /\ \A i \in 1 .. k : Parts[i] \in Span
      /\ \A i \in 1 .. k : /\ Parts[i][1] <= Parts[i][2]
                           /\ i > 1 => Parts[i][1] = Parts[i - 1][2]
  BY PartsChain DEF EndToEnd
<1>5. Parts' = Parts
  BY <1>2 DEF Parts, FullSpans, Spans
<1>6. /\ volumes \in Seq(Seq(Span)) /\ volume \in Seq(Span) /\ packed \in Nat
      /\ InOrder(volumes) /\ EndToEnd(volume)
      /\ volume = <<>> => Parts[packed + 1][1] = EndOf(volumes)
      /\ volume # <<>> => /\ volume[1][1] = EndOf(volumes)
                          /\ packed > 0 /\ Last(volume)[2] = Parts[packed][2]
  BY <1>1, <1>2 DEF ArchiveTypes, Packing
<1>7. part \in Span /\ part[1] <= part[2]
  <2>1. packed + 1 \in 1 .. k
    BY <1>2, <1>4, <1>6
  <2> QED
    BY <1>4, <2>1
<1>8. volume # <<>> => part[1] = Last(volume)[2]
  <2>1. packed > 0 => /\ packed + 1 \in 1 .. k /\ packed + 1 > 1
                      /\ (packed + 1) - 1 = packed
    BY <1>2, <1>4, <1>6
  <2> QED
    BY <1>4, <1>6, <2>1
<1>9. /\ written \in Seq(Span) /\ written # <<>> /\ EndToEnd(written)
      /\ Last(written) = part
      /\ written[1] = IF volume = <<>> THEN part ELSE volume[1]
  <2> HIDE DEF part
  <2> QED
    BY <1>6, <1>7, <1>8, PartJoins
<1>10. written[1][1] = EndOf(volumes)
  BY <1>6, <1>9
<1>11. Unpacked' /\ ArchiveComplete'
  BY <1>1, <1>2 DEF Unpacked, ArchiveComplete
<1>12. part = Parts[packed']
  BY <1>2
<1> HIDE DEF part, written, k
<1>13. CASE volumes' = volumes /\ volume' = written
  <2>1. ArchiveTypes'
    BY <1>2, <1>6, <1>9, <1>13 DEF ArchiveTypes
  <2>2. packed' <= k /\ packed' > 0
    BY <1>2, <1>4, <1>6
  <2>3. Packing'
    BY <1>5, <1>6, <1>9, <1>10, <1>12, <1>13, <2>2 DEF Packing, k
  <2> QED
    BY <1>11, <2>1, <2>3 DEF ArchiveInv
<1>14. CASE volumes' = Append(volumes, written) /\ volume' = <<>> /\ packed + 1 < k
  <2>1. /\ volumes' \in Seq(Seq(Span)) /\ volumes' # <<>> /\ InOrder(volumes')
        /\ Last(volumes') = written
    BY <1>6, <1>9, <1>10, <1>14, VolumeJoins
  <2>2. ArchiveTypes'
    <3>1. <<>> \in Seq(Span)
      OBVIOUS
    <3> QED
      BY <1>2, <1>6, <1>14, <2>1, <3>1 DEF ArchiveTypes
  <2>3. EndOf(volumes') = part[2]
    BY <1>9, <2>1 DEF EndOf
  <2>4. packed' < k /\ packed' <= k /\ Parts[packed' + 1][1] = part[2]
    <3>1. /\ packed' + 1 \in 1 .. k /\ packed' + 1 > 1 /\ (packed' + 1) - 1 = packed'
          /\ packed' < k /\ packed' <= k
      BY <1>2, <1>4, <1>6, <1>14
    <3>2. Parts[packed' + 1][1] = Parts[packed'][2]
      BY <1>4, <3>1
    <3> QED
      BY <1>12, <3>1, <3>2
  <2>5. EndToEnd(<<>>)
    BY DEF EndToEnd
  <2>6. Packing'
    <3>1. /\ packed' <= Len(Parts') /\ InOrder(volumes') /\ EndToEnd(volume')
          /\ volume' = <<>> /\ packed' < Len(Parts')
          /\ Parts'[packed' + 1][1] = EndOf(volumes')
      BY <1>5, <1>14, <2>1, <2>3, <2>4, <2>5 DEF k
    <3> QED
      BY <3>1 DEF Packing
  <2> QED
    BY <1>11, <2>2, <2>6 DEF ArchiveInv
<1> QED
  BY <1>3, <1>13, <1>14

(* The last volume is not empty, and ends where the file does. *)
LEMMA ArchiveEnds == IInv /\ PartsInv /\ ArchiveInv /\ CloseVolume => ArchiveInv'
<1> SUFFICES ASSUME IInv, PartsInv, ArchiveInv, CloseVolume PROVE ArchiveInv'
  OBVIOUS
<1>1. ArchiveTypes /\ Unpacked /\ Packing /\ Written /\ Types
  BY DEF IInv, ArchiveInv
<1> DEFINE k == Len(Parts)
<1>2. /\ pc = "packing" /\ pc' = "done" /\ packed = k
      /\ volumes' = Append(volumes, volume)
      /\ UNCHANGED <<file, buf, kept, answer, volume, packed>>
  BY DEF CloseVolume, sink
<1>3. k \in Nat /\ Parts[k][2] = Len(file) + Len(buf)
  BY PartsChain
<1>4. buf = <<>> /\ answer = Nothing
  BY <1>1, <1>2 DEF Unpacked
<1>5. file = kept.bytes /\ Parts[k][2] = Len(file)
  <2>1. /\ file \in Seq(Byte) /\ kept.bytes \in Seq(Byte)
        /\ file \o <<>> = kept.bytes \o <<>>
    BY <1>1, <1>4 DEF Types, Written, Sent, Nothing
  <2>2. Len(buf) = 0 /\ Len(file) \in Nat
    BY <1>4, <2>1
  <2> QED
    BY <1>3, <2>1, <2>2, JoinNothing
<1>6. /\ volume # <<>> /\ volumes \in Seq(Seq(Span)) /\ volume \in Seq(Span)
      /\ InOrder(volumes) /\ EndToEnd(volume)
      /\ volume[1][1] = EndOf(volumes) /\ Last(volume)[2] = Parts[k][2]
  BY <1>1, <1>2, <1>3 DEF ArchiveTypes, Packing
<1>7. /\ volumes' \in Seq(Seq(Span)) /\ volumes' # <<>> /\ InOrder(volumes')
      /\ Last(volumes') = volume
  BY <1>2, <1>6, VolumeJoins
<1>8. ArchiveComplete'
  BY <1>2, <1>5, <1>6, <1>7 DEF ArchiveComplete
<1>9. ArchiveTypes' /\ Unpacked' /\ Packing'
  BY <1>1, <1>2, <1>4, <1>7 DEF ArchiveTypes, Unpacked, Packing
<1> QED
  BY <1>8, <1>9 DEF ArchiveInv

(* A finished archive holds the output of all windows from its first byte to its
   last, in volumes that are not empty, wherever volumes were split. *)
THEOREM ArchiveHoldsOutput == Spec => []ArchiveComplete
<1>1. Init => ArchiveInv
  <2> SUFFICES ASSUME Init PROVE ArchiveInv
    OBVIOUS
  <2>1. pc = "mark" /\ volumes = <<>> /\ volume = <<>> /\ packed = 0
    BY DEF Init
  <2>2. ArchiveTypes
    BY <2>1 DEF ArchiveTypes
  <2> QED
    BY <2>1, <2>2 DEF ArchiveInv, Unpacked, Packing, ArchiveComplete
<1>2. IInv /\ PartsInv /\ ArchiveInv /\ [Next]_vars => ArchiveInv'
  BY ArchiveWaits, ArchiveBegins, ArchiveGrows, ArchiveEnds DEF Next
<1>3. ArchiveInv => ArchiveComplete
  BY DEF ArchiveInv
<1> QED
  BY <1>1, <1>2, <1>3, Invariance, PartsInvariance, PTL DEF Spec
=============================================================================
