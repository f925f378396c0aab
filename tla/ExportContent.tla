---------------------------- MODULE ExportContent ----------------------------
(***************************************************************************)
(* What one export writes: the windows of a job are fetched one after the  *)
(* other through rawSink (sink.go: a file, a buffer, the part tracker),    *)
(* with mark, rollback and retry when an answer breaks off (export.go),    *)
(* and the parts are packed into an archive of volumes (package.go).       *)
(*                                                                         *)
(* A line is what transform makes of it: Size bytes, each of which carries *)
(* the window, the attempt and the number of its line, so that a byte that *)
(* is lost, doubled or out of place shows.  VictoriaLogs may answer a      *)
(* repeated request with other lines.  One goroutine owns all of it: the   *)
(* other parts of the program are in ExportWorker.                         *)
(***************************************************************************)
EXTENDS Integers, Sequences, SequencesExt

CONSTANTS NumWindows, \* planWindows
          MaxRetries, \* maxWindowRetries
          BufSize,    \* of the bufio.Writer
          Limit,      \* chunkBytes, the size of a part; 0: one part
          LineSizes,  \* what transform may return, 0: the line is dropped
          MaxLines    \* bound on the lines of an answer

ASSUME ContentAssumption ==
    /\ NumWindows \in Nat \ {0} /\ MaxRetries \in Nat
    /\ BufSize \in Nat \ {0} /\ Limit \in Nat
    /\ LineSizes \subseteq Nat /\ MaxLines \in Nat

VARIABLES
    pc,        \* where runExport is
    win, attempt,     \* windows done; retries of the one being fetched
    file, pos,        \* the .tmp file and the position of its descriptor
    buf,              \* the bufio.Writer
    tracker,          \* partTracker
    lines,            \* rawSink.lines
    mark,             \* the sinkMark of this attempt
    volumes, volume,  \* the parts in each closed volume of the archive, in the open one
    packed,           \* the parts written so far
    kept, answer,     \* history: what the windows done, this attempt have sent
    received          \* the lines of this answer so far, dropped ones included

sink == <<file, pos, buf, tracker, lines>>
archive == <<volumes, volume, packed>>
vars == <<pc, win, attempt, sink, mark, archive, kept, answer, received>>

Nothing == [bytes |-> <<>>, lines |-> 0]

\* what a and then b sent
Then(a, b) == [bytes |-> a.bytes \o b.bytes, lines |-> a.lines + b.lines]

NewTracker == [offset |-> 0, partSize |-> 0, bounds |-> <<0>>]

Init ==
    /\ pc = "mark" /\ win = 0 /\ attempt = 0
    /\ file = <<>> /\ pos = 0 /\ buf = <<>>
    /\ tracker = NewTracker /\ lines = 0
    /\ mark = [tracker |-> NewTracker, lines |-> 0]
    /\ volumes = <<>> /\ volume = <<>> /\ packed = 0
    /\ kept = Nothing /\ answer = Nothing /\ received = 0

Hole == <<0, 0, 0>>

\* write(2) at the position of the descriptor; what a gap contains is zero
WriteAt(f, at, p) ==
    [i \in 1 .. (IF at + Len(p) > Len(f) THEN at + Len(p) ELSE Len(f)) |->
        CASE i \in at + 1 .. at + Len(p) -> p[i - at]
          [] i <= Len(f) /\ i \notin at + 1 .. at + Len(p) -> f[i]
          [] OTHER -> Hole]

\* Truncate and Seek
CutTo(n) ==
    /\ file' = [i \in 1 .. n |-> IF i <= Len(file) THEN file[i] ELSE Hole]
    /\ pos' = n

ToDisk(p) == file' = WriteAt(file, pos, p) /\ pos' = pos + Len(p)

Flush == ToDisk(buf) /\ buf' = <<>>

\* bufio.Writer.Write: how many of the bytes in hand go to the file at once
Spilled(p) ==
    LET n == Len(buf) + Len(p)
    IN  CASE n <= BufSize -> 0
          [] n > BufSize /\ (buf = <<>> \/ n > 2 * BufSize) -> n
          [] OTHER -> BufSize

\* Mutation: a part stays below the limit
StartsPartEarly(n) ==
    Limit > 0 /\ tracker.partSize > 0 /\ tracker.partSize + n >= Limit

\* partTracker.Write: whether a line of n bytes begins a new part
StartsPart(n) ==
    Limit > 0 /\ tracker.partSize > 0 /\ tracker.partSize + n > Limit

Tracked(n) ==
    [offset   |-> tracker.offset + n,
     partSize |-> IF StartsPart(n) THEN n ELSE tracker.partSize + n,
     bounds   |-> IF StartsPart(n) THEN Append(tracker.bounds, tracker.offset)
                                   ELSE tracker.bounds]

-----------------------------------------------------------------------------
(* The loop over the windows *)

\* Mutation: the buffer is not flushed at the mark
MarkUnflushed ==
    /\ pc = "mark"
    /\ mark' = [tracker |-> tracker, lines |-> lines]
    /\ pc' = "fetch"
    /\ UNCHANGED <<win, attempt, sink, archive, kept, answer, received>>

Mark ==
    /\ pc = "mark"
    /\ Flush
    /\ mark' = [tracker |-> tracker, lines |-> lines]
    /\ pc' = "fetch"
    /\ UNCHANGED <<win, attempt, tracker, lines, archive, kept, answer, received>>

\* a line arrives and is written; the file sees it when the buffer is full
WriteLine(n) ==
    /\ pc = "fetch"
    /\ received < MaxLines
    /\ received' = received + 1
    /\ IF n = 0
         THEN UNCHANGED <<sink, answer>>
         ELSE LET line == [b \in 1 .. n |-> <<win + 1, attempt, received + 1>>]
                  all == buf \o line
              IN  /\ ToDisk(SubSeq(all, 1, Spilled(line)))
                  /\ buf' = SubSeq(all, Spilled(line) + 1, Len(all))
                  /\ tracker' = Tracked(n)
                  /\ lines' = lines + 1
                  /\ answer' = Then(answer, [bytes |-> line, lines |-> 1])
    /\ UNCHANGED <<pc, win, attempt, mark, archive, kept>>

\* the answer is complete
WindowDone ==
    /\ pc = "fetch"
    /\ win' = win + 1
    /\ attempt' = 0
    /\ kept' = Then(kept, answer)
    /\ answer' = Nothing /\ received' = 0
    /\ pc' = IF win' = NumWindows THEN "close" ELSE "mark"
    /\ UNCHANGED <<sink, mark, archive>>

\* Mutation: the bounds of the abandoned answer stay
RollbackKeepsBounds ==
    /\ CutTo(mark.tracker.offset)
    /\ buf' = <<>>
    /\ tracker' = [mark.tracker EXCEPT !.bounds = tracker.bounds]
    /\ lines' = mark.lines

\* Mutation: the lines of the abandoned answer are counted
RollbackKeepsLines ==
    /\ CutTo(mark.tracker.offset)
    /\ buf' = <<>>
    /\ tracker' = mark.tracker /\ UNCHANGED lines

\* the bounds are restored by their number: they are only ever appended to
BoundsAtMark ==
    LET n == Len(mark.tracker.bounds)
    IN  IF Len(tracker.bounds) > n THEN SubSeq(tracker.bounds, 1, n) ELSE tracker.bounds

\* the buffer is dropped, the file cut at the mark, the tracker restored
Rollback ==
    /\ CutTo(mark.tracker.offset)
    /\ buf' = <<>>
    /\ tracker' = [mark.tracker EXCEPT !.bounds = BoundsAtMark]
    /\ lines' = mark.lines

\* Mutation: retries are not counted
RetryForEver == UNCHANGED attempt

CountRetry == attempt < MaxRetries /\ attempt' = attempt + 1

\* a transient error: wait, and ask for the whole window again
Retry ==
    /\ pc = "fetch"
    /\ CountRetry
    /\ Rollback
    /\ answer' = Nothing /\ received' = 0
    /\ pc' = "mark"
    /\ UNCHANGED <<win, mark, archive, kept>>

\* a permanent error, the last transient one, or an error of the disk, which
\* may leave any part of what was written in a file that is then removed
Fail ==
    /\ pc \in {"mark", "fetch", "close", "pack", "packing"}
    /\ pc' = "failed"
    /\ UNCHANGED <<win, attempt, sink, mark, archive, kept, answer, received>>

\* the context is looked at after an error, while waiting and after closing
Cancelled ==
    /\ pc \in {"fetch", "close"} \/ (pc = "mark" /\ attempt > 0)
    /\ pc' = "cancelled"
    /\ UNCHANGED <<win, attempt, sink, mark, archive, kept, answer, received>>

Close ==
    /\ pc = "close"
    /\ Flush
    /\ pc' = "pack"
    /\ UNCHANGED <<win, attempt, tracker, lines, mark, archive, kept, answer, received>>

-----------------------------------------------------------------------------
(* Packaging *)

\* from each bound to the next, from the last one to the end: <<start, end>>
Spans ==
    LET b == tracker.bounds
    IN  [i \in 1 .. Len(b) |->
            <<b[i], IF i < Len(b) THEN b[i + 1] ELSE tracker.offset>>]

IsFull(span) == span[1] < span[2]
FullSpans == SelectSeq(Spans, IsFull)

\* partTracker.parts: those that are not empty; an empty export has one part
Parts ==
    IF \A i \in DOMAIN Spans : IsFull(Spans[i]) THEN Spans
    ELSE IF \A i \in DOMAIN Spans : ~IsFull(Spans[i]) THEN <<Last(Spans)>>
    ELSE FullSpans

\* Mutation: a volume may be closed after the last part
SplitsVolumeAtEnd == BOOLEAN

\* whether the volume is full after its part: its compressed size decides,
\* and the last part never opens another one
SplitsVolume == IF packed + 1 < Len(Parts) THEN BOOLEAN ELSE {FALSE}

\* .log and .log.gz: the whole file
PackWhole ==
    /\ pc = "pack"
    /\ volumes' = <<<<<<0, Len(file)>>>>>>
    /\ pc' = "done"
    /\ UNCHANGED <<win, attempt, sink, mark, volume, packed, kept, answer, received>>

\* .tar.gz: the first volume is opened; each part goes to the open one
OpenVolume ==
    /\ pc = "pack"
    /\ pc' = "packing"
    /\ UNCHANGED <<win, attempt, sink, mark, archive, kept, answer, received>>

PackPart ==
    /\ pc = "packing" /\ packed < Len(Parts)
    /\ packed' = packed + 1
    /\ LET written == Append(volume, Parts[packed + 1])
       IN  \E full \in SplitsVolume :
              IF full THEN volumes' = Append(volumes, written) /\ volume' = <<>>
                      ELSE volume' = written /\ UNCHANGED volumes
    /\ UNCHANGED <<pc, win, attempt, sink, mark, kept, answer, received>>

CloseVolume ==
    /\ pc = "packing" /\ packed = Len(Parts)
    /\ volumes' = Append(volumes, volume)
    /\ pc' = "done"
    /\ UNCHANGED <<win, attempt, sink, mark, volume, packed, kept, answer, received>>

Next ==
    \/ Mark \/ WindowDone \/ Retry \/ Fail \/ Cancelled \/ Close
    \/ \E n \in LineSizes : WriteLine(n)
    \/ PackWhole \/ OpenVolume \/ PackPart \/ CloseVolume

Spec == Init /\ [][Next]_vars

(* One goroutine runs it all; a request is answered or fails, and an answer
   is finite. *)
FairSpec == Spec /\ WF_vars(Next)

-----------------------------------------------------------------------------
(* Properties *)

Running == pc \in {"mark", "fetch", "close", "pack", "packing"}

TypeOK ==
    /\ pc \in {"mark", "fetch", "close", "pack", "packing", "done", "failed", "cancelled"}
    /\ win \in 0 .. NumWindows /\ attempt \in 0 .. MaxRetries
    /\ pos \in Nat /\ Len(buf) <= BufSize
    /\ lines \in Nat /\ received \in 0 .. MaxLines
    /\ tracker.offset \in Nat /\ tracker.partSize \in 0 .. tracker.offset

(* The file and the buffer together hold the lines of the windows done and of
   the answer in progress, each once and in order, whatever was retried. *)
ContentExact ==
    pc # "failed" =>
        /\ file \o buf = kept.bytes \o answer.bytes
        /\ tracker.offset = Len(file) + Len(buf)

(* The number of lines that the job shows is the number of lines it holds. *)
LinesCounted == lines = kept.lines + answer.lines

\* the byte at an offset begins a line
BeginsLine(o) ==
    LET bytes == file \o buf
    IN  o = 0 \/ bytes[o] # bytes[o + 1]

(* The parts lie end to end over the whole output, begin at lines, and none is
   larger than the limit unless it is a single line. *)
PartsTile ==
    Running =>
      /\ Parts[1][1] = 0 /\ Last(Parts)[2] = tracker.offset
      /\ \A i \in 2 .. Len(Parts) :
            Parts[i][1] = Parts[i - 1][2] /\ BeginsLine(Parts[i][1])
      /\ \A i \in 1 .. Len(Parts) :
            \/ Limit = 0
            \/ Parts[i][2] - Parts[i][1] <= Limit
            \/ \A o \in Parts[i][1] + 1 .. Parts[i][2] - 1 : ~BeginsLine(o)

(* A part ends only where its next line would not have fitted: a retry does
   not leave a part cut short. *)
PartsAreFull ==
    Running => \A i \in 2 .. Len(Parts) :
        \E next \in Parts[i][1] + 1 .. Parts[i][2] :
            /\ next - Parts[i - 1][1] > Limit
            /\ \A o \in Parts[i][1] + 1 .. next - 1 : ~BeginsLine(o)

\* each part begins where the one before it ends
EndToEnd(parts) ==
    \A i \in 1 .. Len(parts) :
        /\ parts[i][1] <= parts[i][2]
        /\ i > 1 => parts[i][1] = parts[i - 1][2]

\* so do the parts of all volumes, from the first byte on, and none is empty
InOrder(vols) ==
    \A v \in 1 .. Len(vols) :
        /\ vols[v] # <<>> /\ EndToEnd(vols[v])
        /\ vols[v][1][1] = IF v = 1 THEN 0 ELSE Last(vols[v - 1])[2]

(* The archive holds every line of every window once and in order, and none
   of its volumes is empty. *)
ArchiveComplete ==
    pc = "done" =>
        /\ file = kept.bytes
        /\ volumes # <<>> /\ InOrder(volumes)
        /\ Last(Last(volumes))[2] = Len(file)

(* Retries are bounded: every export ends. *)
ExportEnds == <>(pc \in {"done", "failed", "cancelled"})
=============================================================================
