---------------------------- MODULE OutputSpool -----------------------------
(***************************************************************************)
(* The output of one process of the sandbox core: both streams go through  *)
(* a literal redactor into one list of numbered events, of which each      *)
(* stream keeps a bounded tail; readers replay the list from a cursor.     *)
(*                                                                         *)
(* Bytes are symbols, and the marker that replaces a pattern is one of     *)
(* them.                                                                   *)
(***************************************************************************)
EXTENDS Integers, FiniteSets, Sequences, SequencesExt

CONSTANTS
    Patterns,           \* of the redactor, the longest first
    Redacted,           \* the marker
    Chunk,              \* what an adapter may hand over
    MaximumOutputChunk, ProducedLimit, RetainedLimit,
    Reader

ASSUME SpoolAssumption ==
    /\ ProducedLimit \in Nat \ {0} /\ RetainedLimit \in Nat \ {0}
    /\ \A i \in 1..Len(Patterns) : Patterns[i] # <<>>
    /\ \A i, j \in 1..Len(Patterns) : i < j => Len(Patterns[i]) >= Len(Patterns[j])

VARIABLES
    spool,      \* the spool of the process
    reader,     \* readers and the streams they have open
    raw,        \* history: the bytes accepted for each stream
    kept        \* history: the redacted bytes handed to retention

spoolVars == <<spool, reader, raw, kept>>

OutputKind == {"stdout", "stderr"}

(***************************************************************************)
(* The redactor.                                                           *)
(***************************************************************************)
longestPattern == IF Patterns = <<>> THEN 0 ELSE Len(Patterns[1])

\* Offsets at which a pattern occurs.
Occurrences(p, s) == {i \in 0..(Len(s) - Len(p)) : SubSeq(s, i + 1, i + Len(p)) = p}

\* bytes.ReplaceAll: occurrences from the left, without overlap.
RedactAll(s, p) ==
    LET rest[i \in 1..(Len(s) + 1)] ==
            IF i > Len(s) THEN <<>>
            ELSE IF i - 1 \in Occurrences(p, s) THEN <<Redacted>> \o rest[i + Len(p)]
            ELSE <<s[i]>> \o rest[i + 1]
    IN  rest[1]

replace(s) == FoldLeft(RedactAll, s, Patterns)

\* A pattern that begins before l and ends after it.
Straddled(s, l) ==
    \E k \in 1..Len(Patterns) :
        \E i \in Occurrences(Patterns[k], s) : i < l /\ i + Len(Patterns[k]) > l

\* A boundary that looks back over the longest pattern and no further.
ReadyWithinPattern(s) ==
    IF Patterns = <<>> THEN Len(s) ELSE IF Len(s) < longestPattern THEN 0 ELSE Len(s) - (longestPattern - 1)

\* The bytes that are ready: the boundary moves back while a pattern crosses it.
Ready(s) ==
    IF Patterns = <<>> THEN Len(s)
    ELSE IF Len(s) < longestPattern THEN 0
    ELSE CHOOSE l \in 0..(Len(s) - (longestPattern - 1)) :
            /\ ~Straddled(s, l)
            /\ \A m \in (l + 1)..(Len(s) - (longestPattern - 1)) : Straddled(s, m)

(***************************************************************************)
(* Retention.                                                              *)
(***************************************************************************)
NoCursor == 0

newProcessOutputSpool ==
    [produced |-> 0, nextCursor |-> 0, closed |-> FALSE, events |-> <<>>,
     pending |-> [s \in OutputKind |-> <<>>],
     retention |-> [s \in OutputKind |-> [bytes |-> 0, earliest |-> NoCursor, truncated |-> FALSE]],
     cursors |-> [s \in OutputKind |-> <<>>]]

appendEvent(sp, event) ==
    [sp EXCEPT !.nextCursor = @ + 1,
               !.events = Append(@, [event EXCEPT !.cursor = sp.nextCursor + 1])]

Event(kind, stream, bytes) == [kind |-> kind, stream |-> stream, bytes |-> bytes, cursor |-> NoCursor]

IsChunk(event, stream) == event.kind = "chunk" /\ event.stream = stream

evictOldestChunk(sp, stream) ==
    LET index == CHOOSE i \in 1..Len(sp.events) :
                    IsChunk(sp.events[i], stream) /\ \A j \in 1..(i - 1) : ~IsChunk(sp.events[j], stream)
        left == Tail(sp.cursors[stream])
    IN  [sp EXCEPT !.events = RemoveAt(@, index),
                   !.cursors[stream] = left,
                   !.retention[stream] =
                        [bytes |-> @.bytes - Len(sp.events[index].bytes),
                         earliest |-> IF left = <<>> THEN NoCursor ELSE Head(left),
                         truncated |-> TRUE]]

\* Evictions until the chunk fits or nothing is left of the stream.
RoomFor(sp, stream, bytes) ==
    LET after[n \in 0..Len(sp.cursors[stream])] == IF n = 0 THEN sp ELSE evictOldestChunk(after[n - 1], stream)
        fits(n) == after[n].retention[stream].bytes + Len(bytes) <= RetainedLimit
        needed == CHOOSE n \in DOMAIN after :
                    /\ fits(n) \/ n = Len(sp.cursors[stream])
                    /\ \A m \in 0..(n - 1) : ~fits(m)
    IN  after[needed]

retain(sp, stream, chunk) ==
    IF chunk = <<>> THEN sp
    ELSE LET long == Len(chunk) > RetainedLimit
             bytes == IF long THEN SubSeq(chunk, Len(chunk) - RetainedLimit + 1, Len(chunk)) ELSE chunk
             marked == IF long THEN [sp EXCEPT !.retention[stream].truncated = TRUE] ELSE sp
             stored == appendEvent(RoomFor(marked, stream, bytes), Event("chunk", stream, bytes))
         IN  [stored EXCEPT !.cursors[stream] = Append(@, stored.nextCursor),
                            !.retention[stream].bytes = @ + Len(bytes),
                            !.retention[stream].earliest = IF @ = NoCursor THEN stored.nextCursor ELSE @]

flush(sp, stream) == retain([sp EXCEPT !.pending[stream] = <<>>], stream, replace(sp.pending[stream]))

\* The gap of a stream that lost output, then its end.
finish(sp, stream) ==
    LET told == IF sp.retention[stream].truncated THEN appendEvent(sp, Event("gap", stream, <<>>)) ELSE sp
    IN  appendEvent(told, Event("final", stream, <<>>))

(***************************************************************************)
(* What the core does to the spool of a process.                           *)
(***************************************************************************)
Admitted(chunk) ==
    /\ ~spool.closed
    /\ Len(chunk) <= MaximumOutputChunk
    /\ spool.produced + Len(chunk) <= ProducedLimit

WriteOutput(stream, chunk) ==
    LET bytes == spool.pending[stream] \o chunk
        ready == SubSeq(bytes, 1, Ready(bytes))
        redacted == replace(ready)
    IN  /\ Admitted(chunk)
        /\ spool' = retain([spool EXCEPT !.produced = @ + Len(chunk),
                                         !.pending[stream] = SubSeq(bytes, Ready(bytes) + 1, Len(bytes))],
                           stream, redacted)
        /\ raw' = [raw EXCEPT ![stream] = @ \o chunk]
        /\ kept' = [kept EXCEPT ![stream] = @ \o redacted]
        /\ UNCHANGED reader

CloseSpool ==
    /\ ~spool.closed
    /\ spool' = [finish(finish(flush(flush(spool, "stdout"), "stderr"), "stdout"), "stderr") EXCEPT !.closed = TRUE]
    /\ kept' = [s \in OutputKind |-> kept[s] \o replace(spool.pending[s])]
    /\ UNCHANGED <<reader, raw>>

(***************************************************************************)
(* Readers.                                                                *)
(***************************************************************************)
NewReader == [at |-> NoCursor, open |-> FALSE, queue |-> <<>>, seen |-> {}, told |-> {}, ended |-> {}]

Retained(cursor) == {i \in 1..Len(spool.events) : spool.events[i].cursor = cursor}

\* A cursor that is no longer retained is refused, and the reader starts over.
ReplayOutput(r) ==
    /\ ~reader[r].open
    /\ LET at == reader[r].at
           from == IF at = NoCursor THEN {0} ELSE Retained(at)
       IN  reader' = [reader EXCEPT ![r] =
                IF from = {} THEN [@ EXCEPT !.at = NoCursor, !.told = OutputKind]
                ELSE [@ EXCEPT !.open = TRUE,
                               !.queue = SubSeq(spool.events, (CHOOSE i \in from : TRUE) + 1, Len(spool.events))]]
    /\ UNCHANGED <<spool, raw, kept>>

ReadNext(r) ==
    /\ reader[r].open /\ reader[r].queue # <<>>
    /\ LET event == Head(reader[r].queue)
       IN  reader' = [reader EXCEPT
                ![r].queue = Tail(@),
                ![r].at = event.cursor,
                ![r].seen = IF event.kind = "chunk" THEN @ \cup {event.cursor} ELSE @,
                ![r].told = IF event.kind = "gap" THEN @ \cup {event.stream} ELSE @,
                ![r].ended = IF event.kind = "final" THEN @ \cup {event.stream} ELSE @]
    /\ UNCHANGED <<spool, raw, kept>>

CloseStream(r) ==
    /\ reader[r].open
    /\ reader' = [reader EXCEPT ![r].open = FALSE, ![r].queue = <<>>]
    /\ UNCHANGED <<spool, raw, kept>>

SpoolInit ==
    /\ spool = newProcessOutputSpool
    /\ reader = [r \in Reader |-> NewReader]
    /\ raw = [s \in OutputKind |-> <<>>]
    /\ kept = [s \in OutputKind |-> <<>>]

SpoolNext ==
    \/ \E stream \in OutputKind, chunk \in Chunk : WriteOutput(stream, chunk)
    \/ CloseSpool
    \/ \E r \in Reader : ReplayOutput(r) \/ ReadNext(r) \/ CloseStream(r)

(***************************************************************************)
(* Properties.                                                             *)
(***************************************************************************)
\* However an adapter cuts the bytes into chunks, what is retained is what redacting
\* them in one piece gives: no pattern escapes through a boundary (literalRedactor).
RedactionIgnoresChunks ==
    \A s \in OutputKind : kept[s] \o (IF spool.closed THEN <<>> ELSE replace(spool.pending[s])) = replace(raw[s])

RetainedOf(s) == FlattenSeq([i \in 1..Len(spool.cursors[s]) |->
    (CHOOSE e \in {spool.events[j] : j \in 1..Len(spool.events)} : e.cursor = spool.cursors[s][i]).bytes])

\* The index of a stream names its retained chunks, they are a tail of its output within
\* the limit, and a stream that lost a byte is marked as truncated
\* (processOutputSpool.retain, evictOldestChunk).
RetentionIsTail ==
    \A s \in OutputKind :
        LET bytes == RetainedOf(s)
            n == Len(bytes)
        IN  /\ n = spool.retention[s].bytes /\ n <= RetainedLimit
            /\ bytes = SubSeq(kept[s], Len(kept[s]) - n + 1, Len(kept[s]))
            /\ spool.retention[s].truncated \/ n = Len(kept[s])

\* A reader that has read the end of a stream, over any number of replays, has read all
\* that was kept of it or has been told that output is missing (ReplayOutput, Close).
MissedOutputIsTold ==
    \A r \in Reader : \A s \in reader[r].ended \ reader[r].told :
        ~spool.retention[s].truncated /\ ToSet(spool.cursors[s]) \subseteq reader[r].seen

\* The output of a process is accounted for: redaction does not depend on how it was cut
\* (literalRedactor), what is retained is a tail that says when it is not the whole
\* (processOutputSpool), and a reader that reached an end has all of it or was told so.
OutputIsAccounted == RedactionIgnoresChunks /\ RetentionIsTail /\ MissedOutputIsTold
=============================================================================
