------------------------------ MODULE WalFile ------------------------------
(***************************************************************************)
(* The log as a file: envelopes and newlines, fsync, failed and torn       *)
(* writes, the header, the reader, truncation of a torn tail, compaction,  *)
(* snapshot cuts and restore by offset.                                    *)
(*                                                                         *)
(* A file is a sequence of chunks: the header's body, the body of a        *)
(* record, a newline, or what is left of a body cut in the middle.  An     *)
(* offset is a number of chunks.  A line decodes if its one chunk is a     *)
(* whole record (its checksum holds); two bodies on a line do not.         *)
(***************************************************************************)
EXTENDS Integers, Sequences, FiniteSets, SequencesExt

CONSTANTS
    Failures,                \* a write or an fsync may fail
    MaxRecords, MaxCrashes   \* bounds of the model, none in the code

ASSUME WalBounds ==
    MaxRecords \in Nat /\ MaxCrashes \in Nat /\ Failures \in BOOLEAN

VARIABLES
    file,        \* the file as the operating system has it
    synced,      \* how much of it the last fsync made durable
    walBytes,    \* wal_bytes, the broker's own count of it
    open,        \* the broker holds the file open (wal is Some)
    degraded,    \* wal_degraded
    staged,      \* records appended and waiting for the barrier
    ram,         \* the records applied, in order
    serving,     \* "down", "up", or "refused": recovery exited with an error
    cut,         \* the last manifest: an offset and the state it names
    snapshotSeen,
    written,     \* records numbered so far
    crashes,
    promised,    \* history: records whose barrier held
    botched,     \* history: a record went onto an unterminated line or to no file
    restored,    \* history: this start was at an offset
    overtaken    \* history: <<x, y>> if y was applied while x, logged before it, was staged

disk == <<file, synced>>
histories == <<promised, botched, restored, overtaken>>
broker == <<walBytes, open, degraded, staged, ram, serving, cut, snapshotSeen>>
vars == <<disk, broker, written, crashes, histories>>

Newline == <<"newline", 0>>
Header == <<"header", 0>>
Torn == <<"torn", 0>>
Body(i) == <<"record", i>>
Marker == 0                  \* snapshot_marker: a record that changes no state
NoCut == [offset |-> 0, ram |-> <<>>, valid |-> FALSE]
Records == 1 .. MaxRecords
Chunk == {Newline, Header, Torn} \cup {Body(i) : i \in Records \cup {Marker}}

TypeOK ==
    /\ file \in Seq(Chunk) /\ synced \in 0 .. Len(file) /\ walBytes \in Nat
    /\ degraded \in BOOLEAN /\ open \in BOOLEAN /\ snapshotSeen \in BOOLEAN
    /\ staged \in Seq(Records) /\ ram \in Seq(Records)
    /\ serving \in {"down", "up", "refused"}
    /\ cut \in [offset : Nat, ram : Seq(Records), valid : BOOLEAN]
    /\ written \in 0 .. MaxRecords /\ crashes \in 0 .. MaxCrashes
    /\ promised \subseteq Records /\ botched \in BOOLEAN /\ restored \in BOOLEAN
    /\ overtaken \subseteq Records \X Records

Init ==
    /\ file = <<>> /\ synced = 0 /\ walBytes = 0 /\ open = FALSE /\ degraded = FALSE
    /\ staged = <<>> /\ ram = <<>> /\ serving = "down"
    /\ cut = NoCut /\ snapshotSeen = FALSE
    /\ written = 0 /\ crashes = 0
    /\ promised = {} /\ botched = FALSE /\ restored = FALSE /\ overtaken = {}

(***************************************************************************)
(* The reader.                                                             *)
(***************************************************************************)
LineStarts(f) == {a \in DOMAIN f : a = 1 \/ f[a - 1] = Newline}
AloneOnLine(f, a) == a = Len(f) \/ f[a + 1] = Newline
LineEnd(f, a) == IF a = Len(f) THEN a ELSE a + 1     \* of a chunk alone on its line

HasHeader(f) == f # <<>> /\ f[1] = Header /\ AloneOnLine(f, 1)
RecordLines(f) == LineStarts(f) \ (IF HasHeader(f) THEN {1} ELSE {})
Decodable(f) == {a \in RecordLines(f) : f[a][1] = "record" /\ AloneOnLine(f, a)}

\* Version 1 drops the lines behind the last decodable one, and refuses the file
\* (RestoreIntegrityError) if there is another before it.  A file without a
\* header is read leniently.
CorruptTail(f) ==
    LET good == Decodable(f) IN
    IF HasHeader(f) THEN {a \in RecordLines(f) : \A b \in good : b < a} ELSE {}
MidCorrupt(f) == HasHeader(f) /\ Decodable(f) # RecordLines(f) \ CorruptTail(f)

\* The events up to an offset, in order of the file; markers replay to nothing.
Nth(S, k) == CHOOSE a \in S : Cardinality({b \in S : b <= a}) = k
Replayed(f, chosen) == [k \in 1 .. Cardinality(chosen) |-> f[Nth(chosen, k)][2]]
Replays(f) == {a \in Decodable(f) : f[a] # Body(Marker)}
EventsBefore(f, offset) == Replayed(f, {a \in Replays(f) : LineEnd(f, a) < offset})
EventsTo(f, offset) == Replayed(f, {a \in Replays(f) : LineEnd(f, a) <= offset})
Events(f) == EventsTo(f, Len(f))

\* recoverable_prefix_bytes, when there is a tail to cut.
RecoverablePrefix(f) ==
    LET tail == CorruptTail(f) IN
    IF tail = {} THEN Len(f) ELSE (CHOOSE a \in tail : \A b \in tail : a <= b) - 1

Unterminated(f) == f # <<>> /\ Last(f) # Newline

(***************************************************************************)
(* Appends and barriers.                                                   *)
(***************************************************************************)
\* What a write that fails leaves: any part of the line.
Fragments(body) == {<<>>, <<Torn>>, <<body>>}

\* wal_append_nosync.  A failed write leaves its bytes out of wal_bytes; with no
\* file open the append succeeds and writes nothing.
Write(body, ok) ==
    /\ ok \/ open
    /\ IF ~open THEN UNCHANGED <<file, walBytes>> /\ botched' = TRUE
       ELSE IF ok
       THEN /\ file' = file \o <<body, Newline>>
            /\ walBytes' = walBytes + 2
            /\ botched' = (botched \/ Unterminated(file))
       ELSE \E rest \in Fragments(body) :
            /\ file' = file \o rest
            /\ botched' = (botched \/ (rest # <<>> /\ Unterminated(file)))
            /\ UNCHANGED walBytes
\* wal_sync, when it holds.
Synced(f) == IF open THEN Len(f) ELSE synced

\* A staged transition: the line is written, the barrier comes later.
Stage ==
    /\ serving = "up" /\ ~degraded /\ written < MaxRecords
    /\ written' = written + 1
    /\ \/ /\ Write(Body(written'), TRUE)
          /\ staged' = Append(staged, written') /\ UNCHANGED degraded
       \/ /\ Failures /\ Write(Body(written'), FALSE)
          /\ degraded' = TRUE /\ UNCHANGED staged
    /\ UNCHANGED <<synced, open, ram, serving, cut, snapshotSeen, crashes, promised,
                   restored, overtaken>>

\* The durability tick: one fsync for everything staged, then it is applied; a
\* failed one drops the queue.  It runs on a degraded broker too.
BarrierUnsynced ==
    /\ serving = "up" /\ staged # <<>>
    /\ \/ /\ UNCHANGED <<synced, degraded>>
          /\ ram' = ram \o staged /\ promised' = promised \cup ToSet(staged)
       \/ /\ Failures /\ degraded' = TRUE /\ UNCHANGED <<synced, ram, promised>>
    /\ staged' = <<>>
    /\ UNCHANGED <<file, walBytes, open, serving, cut, snapshotSeen, written, crashes,
                   botched, restored, overtaken>>
Barrier ==
    /\ serving = "up" /\ staged # <<>>
    /\ \/ /\ synced' = Synced(file) /\ UNCHANGED degraded
          /\ ram' = ram \o staged /\ promised' = promised \cup ToSet(staged)
       \/ /\ Failures /\ degraded' = TRUE /\ UNCHANGED <<synced, ram, promised>>
    /\ staged' = <<>>
    /\ UNCHANGED <<file, walBytes, open, serving, cut, snapshotSeen, written, crashes,
                   botched, restored, overtaken>>

\* wal_append, write and fsync in one handler, and applied there: an entity created
\* or deleted, a component's authority, a mesh departure or ack.  It does not wait for
\* what is staged, and applies before it what the file has behind it.  Mesh departures
\* and acks come here on a degraded broker as well; a contact's escalation and a
\* partition_config are applied even if the append failed.
Durable ==
    /\ serving = "up" /\ written < MaxRecords
    /\ written' = written + 1
    /\ \/ /\ Write(Body(written'), TRUE)
          /\ synced' = Synced(file') /\ UNCHANGED degraded
          /\ ram' = Append(ram, written') /\ promised' = promised \cup {written'}
       \/ /\ Failures
          /\ \E ok \in BOOLEAN : Write(Body(written'), ok)
          /\ degraded' = TRUE /\ UNCHANGED <<synced, promised>>
          /\ ram' \in {ram, Append(ram, written')}
    /\ overtaken' = IF ram' = ram THEN overtaken
                    ELSE overtaken \cup (ToSet(staged) \X {written'})
    /\ UNCHANGED <<open, staged, serving, cut, snapshotSeen, crashes, restored>>

(***************************************************************************)
(* Compaction and snapshots.                                               *)
(***************************************************************************)
SnapshotFile(applied) ==
    [a \in 1 .. 2 * Len(applied) + 2 |->
        IF a % 2 = 0 THEN Newline ELSE IF a = 1 THEN Header ELSE Body(applied[a \div 2])]

\* maybe_compact_wal: RAM is written to a new file, synced and renamed over the
\* log; not while anything is staged, nor in a life that took a snapshot.  A later
\* life may: the manifest is void then and, if that life was started at an offset,
\* what it did not apply is given up.  Failing, it leaves the old file or
\* the new one, and perhaps neither is open.
CompactUnderCuts ==
    /\ serving = "up" /\ ~degraded /\ staged = <<>>
    /\ file # SnapshotFile(ram)
    /\ \/ /\ file' = SnapshotFile(ram) /\ synced' = Len(file') /\ walBytes' = Len(file')
          /\ UNCHANGED <<open, degraded>>
       \/ /\ Failures /\ degraded' = TRUE
          /\ \/ UNCHANGED <<disk, open>>
             \/ /\ open' = FALSE
                /\ \/ UNCHANGED disk
                   \/ file' = SnapshotFile(ram) /\ synced' = Len(file')
          /\ UNCHANGED walBytes
    /\ UNCHANGED <<staged, ram, serving, cut, snapshotSeen, written, crashes, histories>>
Compact ==
    /\ serving = "up" /\ ~degraded /\ staged = <<>> /\ ~snapshotSeen
    /\ file # SnapshotFile(ram)
    /\ \/ /\ file' = SnapshotFile(ram) /\ synced' = Len(file') /\ walBytes' = Len(file')
          /\ UNCHANGED <<open, degraded>>
       \/ /\ Failures /\ degraded' = TRUE
          /\ \/ UNCHANGED <<disk, open>>
             \/ /\ open' = FALSE
                /\ \/ UNCHANGED disk
                   \/ file' = SnapshotFile(ram) /\ synced' = Len(file')
          /\ UNCHANGED walBytes
    /\ IF file' = file THEN UNCHANGED <<cut, promised>>
       ELSE cut' = NoCut /\ promised' = IF restored THEN promised \cap ToSet(ram) ELSE promised
    /\ UNCHANGED <<staged, ram, serving, snapshotSeen, written, crashes, botched, restored,
                   overtaken>>

\* SnapshotMarker: flush, then the marker, then a manifest with the offset
\* behind it.  (The flush is Barrier; a failed one ends here, degraded.)
SnapshotMarker ==
    /\ serving = "up" /\ ~degraded /\ staged = <<>> /\ ~cut.valid
    /\ \/ /\ Write(Body(Marker), TRUE)
          /\ synced' = Synced(file')
          /\ snapshotSeen' = TRUE
          /\ cut' = [offset |-> walBytes', ram |-> ram, valid |-> TRUE]
          /\ UNCHANGED degraded
       \/ /\ Failures
          /\ \E ok \in BOOLEAN : Write(Body(Marker), ok)
          /\ degraded' = TRUE /\ UNCHANGED <<synced, snapshotSeen, cut>>
    /\ UNCHANGED <<open, staged, ram, serving, written, crashes, promised, restored,
                   overtaken>>

(***************************************************************************)
(* Crashes and recovery.                                                   *)
(***************************************************************************)
\* What a power loss may leave: the synced part and any part of the rest.
Survivors(f, firm) ==
    {SubSeq(f, 1, n) : n \in firm .. Len(f)} \cup
    {Append(SubSeq(f, 1, n), Torn) : n \in {m \in firm .. Len(f) - 1 :
                                            f[m + 1] # Newline}}

Down ==
    /\ serving = "up" /\ crashes < MaxCrashes
    /\ crashes' = crashes + 1 /\ serving' = "down"
    /\ staged' = <<>> /\ ram' = <<>> /\ degraded' = FALSE /\ snapshotSeen' = FALSE
    /\ open' = FALSE
    /\ UNCHANGED <<walBytes, cut, written, histories>>
Kill == Down /\ UNCHANGED disk
PowerLoss ==
    /\ Down
    /\ file' \in Survivors(file, synced)
    /\ synced' = Len(file')

\* The cut of a torn tail is fsynced; without one nothing is.
SyncedAfterCut(keep) == IF keep < Len(file) THEN keep ELSE synced

\* main: read; refuse, or cut the tail, serve, open for append, and give an
\* empty file its header.
RecoverTo(offset) ==
    IF MidCorrupt(file)
    THEN serving' = "refused" /\ UNCHANGED <<disk, walBytes, open, degraded, ram>>
    ELSE LET keep == RecoverablePrefix(file) IN
         /\ serving' = "up" /\ open' = TRUE
         /\ ram' = EventsTo(file, offset)
         /\ \/ /\ keep > 0
               /\ file' = SubSeq(file, 1, keep)
               /\ synced' = SyncedAfterCut(keep)
               /\ walBytes' = keep /\ UNCHANGED degraded
            \/ /\ keep = 0
               /\ file' = <<Header, Newline>> /\ synced' = 2 /\ walBytes' = 2
               /\ UNCHANGED degraded
            \/ /\ keep = 0 /\ Failures
               /\ file' \in Fragments(Header) \cup {<<Header, Newline>>}
               /\ synced' = 0 /\ walBytes' = 0
               /\ degraded' = TRUE

Start ==
    /\ serving = "down"
    /\ RecoverTo(Len(file))
    /\ restored' = FALSE
    /\ UNCHANGED <<staged, cut, snapshotSeen, written, crashes, promised, botched,
                   overtaken>>

\* GW_RESTORE_OFFSET: what is behind the cut is not applied, and stays in the file.
Restore ==
    /\ serving = "down" /\ cut.valid
    /\ RecoverTo(cut.offset)
    /\ restored' = TRUE
    /\ UNCHANGED <<staged, cut, snapshotSeen, written, crashes, promised, botched,
                   overtaken>>

Next ==
    \/ Stage \/ Barrier \/ Durable \/ Compact \/ SnapshotMarker
    \/ Kill \/ PowerLoss \/ Start \/ Restore

Spec == Init /\ [][Next]_vars

(***************************************************************************)
(* Properties.                                                             *)
(***************************************************************************)
\* No crash takes back a record whose barrier held, and none makes the reader
\* refuse the log: what is torn is always at its end (wal_append's
\* durable-before-return), as long as no record was botched.
PromisedSurvives ==
    ~botched => \A g \in Survivors(file, synced) :
        ~MidCorrupt(g) /\ promised \subseteq ToSet(Events(g))

\* A manifest's offset names the state it was taken of, whatever crash came later,
\* until a later life compacts (SnapshotMarker: the cut the returned wal_offset can
\* replay): the same records and, but for pairs of which one was applied ahead of the
\* other while that was staged, in the same order.
Precedes(s, x, y) == \E i, j \in DOMAIN s : i < j /\ s[i] = x /\ s[j] = y
ReplaysTo(s, t) ==
    /\ Len(s) = Len(t) /\ ToSet(s) = ToSet(t)
    /\ \A x, y \in Records :
          <<x, y>> \notin overtaken /\ <<y, x>> \notin overtaken =>
              (Precedes(s, x, y) <=> Precedes(t, x, y))
CutReplays ==
    cut.valid /\ ~botched => \A g \in Survivors(file, synced) :
        ReplaysTo(EventsTo(g, cut.offset), cut.ram)

\* The file is a DurableLog: firm up to the last record whose barrier held.  Only a
\* compaction does otherwise: one of a life started at an offset gives up more, and one
\* after a record has overtaken another writes them in the order they were applied in.
Firm(f) ==
    LET sure == {i \in DOMAIN Events(f) : Events(f)[i] \in promised} IN
    IF sure = {} THEN 0 ELSE CHOOSE i \in sure : \A j \in sure : j <= i
Log == INSTANCE DurableLog WITH log <- Events(file), firm <- Firm(file)
ImplementsDurableLog ==
    [][\/ botched' \/ (Compact /\ (restored \/ overtaken # {}))
      \/ Log!LogNext]_<<Events(file), Firm(file)>>
=============================================================================
