-------------------------- MODULE RotatingGzWriter --------------------------
(***************************************************************************)
(* Rotated gzip output (src/src/rotation.rs) as the main loop drives it    *)
(* (src/src/main.rs): messages 1, 2, 3, ... are written one at a time; any *)
(* I/O call may fail, which ends the run through Drop.  The process may be *)
(* killed at any moment and is started again on the same prefix, where the *)
(* chunks of the earlier processes are: chunk names are a counter, which   *)
(* starts again, and the second of their creation.                         *)
(***************************************************************************)
EXTENDS Integers, Sequences, SequencesExt, Functions

CONSTANTS
    Modes,          \* the rotation modes a run may be started with
    MaxMessages,    \* bound: messages the capture of one process yields
    MaxSeconds,     \* bound: the wall clock
    MaxRestarts,    \* bound: processes started after the first
    None

\* Count(n), Seconds(n) or Never.
RotateBy == [kind : {"Count", "Seconds", "Never"}, n : Nat]

ASSUME ModesAssumption == Modes \subseteq RotateBy
ASSUME BoundsAssumption ==
    MaxMessages \in Nat /\ MaxSeconds \in Nat /\ MaxRestarts \in Nat
ASSUME NoneAssumption == None \notin [written : Nat, age : Nat]

VARIABLES
    rotate_by,        \* fixed when the writer is made
    current,          \* None, or [written |-> messages_written, age |-> since opened_at]
    chunk_counter,
    chunks,           \* the files of this process: what each one's encoder was given,
                      \* whether it was finished, and its path
    written,          \* history: messages handed to write_message
    stopped,          \* "no", "clean" after end of input, or "error"
    clock,            \* the second it is
    earlier,          \* the files earlier processes left
    started,          \* history: the second this process was started in
    restarts

process == <<current, chunk_counter, chunks, written, stopped>>
vars == <<rotate_by, process, clock, earlier, started, restarts>>

Init ==
    /\ rotate_by \in Modes
    /\ current = None
    /\ chunk_counter = 0
    /\ chunks = << >>
    /\ written = 0
    /\ stopped = "no"
    /\ clock = 0
    /\ earlier = {}
    /\ started = 0
    /\ restarts = 0

\* Mutant of should_rotate: one message late.
RotatesLate ==
    current # None =>
        \/ rotate_by.kind = "Count" /\ current.written > rotate_by.n
        \/ rotate_by.kind = "Seconds" /\ current.age >= rotate_by.n

should_rotate ==
    current # None =>
        \/ rotate_by.kind = "Count" /\ current.written >= rotate_by.n
        \/ rotate_by.kind = "Seconds" /\ current.age >= rotate_by.n

\* Mutant of Finished: the encoder is dropped unfinished.
Unfinished(files) == files

\* finish_current on the files: the open chunk, if any, becomes a whole gzip member.
Finished(files) ==
    IF current = None THEN files ELSE [files EXCEPT ![Len(files)].complete = TRUE]

\* Mutant of chunk_path: without now_stamp.
chunk_path_counter(counter) == <<counter, 0>>

\* <prefix>_<counter>_<now_stamp()>.gz
chunk_path(counter) == <<counter, clock>>

\* open_new: File::create truncates a file that has the path.
Opened(files) ==
    Append(files, [path |-> chunk_path(chunk_counter + 1), holds |-> << >>, complete |-> FALSE])

Created == earlier' = {f \in earlier : f.path # chunk_path(chunk_counter + 1)}

\* Mutant of Stored: the file is truncated.
StoredAlone(files, m) == [files EXCEPT ![Len(files)].holds = <<m>>]

Stored(files, m) == [files EXCEPT ![Len(files)].holds = Append(@, m)]

write_message ==
    /\ stopped = "no"
    /\ written < MaxMessages
    /\ written' = written + 1
    /\ \/ /\ should_rotate
          /\ chunk_counter' = chunk_counter + 1
          /\ chunks' = Stored(Opened(Finished(chunks)), written + 1)
          /\ current' = [written |-> 1, age |-> 0]
          /\ Created
       \/ /\ ~should_rotate
          /\ chunks' = Stored(chunks, written + 1)
          /\ current' = [current EXCEPT !.written = @ + 1]
          /\ UNCHANGED <<chunk_counter, earlier>>
    /\ UNCHANGED stopped

\* Drop finishes the open chunk; its own failure is ignored.
DropWriter(files) ==
    chunks' \in {files, [files EXCEPT ![Len(files)].complete = TRUE]}

\* finish_current failed, at a rotation or at end of input: the encoder is gone
\* and its chunk stays incomplete.
FinishFails ==
    /\ stopped = "no"
    /\ current # None
    /\ stopped' = "error"
    /\ current' = None
    /\ UNCHANGED <<chunks, chunk_counter, written, earlier>>

\* The next chunk could not be created; the one before it is finished.
CreateFails ==
    /\ stopped = "no"
    /\ written < MaxMessages
    /\ should_rotate
    /\ stopped' = "error"
    /\ chunk_counter' = chunk_counter + 1
    /\ chunks' = Finished(chunks)
    /\ current' = None
    /\ UNCHANGED <<written, earlier>>

\* write_all failed, in the open chunk or in one just opened.
WriteFails ==
    /\ stopped = "no"
    /\ written < MaxMessages
    /\ stopped' = "error"
    /\ DropWriter(IF should_rotate THEN Opened(Finished(chunks)) ELSE chunks)
    /\ \/ should_rotate /\ chunk_counter' = chunk_counter + 1 /\ Created
       \/ ~should_rotate /\ UNCHANGED <<chunk_counter, earlier>>
    /\ current' = None
    /\ UNCHANGED written

\* End of input: output.finish(), then a clean shutdown.
Eof ==
    /\ stopped = "no"
    /\ stopped' = "clean"
    /\ chunks' = Finished(chunks)
    /\ current' = None
    /\ UNCHANGED <<chunk_counter, written, earlier>>

\* A second passes; a chunk's age is told apart up to the threshold.
Tick ==
    /\ clock < MaxSeconds
    /\ clock' = clock + 1
    /\ IF current # None /\ rotate_by.kind = "Seconds" /\ current.age < rotate_by.n
       THEN current' = [current EXCEPT !.age = @ + 1]
       ELSE UNCHANGED current
    /\ UNCHANGED <<chunk_counter, chunks, written, stopped, earlier, started, restarts>>

\* The process has ended, or is killed with a chunk open, and another is started.
Restart ==
    /\ restarts < MaxRestarts
    /\ restarts' = restarts + 1
    /\ started' = clock
    /\ earlier' = earlier \union Range(chunks)
    /\ current' = None
    /\ chunk_counter' = 0
    /\ chunks' = << >>
    /\ written' = 0
    /\ stopped' = "no"
    /\ UNCHANGED clock

Running ==
    /\ write_message \/ FinishFails \/ CreateFails \/ WriteFails \/ Eof
    /\ UNCHANGED <<clock, started, restarts>>

Next == (Running \/ Tick \/ Restart) /\ UNCHANGED rotate_by

Spec == Init /\ [][Next]_vars

-----------------------------------------------------------------------------
(* Properties.                                                             *)

\* Read in chunk order the encoders were given every message write_message
\* accepted, once each and in the order of the capture, at every moment and after
\* any failure; a chunk that was finished holds all it was given.
ChunksConcatenate ==
    FlattenSeq([i \in DOMAIN chunks |-> chunks[i].holds]) = [m \in 1 .. written |-> m]

\* Rotating by count, no chunk exceeds the count (or one message, for a count of
\* zero), and every chunk but the last is full.
ChunksAreFull ==
    rotate_by.kind = "Count" =>
        LET full == IF rotate_by.n = 0 THEN 1 ELSE rotate_by.n
        IN  \A i \in DOMAIN chunks :
                /\ Len(chunks[i].holds) <= full
                /\ i < Len(chunks) => Len(chunks[i].holds) = full

\* Only the chunk being written is ever incomplete; after a clean shutdown all
\* are whole gzip members, "never truncated mid-write".
OnlyOpenIsIncomplete ==
    /\ \A i \in 1 .. Len(chunks) - 1 : chunks[i].complete
    /\ stopped = "clean" => \A i \in DOMAIN chunks : chunks[i].complete
    /\ stopped = "no" => (current = None <=> chunks = << >>)

\* A finished chunk never changes again, so that an uploader may take it, whether
\* the process goes on, fails, is killed or is started again.  The one exception
\* is a process started in the very second in which an earlier one created the
\* chunk: its own chunk with that counter may take its path (open_new).
FinishedIsFinal ==
    [][\A f \in earlier \union Range(chunks) : f.complete =>
          \/ f \in earlier' \union Range(chunks')
          \/ f \in earlier /\ f.path[2] = started]_vars
=============================================================================
