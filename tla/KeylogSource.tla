---------------------------- MODULE KeylogSource ----------------------------
(***************************************************************************)
(* The hot-reloaded keylog (src/src/keylog_source.rs) beside the process   *)
(* that writes the file.  A reload is two system calls, the read and then  *)
(* the stat that signs it, and the writer runs between them.               *)
(*                                                                         *)
(* The file's content is its append history: [run |-> r, len |-> n] is the *)
(* first n secrets of the r-th file of that name (the writer may start the *)
(* file afresh).  mtime is coarse: several writes share one clock tick.    *)
(***************************************************************************)
EXTENDS Integers

CONSTANTS
    MaxLen,            \* bound: secrets the writer appends to one file
    MaxRuns,           \* bound: times the writer starts the file afresh
    MaxClock,          \* bound: ticks of the mtime clock while the writer is active
    reload_interval,   \* in ticks
    Absent             \* Option::None; also: no such file

ASSUME BoundsAssumption ==
    /\ MaxLen \in Nat /\ MaxRuns \in Nat /\ MaxClock \in Nat
    /\ reload_interval \in Nat
ASSUME AbsentAssumption == Absent \notin [run : Nat, len : Nat]

VARIABLES
    file,          \* Absent, or the content of the file
    mtime,         \* when it was last written
    clock,
    since_reload,  \* time since last_reload_attempt
    last_seen,     \* (last_seen_mtime, last_seen_len)
    current,       \* the content current() was parsed from; Absent when empty
    reading,       \* Absent, or the text read and not yet signed
    at             \* where drain_records is: "poll", "decrypt" or "missed"

source == <<since_reload, last_seen, current, reading, at>>
writer == <<file, mtime>>
source_vars == <<writer, clock, source>>

Content == [run : 0 .. MaxRuns, len : 0 .. MaxLen]

stat_signature ==
    IF file = Absent THEN [mtime |-> Absent, len |-> Absent]
    ELSE [mtime |-> mtime, len |-> file.len]

\* open() read the file, which may have grown before it was signed, or did not
\* find it and starts empty; the path is Some.
SourceInit ==
    /\ clock = 0
    /\ mtime = 0
    /\ file \in {Absent, [run |-> 0, len |-> 0], [run |-> 0, len |-> 1]}
    /\ since_reload = 0
    /\ \/ current = Absent /\ last_seen = [mtime |-> Absent, len |-> Absent]
       \/ /\ file # Absent
          /\ current \in [run : {0}, len : 0 .. file.len]
          /\ last_seen = stat_signature
    /\ reading = Absent
    /\ at = "poll"

-----------------------------------------------------------------------------
(* The endpoint that logs its secrets, and the clock.                      *)

Write(content) ==
    /\ file' = content
    /\ mtime' = clock
    /\ UNCHANGED <<clock, source>>

AppendSecret ==
    /\ file # Absent
    /\ file.len < MaxLen
    /\ Write([file EXCEPT !.len = @ + 1])

Create == file = Absent /\ Write([run |-> 0, len |-> 0])

StartAfresh ==
    /\ file # Absent
    /\ file.run < MaxRuns
    /\ Write([run |-> file.run + 1, len |-> 0])

\* The mtime clock stops mattering once MaxClock is reached; the interval
\* since the last reload goes on.
Tick ==
    /\ clock < MaxClock \/ since_reload < reload_interval
    /\ clock' = IF clock < MaxClock THEN clock + 1 ELSE clock
    /\ since_reload' = IF since_reload < reload_interval THEN since_reload + 1 ELSE since_reload
    /\ UNCHANGED <<writer, last_seen, current, reading, at>>

-----------------------------------------------------------------------------
(* reload_if_changed: read_to_string, then stat_signature.                 *)

StartReload ==
    /\ since_reload' = 0
    /\ reading' = file
    /\ UNCHANGED <<last_seen, current>>

\* Mutant of ReadFails: a failed read clears the keylog.
ReadFailsClears ==
    /\ since_reload' = 0
    /\ current' = Absent
    /\ UNCHANGED <<reading, last_seen>>

\* No such file, or any other error: the last good keylog stays.
ReadFails ==
    /\ since_reload' = 0
    /\ UNCHANGED <<reading, last_seen, current>>

FinishReload ==
    /\ reading # Absent
    /\ last_seen' = stat_signature
    /\ current' = reading
    /\ reading' = Absent
    /\ UNCHANGED <<writer, clock, since_reload, at>>

-----------------------------------------------------------------------------
(* drain_records: poll, decrypt, and poll_after_miss when no key was found. *)

At(here, next) ==
    /\ reading = Absent
    /\ at = here
    /\ at' = next
    /\ UNCHANGED <<writer, clock>>

Elapsed == since_reload >= reload_interval
Changed == stat_signature # last_seen

\* Mutant of poll: the interval too rereads only what the signature shows changed.
PollIfChanged ==
    /\ At("poll", "decrypt")
    /\ Elapsed
    /\ IF Changed THEN StartReload ELSE ReadFails

poll == At("poll", "decrypt") /\ Elapsed /\ StartReload
PollFails == At("poll", "decrypt") /\ Elapsed /\ ReadFails
PollThrottled ==
    At("poll", "decrypt") /\ ~Elapsed /\ UNCHANGED <<since_reload, last_seen, current, reading>>

Decrypt ==
    /\ \E next \in {"poll", "missed"} : At("decrypt", next)
    /\ UNCHANGED <<since_reload, last_seen, current, reading>>

poll_after_miss == At("missed", "poll") /\ Changed /\ StartReload
MissFails == At("missed", "poll") /\ Changed /\ ReadFails
MissUnchanged ==
    At("missed", "poll") /\ ~Changed /\ UNCHANGED <<since_reload, last_seen, current, reading>>

Reader ==
    \/ poll \/ PollFails \/ PollThrottled
    \/ Decrypt
    \/ poll_after_miss \/ MissFails \/ MissUnchanged
    \/ FinishReload

SourceNext == AppendSecret \/ Create \/ StartAfresh \/ Tick \/ Reader

SourceSpec == SourceInit /\ [][SourceNext]_source_vars

\* Time passes, records keep arriving, and reads do not fail for ever.
Fairness == WF_source_vars(Tick) /\ WF_source_vars(Reader) /\ SF_source_vars(poll \/ poll_after_miss)
FairSpec == SourceSpec /\ Fairness

-----------------------------------------------------------------------------
(* Properties.                                                             *)

\* Content a is an earlier state of the file than b, or the same.
NotAfter(a, b) ==
    a = Absent \/ (b # Absent /\ (a.run < b.run \/ (a.run = b.run /\ a.len <= b.len)))

\* The snapshot never goes back: reloads, failed reads and misses never replace
\* it by an older state of the file (reload_if_changed keeps the last good one).
NeverGoesBack == [][NotAfter(current, current')]_source_vars

\* "poll()'s interval-based reload is the actual correctness backstop": when the
\* writer has stopped, the snapshot becomes what it wrote, whatever race between
\* read and stat made the signatures agree before.
EventuallyCurrent == \A c \in Content : <>[](file = c) => <>[](current = c)
=============================================================================
