---------------------------- MODULE Orchestrator ----------------------------
(***************************************************************************)
(* The core loop (src/src/orchestrator.rs): the connection table and its   *)
(* eviction, per-direction desynchronisation, the drain of TLS records     *)
(* with its counters, and the plaintext tails kept for the dissector.      *)
(*                                                                         *)
(* The components it drives are abstracted to what they return: a push     *)
(* leaves any number of whole records ready (StreamReassembler), decrypt   *)
(* gives any of its results (TlsConnection), the dissector consumes any    *)
(* amount (Lua).  Plaintext is its length.                                 *)
(***************************************************************************)
EXTENDS Integers, FiniteSets, Functions

CONSTANTS
    Keys,            \* ConnKey: endpoint pairs
    Registered,      \* those whose server port has a dissector
    max_tail_bytes,
    idle_timeout,    \* None, or ticks
    sweep_interval,
    FrameFlags,      \* the TCP flag combinations captured
    MaxFrames,       \* bound: frames captured
    MaxReady,        \* bound: records one push completes
    MaxPlain,        \* bound: plaintext bytes of a record
    None

Endpoint == {"a", "b"}     \* the initiator of the TCP connection is "a"
Direction == {"c2s", "s2c"}

ASSUME KeysAssumption == Registered \subseteq Keys /\ None \notin Keys \X Direction
ASSUME TailAssumption == max_tail_bytes \in Nat
ASSUME SweepAssumption ==
    /\ sweep_interval \in Nat \ {0}
    /\ idle_timeout \in (Nat \ {0}) \union {None}
    /\ None \notin Nat
ASSUME FlagsAssumption == FrameFlags \subseteq SUBSET {"syn", "ack", "fin", "rst"}
ASSUME BoundsAssumption == MaxFrames \in Nat /\ MaxReady \in Nat /\ MaxPlain \in Nat

VARIABLES
    connections,     \* ConnKey -> Connection
    counters,        \* the diagnostic counters
    since_sweep,     \* time since last_sweep
    busy,            \* None, or the (key, direction) whose records are drained
    frames,          \* frames captured so far
    truth            \* history: what the counters are compared with

vars == <<connections, counters, since_sweep, busy, frames, truth>>

Other(e) == IF e = "a" THEN "b" ELSE "a"

-----------------------------------------------------------------------------
(* Connection.                                                             *)

NewConnection(src) ==
    [client |-> src,                               \* client_endpoint
     ready |-> [d \in Direction |-> 0],            \* whole records in the reassembler
     pending |-> [d \in Direction |-> FALSE],      \* it holds segments behind a gap
     desynced |-> [d \in Direction |-> FALSE],
     tail |-> [d \in Direction |-> 0],
     fin |-> [d \in Direction |-> FALSE],
     rst |-> FALSE,
     hello |-> FALSE,                              \* state.is_some()
     server_random |-> FALSE,
     idle |-> 0]                                   \* time since last_activity

is_closed(conn) == conn.rst \/ \A d \in Direction : conn.fin[d]

\* A dissector is looked up by the port of the endpoint taken for the server.
HasDissector(k, conn) == k \in Registered /\ conn.client = "a"

\* What a connection table holds in all: bytes of plaintext, desynced directions.
Tails(table) ==
    SumFunction([k \in DOMAIN table |-> table[k].tail["c2s"] + table[k].tail["s2c"]])
Desynced(table) ==
    SumFunction([k \in DOMAIN table |-> Cardinality({d \in Direction : table[k].desynced[d]})])

Counted(name) == [counters EXCEPT ![name] = @ + 1]

Init ==
    /\ connections = [k \in {} |-> None]
    /\ counters = [seen |-> 0, decrypted |-> 0, nokey |-> 0, authfailed |-> 0,
                   no_client_hello |-> 0, plaintext_handshake |-> 0,
                   evicted |-> 0, desynced |-> 0, gap_bytes |-> 0, tail_discarded |-> 0]
    /\ since_sweep = 0
    /\ busy = None
    /\ frames = 0
    /\ truth = [created |-> 0, gone_desynced |-> 0, plain |-> 0, dissected |-> 0, forgotten |-> 0]

-----------------------------------------------------------------------------
(* process_frame, up to the drain.                                         *)

\* Entry for the frame: the one in the table, or a new one.
EntryFor(k, src) == IF k \in DOMAIN connections THEN connections[k] ELSE NewConnection(src)

DirOf(conn, src) == IF src = conn.client THEN "c2s" ELSE "s2c"

\* Flags and activity, before the payload is looked at.  A SYN names the client
\* only on a fresh entry, whose client is the frame's source already.
Noted(conn, d, flags) ==
    [conn EXCEPT !.fin[d] = @ \/ "fin" \in flags, !.rst = @ \/ "rst" \in flags, !.idle = 0]

Put(k, conn) == [j \in DOMAIN connections \union {k} |-> IF j = k THEN conn ELSE connections[j]]

\* What a push may return, with the records it completes, whether segments are
\* pending then, and the bytes given up.
Pushed(conn, d) ==
    [kind : {"Delivered"}, ready : 0 .. MaxReady, pending : {FALSE, conn.pending[d]}, bytes : {0}]
    \union [kind : {"DuplicateDiscarded"}, ready : {0}, pending : {conn.pending[d]}, bytes : {0}]
    \union [kind : {"BufferedOutOfOrder"}, ready : {0}, pending : {TRUE}, bytes : {0}]
    \union [kind : {"GapAbandoned"}, ready : {0}, pending : BOOLEAN, bytes : {1}]

\* Mutants of mark_desynced: the old reassembler is kept; both directions go.
MarkOnly(conn, d) == [conn EXCEPT !.desynced[d] = TRUE]
MarkBoth(conn, d) ==
    [conn EXCEPT !.desynced = [e \in Direction |-> TRUE], !.ready = [e \in Direction |-> 0],
                 !.pending = [e \in Direction |-> FALSE]]

\* mark_desynced: the direction gets a fresh, empty reassembler.
mark_desynced(conn, d) ==
    [conn EXCEPT !.desynced[d] = TRUE, !.ready[d] = 0, !.pending[d] = FALSE]

push(k, conn, d) ==
    \E res \in Pushed(conn, d) :
        \/ /\ res.kind = "GapAbandoned"
           /\ connections' = Put(k, mark_desynced(conn, d))
           /\ counters' = [counters EXCEPT !.gap_bytes = @ + res.bytes, !.desynced = @ + 1]
        \/ /\ res.kind # "GapAbandoned"
           /\ connections' = Put(k, [conn EXCEPT !.ready[d] = @ + res.ready,
                                                 !.pending[d] = res.pending])
           /\ UNCHANGED counters

\* Mutant of Ingest: a desynced direction is still fed.
IngestAlways(k, conn, d, payload) ==
    IF payload THEN push(k, conn, d) ELSE connections' = Put(k, conn) /\ UNCHANGED counters

\* The payload goes to the reassembler unless it is empty or its direction is
\* permanently desynced.
Ingest(k, conn, d, payload) ==
    IF payload /\ ~conn.desynced[d]
    THEN push(k, conn, d)
    ELSE connections' = Put(k, conn) /\ UNCHANGED counters

process_frame(k, src, flags, payload) ==
    LET entry == EntryFor(k, src)
        d == DirOf(entry, src)
    IN  /\ busy = None
        /\ frames < MaxFrames
        /\ frames' = frames + 1
        /\ Ingest(k, Noted(entry, d, flags), d, payload)
        /\ busy' = <<k, d>>
        /\ truth' = [truth EXCEPT !.created = @ + (IF k \in DOMAIN connections THEN 0 ELSE 1)]
        /\ UNCHANGED since_sweep

-----------------------------------------------------------------------------
(* drain_records: one record per iteration.                                *)

\* The record at the head of direction d of entry k is taken, and counted.
Take(k, d) == [connections[k] EXCEPT !.ready[d] = @ - 1]
Seen(name) == [Counted(name) EXCEPT !.seen = @ + 1]

DrainChangeCipherSpec(k, d) ==
    /\ connections' = Put(k, Take(k, d))
    /\ counters' = Seen("plaintext_handshake")
    /\ UNCHANGED truth

DrainClientHello(k, d) ==
    /\ d = "c2s" /\ ~connections[k].hello
    /\ connections' = Put(k, [Take(k, d) EXCEPT !.hello = TRUE])
    /\ counters' = Seen("plaintext_handshake")
    /\ UNCHANGED truth

\* Mutant of DrainServerHello: falls through to decrypt.
DrainServerHelloTwice(k, d) ==
    /\ d = "s2c" /\ connections[k].hello /\ ~connections[k].server_random
    /\ connections' = Put(k, [Take(k, d) EXCEPT !.server_random = TRUE])
    /\ counters' = [Seen("plaintext_handshake") EXCEPT !.nokey = @ + 1]
    /\ UNCHANGED truth

DrainServerHello(k, d) ==
    /\ d = "s2c" /\ connections[k].hello /\ ~connections[k].server_random
    /\ connections' = Put(k, [Take(k, d) EXCEPT !.server_random = TRUE])
    /\ counters' = Seen("plaintext_handshake")
    /\ UNCHANGED truth

DrainWithoutState(k, d) ==
    /\ ~connections[k].hello
    /\ connections' = Put(k, Take(k, d))
    /\ counters' = Seen("no_client_hello")
    /\ UNCHANGED truth

\* decrypt failed, or gave a record that is not application data.
DrainUndissected(k, d) ==
    /\ connections[k].hello
    /\ connections' = Put(k, Take(k, d))
    /\ \E name \in {"nokey", "authfailed", "decrypted"} : counters' = Seen(name)
    /\ UNCHANGED truth

\* Mutant of Capped: the cap is off by one.
CappedLate(len) == IF len > max_tail_bytes + 1 THEN max_tail_bytes + 1 ELSE len

\* set_tail_capped: the newest max_tail_bytes are kept, the rest is reported.
Capped(len) == IF len > max_tail_bytes THEN max_tail_bytes ELSE len

\* Mutant of dissect_and_emit: the old tail is overwritten.
DissectDropsTail(k, d, plain, consumed) ==
    LET conn == Take(k, d)
        used == IF consumed > plain THEN plain ELSE consumed
        left == plain - used
    IN  /\ connections' = Put(k, [conn EXCEPT !.tail[d] = Capped(left)])
        /\ counters' = [Seen("decrypted") EXCEPT !.tail_discarded = @ + left - Capped(left)]
        /\ truth' = [truth EXCEPT !.plain = @ + plain, !.dissected = @ + used]

dissect_and_emit(k, d, plain, consumed) ==
    LET conn == Take(k, d)
        buf == conn.tail[d] + plain
        used == IF consumed > buf THEN buf ELSE consumed
        left == IF HasDissector(k, conn) THEN buf - used ELSE 0
    IN  /\ connections' = Put(k, [conn EXCEPT !.tail[d] = Capped(left)])
        /\ counters' = [Seen("decrypted") EXCEPT !.tail_discarded = @ + left - Capped(left)]
        /\ truth' = [truth EXCEPT !.plain = @ + plain,
                                  !.dissected = @ + (IF HasDissector(k, conn) THEN used ELSE 0),
                                  !.forgotten = @ + (IF HasDissector(k, conn) THEN 0 ELSE buf)]

\* Application data: the dissector consumes some of it, fails (and consumes
\* nothing), or is not registered for the port.
DrainApplicationData(k, d) ==
    /\ connections[k].hello
    /\ \E plain \in 0 .. MaxPlain : \E consumed \in 0 .. MaxPlain + max_tail_bytes + 1 :
           dissect_and_emit(k, d, plain, consumed)

drain_records ==
    /\ busy # None
    /\ LET k == busy[1]
           d == busy[2]
       IN  /\ connections[k].ready[d] > 0
           /\ \/ DrainChangeCipherSpec(k, d)
              \/ DrainClientHello(k, d)
              \/ DrainServerHello(k, d)
              \/ DrainWithoutState(k, d)
              \/ DrainUndissected(k, d)
              \/ DrainApplicationData(k, d)
    /\ UNCHANGED <<since_sweep, busy, frames>>

-----------------------------------------------------------------------------
(* The end of process_frame: eviction, and the idle sweep.                 *)

\* The entries left when entry k was removed if closed.
StillOpen(k) == {j \in DOMAIN connections : j = k => ~is_closed(connections[j])}

\* Mutant of SweepDue: the interval compared the other way round.
SweepOverdue == idle_timeout # None /\ since_sweep > sweep_interval

\* maybe_sweep_idle: the entries of T it retains.
SweepDue == idle_timeout # None /\ since_sweep >= sweep_interval

\* Mutant of Retained: a tick early.
RetainedShort(T) == {k \in T : ~SweepDue \/ connections[k].idle + 1 < idle_timeout}

Retained(T) == {k \in T : ~SweepDue \/ connections[k].idle < idle_timeout}

\* What evicting the entries S lets go, for the history.
Lost(S) ==
    [truth EXCEPT !.gone_desynced = @ + Desynced(Restrict(connections, S)),
                  !.forgotten = @ + Tails(Restrict(connections, S))]

\* Mutant of Evict: a sweep counts as one.
EvictOnce(S) ==
    /\ connections' = Restrict(connections, DOMAIN connections \ S)
    /\ counters' = [counters EXCEPT !.evicted = @ + (IF S = {} THEN 0 ELSE 1)]
    /\ truth' = Lost(S)

Evict(S) ==
    /\ connections' = Restrict(connections, DOMAIN connections \ S)
    /\ counters' = [counters EXCEPT !.evicted = @ + Cardinality(S)]
    /\ truth' = Lost(S)

FinishFrame ==
    /\ busy # None
    /\ connections[busy[1]].ready[busy[2]] = 0
    /\ Evict(DOMAIN connections \ Retained(StillOpen(busy[1])))
    /\ since_sweep' = IF SweepDue THEN 0 ELSE since_sweep
    /\ busy' = None
    /\ UNCHANGED frames

\* Time passes between frames; it matters to the sweep alone.  Ages are told
\* apart up to the longest the sweep compares.
MaxAge == (IF idle_timeout = None THEN 0 ELSE idle_timeout) + sweep_interval
Older(age) == IF age < MaxAge THEN age + 1 ELSE age

Tick ==
    /\ busy = None
    /\ idle_timeout # None
    /\ since_sweep < MaxAge \/ \E k \in DOMAIN connections : connections[k].idle < MaxAge
    /\ since_sweep' = Older(since_sweep)
    /\ connections' = [k \in DOMAIN connections |-> [connections[k] EXCEPT !.idle = Older(@)]]
    /\ UNCHANGED <<counters, busy, frames, truth>>

ProcessFrame ==
    \E k \in Keys : \E src \in Endpoint : \E flags \in FrameFlags : \E payload \in BOOLEAN :
        process_frame(k, src, flags, payload)

Next == ProcessFrame \/ drain_records \/ FinishFrame \/ Tick

Spec == Init /\ [][Next]_vars

-----------------------------------------------------------------------------
(* Properties.                                                             *)

PerDirection(S) == [Direction -> S]

Connection ==
    [client : Endpoint, ready : PerDirection(0 .. MaxReady), pending : PerDirection(BOOLEAN),
     desynced : PerDirection(BOOLEAN), tail : PerDirection(0 .. max_tail_bytes),
     fin : PerDirection(BOOLEAN), rst : BOOLEAN, hello : BOOLEAN, server_random : BOOLEAN,
     idle : 0 .. MaxAge]

Counters ==
    [seen : Nat, decrypted : Nat, nokey : Nat, authfailed : Nat, no_client_hello : Nat,
     plaintext_handshake : Nat, evicted : Nat, desynced : Nat, gap_bytes : Nat,
     tail_discarded : Nat]

Truth == [created : Nat, gone_desynced : Nat, plain : Nat, dissected : Nat, forgotten : Nat]

TypeOK ==
    /\ DOMAIN connections \subseteq Keys
    /\ \A k \in DOMAIN connections : connections[k] \in Connection
    /\ counters \in Counters
    /\ truth \in Truth
    /\ since_sweep \in 0 .. MaxAge
    /\ busy \in {None} \union (Keys \X Direction)
    /\ busy # None => busy[1] \in DOMAIN connections
    /\ frames \in 0 .. MaxFrames

\* "They always sum to this total": every record drain_records takes ends in
\* exactly one of the five outcome counters.
CountersSum ==
    counters.seen = counters.decrypted + counters.nokey + counters.authfailed
                        + counters.no_client_hello + counters.plaintext_handshake

\* Every entry ever made is in the table or was counted as evicted, whether it
\* was closed, swept idle, or made again for the same endpoints.
EvictionsAccounted == counters.evicted + Cardinality(DOMAIN connections) = truth.created

\* A desynced direction holds nothing and is never drained again: no frame, not
\* even a retransmitted SYN, feeds its fresh reassembler.
DesyncedHoldsNothing ==
    \A k \in DOMAIN connections : \A d \in Direction :
        connections[k].desynced[d] =>
            connections[k].ready[d] = 0 /\ ~connections[k].pending[d]

\* connections_desynced counts each (connection, direction) once, however many
\* frames arrive on it afterwards.
DesyncCountedOnce == counters.desynced = truth.gone_desynced + Desynced(connections)

\* Every byte of decrypted application data was consumed by a dissector, waits
\* in a tail, was reported in tail_bytes_discarded, or was deliberately let go
\* with an evicted connection or on a port without a dissector.
PlaintextAccounted ==
    truth.plain = truth.dissected + Tails(connections) + counters.tail_discarded + truth.forgotten

\* An entry leaves the table only when it is closed or, where an idle timeout is
\* configured, after that much silence: "never be evicted while the connection
\* is genuinely still alive".
LiveIsKept ==
    [][\A k \in DOMAIN connections \ DOMAIN connections' :
          \/ is_closed(connections[k])
          \/ idle_timeout # None /\ connections[k].idle >= idle_timeout]_vars

\* After every frame each entry was active within idle_timeout plus one sweep
\* interval: the throttled sweep keeps none longer (ages are whole ticks).
SweepIsPrompt ==
    [][idle_timeout # None /\ busy # None /\ busy' = None =>
          \A k \in DOMAIN connections' : connections'[k].idle + 1 < idle_timeout + sweep_interval]_vars

\* What a direction of a connection carries changes only while a frame of that
\* direction is processed: a gap, a desync, a FIN or a record in one direction
\* leaves the other as it was.
DirectionsIndependent ==
    [][\A k \in DOMAIN connections \intersect DOMAIN connections' : \A d \in Direction :
          busy' # <<k, d>> =>
              LET old == connections[k]
                  new == connections'[k]
              IN  /\ new.ready[d] = old.ready[d]
                  /\ new.pending[d] = old.pending[d]
                  /\ new.desynced[d] = old.desynced[d]
                  /\ new.tail[d] = old.tail[d]
                  /\ new.fin[d] = old.fin[d]]_vars
=============================================================================
