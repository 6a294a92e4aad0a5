# A TLA+ verification of tlscap

tlscap reads a packet capture on standard input, reassembles its TCP streams,
decrypts the TLS records with the secrets a key log holds, hands the plaintext to
Lua dissectors and writes the messages to rotated gzip files. It is one thread
and one loop, but it runs for months beside things it does not control: a capture
that loses, repeats and reorders packets, a process that appends to the key log
while it is read, peers that close and reuse connections, disks that fill up.
What can go wrong is in the order of those events. The modules enumerate those
orders on small instances, and prove most of the properties for all of them.

Paths below are relative to the repository: `src/reassembly.rs` and so on.

## 1. The system

| Component | State | Operations | Talks to |
|---|---|---|---|
| `reassembly.rs` `StreamReassembler`, one per connection and direction | anchor `base_seq`, `next_expected_relative`, delivered bytes, out-of-order buffer with byte counter and age | `set_isn`, `push`, `peek`, `take_bytes` | called by the orchestrator; its outcome decides desynchronisation |
| `orchestrator.rs` `Orchestrator` | connection table, per direction: desynced flag, plaintext tail, FIN seen; counters; time of the last sweep | `process_frame` (= entry, flags, push, drain, evict, sweep) | calls everything else |
| `connection.rs` `ConnectionState` | client and server random, sequence counters, key caches | `decrypt`, `set_server_random` | reads the current keylog |
| `keylog.rs`, `keylog_source.rs` | last parsed snapshot, signature (mtime, length), time of the last reload | `open`, `poll`, `poll_after_miss` | the file, written by another process |
| `tls12.rs`, `tls13.rs` | none | derive keys, open a record | called by `connection.rs` |
| `rotation.rs` `RotatingGzWriter` | open chunk, messages in it, its age, chunk counter | `write_message`, `finish_current`, `Drop` | the file system |
| `pcap_input.rs` `PcapSource` | format, the reader's interface table | `open`, `next_packet`, `parse_tcp_frame` | standard input |
| `lua/` `LuaEngine` | port registry; per call a tree of recorded fields, shared by reference with the script's handles | `load_plugin_file`, `dissect`, `tree:add`, `tvb(offset, length)` | scripts |
| `plugin_loader.rs` | none | `load_directory`, `load_scripts` | the file system, `LuaEngine` |
| `ek_output.rs` `EkWriter`, `NdjsonWriter` | the selected fields and options | `write_message`, `write_tls_record`, `write_packet_event` | called by `main.rs` |
| `main.rs` | the loop, two outputs, packet number | validate, load, open, read, `process_frame`, write, finish | all |
| `memstats.rs` | none | one number for a log line | |

What is hard, and the property that would catch it going wrong, is listed line by
line under `hazards` in `PROJECT.json`. In short:

* **reordering and overlap**: segments filed at different offsets become redundant
  while the buffer drains; bytes must come out once, in order, or be reported lost;
* **wrap-around**: 32-bit sequence numbers against 64-bit offsets;
* **lifetimes**: an entry is made by any frame and removed by FIN, RST or idleness;
  frames go on arriving after the close, and ports are used again;
* **keys that come late, or half written**, while records are consumed at once;
* **counters in step with the peer**: one wrong advance and a direction is lost;
* **partial failure**: one direction is given up and the other goes on; a rotation
  is three I/O calls, each of which may fail; two outputs are fed by one loop;
* **sharing**: a script keeps handles to subtrees of a message that is not yet
  written;
* **restart**: the chunk counter begins again on a prefix whose chunks are being
  uploaded; the endpoint begins its key log again while connections go on;
* **arithmetic done by hand**: dates, clock resolutions, nested byte ranges.

## 2. Modules

| Module | Models | Built on |
|---|---|---|
| `PendingBuffer` | the out-of-order buffer, and what its two loops compute | |
| `StreamReassembler` | `reassembly.rs`, and its refinement of `LosslessStream` | `PendingBuffer` |
| `PendingLoops`, `MCPendingLoops` | those loops one iteration per step | `StreamReassembler` |
| `LosslessStream` | abstract: what a reassembler promises its reader | |
| `MCLongStream` | a long stream under the friendliest capture | `StreamReassembler` |
| `TlsConnection`, `MCTlsConnection` | `connection.rs`, the classification of records in `drain_records`, keylog lookups | |
| `KeylogSource` | `keylog_source.rs` beside the writing process | |
| `Orchestrator`, `MCOrchestrator` | `orchestrator.rs` | |
| `TcpTeardown` | the orchestrator under complete, orderly TCP connections | `Orchestrator` |
| `RotatingGzWriter`, `MCRotatingGzWriter` | `rotation.rs` over several processes on one prefix | |
| `Dissection`, `MCDissection` | `lua/tree.rs`, `LuaEngine::dissect`, the message of `dissect_and_emit`, both writers of `ek_output.rs` | |
| `PluginLoader` | `plugin_loader.rs`, `lua/dissector_table.rs` | |
| `CaptureLoop`, `MCCaptureLoop` | `main.rs` from command line to exit, `pcap_input.rs` | `PluginLoader` |
| `Conversions`, `MCConversions` | `civil_from_days`, `correct_epb_timestamp`, the slices of `lua/tvb.rs` | |
| `FoldLemmas` | sums over sets and sequences, for the proofs | |
| `StreamReassembler_proofs` (with `PendingLoops`), `TlsConnection_proofs` (with `KeylogSource`), `Orchestrator_proofs`, `RotatingGzWriter_proofs`, `Dissection_proofs`, `CaptureLoop_proofs`, `Conversions_proofs` | the proofs, section 4 | the module they are named after |

A module without an `MC` module of its own needs no definitions for its constants,
and its `.cfg` runs it directly (`MCStreamReassembler.cfg`, `MCKeylogSource.cfg`).

Definitions keep the code's names (`push_relative`, `buffer_pending`,
`mark_desynced`, `poll_after_miss`). Where a mutated form of a definition stands
before it, a comment says "Mutant of ..."; nothing in the specifications uses it.

### StreamReassembler

A byte is its position in the sender's stream, since a retransmission carries the
same bytes. `push(p, n)` is the capture of positions `p .. p+n-1`; TLC and the
proofs let every segment arrive at any time, any number of times or never, which
covers loss, duplication, reordering and re-cutting. `set_isn` may come at any
time (a late or repeated SYN) or never (capture begun mid-connection). Sequence
numbers are taken modulo `SeqSpace`, which stands for 2^32.

`push_relative` keeps the code's four cases. The loops of `drain_pending` and of
the eviction are stated by their result (`DrainedTo`, `ByteAt`, `Survivors`);
`PendingLoops` runs the code's iterations on every small buffer, arbitrary content
included, and checks that they end and reach that result. Time is the age of
`pending_since`, in ticks. `contiguous` is a sequence of bytes; how they are cut
into segments, and which packet each came from, is left out.

The history variables `consumed`, `origin`, `arrived` and `abandoned` record what
the properties compare the state with.

### TlsConnection

The peers' records, in order, and the order in which an endpoint logs its secrets
are fixed by the session: version, suite, HelloRetryRequest, KeyUpdate. The steps
are taking the next record of a direction, a reload that shows a longer prefix
of the key log, and a reload of a file the endpoint has begun again, in which the
secrets of this connection are gone. `derive` and `derive_tls12` say which secrets
key derivation accepts: HKDF one of at least its hash's length, HMAC any. A secret is its length in units of 16 bytes, so that a prefix can
end inside one; hex digits and line syntax are left out. `Opens` is ideal
authenticated decryption. A ciphertext body may or may not look like a hello
(`LooksLike`), because the code tells hellos by one byte and a length. The capture
begins before the connection or after its hellos, and the two directions are drained
in any order: a ServerHello may come before the ClientHello, since each direction
waits for its own segments.

`StaysInSync` and `FirstRecordOpens` speak of every record whose secret the keylog
has whole when it is taken. They name what may yet go wrong: the cached keys of
a TLS 1.2 secret cut short, and a ciphertext taken for the ServerHello after the
real one came too early to be recorded. Both are described in section 3.

### KeylogSource

A reload is a read and then a stat, two steps with the writer between them. The
writer creates the file, appends, or starts it afresh. `mtime` is a coarse clock, so
two writes can share it. Reads may fail.

### Orchestrator

One action per part of `process_frame`: `ProcessFrame` up to the drain, one
`drain_records` step per record, `FinishFrame` for eviction and sweep. `busy` keeps
them in the code's order; time passes only between frames. What the parts
return is open: a push completes any number of records, buffers, discards or
gives up; decrypt gives any result; the dissector consumes any amount, too much
included. `Pushed` is restricted to what `StreamReassembler` can return (data
becomes pending only when it is buffered, a push that gives up completes no record).
`ready` counts the whole records waiting; the bytes of an incomplete record are not
counted. `HasDissector` is a property of the server's port, so it is lost when the
roles are swapped.

`TcpTeardown` replaces the arbitrary frames by SYN, SYN-ACK, data, FIN, FIN and
last ACK, captured whole and in order, and lets the ports be used again.

### RotatingGzWriter

Messages are numbered. A chunk is its path, what its encoder was given and whether
it was finished. Each I/O call may fail, which ends the run through `?` and `Drop`.
At any moment the process may be gone and another be started on the same prefix
(`Restart`): its counter begins at 1, and `File::create` truncates a file that has
the new chunk's path. A path is the counter and the second of `now_stamp`; the
clock does not go back (local time does, once a year, see section 5).

### Dissection

A `FrameFields` is a cell of `heap`; a `Tree` entry names the cell of its subtree,
as `Rc` does. A dissector is any sequence of `tree:add` calls on the handles it
has, those it kept from its earlier calls included. `CloneOut` copies the entries
and not the subtrees, as `fields.borrow().clone()` does. Messages are written when
the frame is done, so a later dissector call of the same frame can still reach the
subtrees of an earlier message. What a field was given is not told apart: an entry
is known by its place in the history `log`, and its kind decides how
`--ndjson-map` treats it. A dotted name is the sequence of its segments.

`write_message` and `write_tls_record` give the keys, values and brackets in the
order in which the code writes them. The properties compare these with `log`.

### PluginLoader and CaptureLoop

`PluginLoader` scans the directories in turn and then loads the scripts. A listing
may miss entries (`entry.ok()`) and is sorted, whatever order it came in; a plugin
registers its ports or fails. `CaptureLoop` runs it as one phase of `main`: options, keylog, plugins,
outputs, capture, then one step per packet or block read, one per item written. The
blocks of a capture are arbitrary: section headers, interface descriptions, packets
that name any interface, others. Reads of the magic number may be short. The
orchestrator is seen through what `process_frame` returns. Every write, finish and
create may fail on either output, and an error of `run` goes through `Drop`.
Options and registry entries that nothing reads any more are reset
(`Consumed`, `BuildOutputs`), which only merges equivalent states.

### Conversions

One variable walks the calendar, the ticks of a clock or nested slices; the
operators are evaluated in every state and compared with a definition by counting:
the next day of the Gregorian calendar, the exact quotient, the offsets added up.

## 3. Runs

| Run | Shows | Bounds, and why they suffice |
|---|---|---|
| `reassembler` | exact delivery, accounting, limits, clock, reporting, refinement of `LosslessStream` | sequence space 8 with the SYN at 5, so numbers wrap inside the stream; stream of 6, payloads up to 3: three-way overlaps, replaced segments and every limit occur |
| `pending_loops` | drain and eviction compute what is stated and terminate | every buffer with keys up to 5 and payloads up to 3, every starting offset up to 4 |
| `orchestrator` | counters, desynchronisation, tails, independence of directions | 4 frames, up to 2 records a push: entry made, closed, made again, both directions desynced |
| `idle_sweep` | nothing but a complete close or idleness removes an entry; the sweep is prompt and everything evicted is counted | 2 connections, timeout and interval 2 ticks, so that both can be swept at once |
| `tls_connection` | counters stay in step, first record opens, only in-sequence records open | 5 sessions covering every algorithm, both versions, HelloRetryRequest, KeyUpdate; 3 application records a side: one opened, one taken for a ServerHello, one after it; a key log that grows by any amount and is begun again |
| `keylog_source` | snapshot never goes back and becomes current | 2 appends, 1 restart, 2 clock ticks: the read/stat race and equal signatures occur |
| `rotation` | order, fullness, completeness and finality of chunks | 6 messages; counts 0 to 3, ages 1 and 2, no rotation; 3 seconds and a second process, so that both share a counter with and without the same second |
| `dissection` | `-e` and NDJSON output show every recorded value of their message, once, in order | 2 records in a frame, 4 adds: two occurrences of a subtree with a name and a value, or three levels; a map at the top, a map inside an exploded group whose leaf is a map field too, an exploded group that is not selected; values read from bytes and formatted by the script |
| `capture_loop` | which plugin wins, which interface a packet has, both outputs follow the capture and are closed, no panic | 4 blocks: two sections, or two interfaces and two packets; every combination of the validated options; 3 directories (one missing) and 2 scripts competing for 2 ports |
| `conversions` | dates, times and byte ranges are right | 146,097 days, a whole cycle; a clock of 3 decimal digits with 2,100 ticks and every resolution up to 5, coarser and finer than its fraction; words of 4 bits, a buffer of 6 bytes, ranges nested to any depth |

Deadlock is checked in `dissection`, whose frames go on for ever, and in
`capture_loop`, where only the end of the process may stop it. In the other
instances the capture, the messages or the keylog come to an end, and the program
then just waits.

Fairness is assumed in two runs. `PendingLoops` has weak fairness of its next
step: a loop that can run another iteration does. `KeylogSource` has weak fairness
of time and of the reader (records keep arriving, so `poll` keeps being called) and
strong fairness of a successful read (reads that are tried again and again do not all
fail): it is what "the actual correctness backstop" in `keylog_source.rs` relies
on.

### Where the code and its documentation disagree

Both of these runs state a claim of the repository; TLC finds a behaviour of the
code that breaks it. The quotation is in the finding.

| Run | Behaviour |
|---|---|
| `long_stream` | after 4 GiB in one direction every segment is discarded as a duplicate |
| `syn_names` | the entry the last ACK of a connection leaves swaps client and server when the ports are used again |

Other disagreements met while modelling, which follow from the modules and have no
run of their own:

* `reassembly.rs:261`: when the first of two gaps closes, the second keeps its
  `pending_since`, against the comment at 108-111 ("rather than inheriting an old
  timestamp"); a segment that waited no time can be abandoned by age (`deliver`,
  `AbandonAged`).
* `connection.rs:320`: a record long enough to hold a tag that fails under every
  available key is `NoKey`, never `AuthFailed` as 147-148 says (`decrypt_tls12`).
* `orchestrator.rs:612`: the ClientKeyExchange or ServerHelloDone of TLS 1.2, and the
  second hellos after a HelloRetryRequest, are plaintext and counted as `nokey`,
  which 313 says is "real ciphertext" (`TakeCiphertext`).
* `orchestrator.rs:570`: the hello test ignores the record's content type and holds
  for every record until a hello was found, so in a capture begun mid-connection
  ciphertext may be taken for the ClientHello (`TakeClientHello`).
* `orchestrator.rs:584-599`: a record taken for the ServerHello is "genuinely the
  connection's one ServerHello record", which is "always the first s2c record", "not a
  later record whose plaintext coincidentally matched" (589-594). Only the first record
  after the ClientHello is known qualifies. When the ClientHello's segments were reordered
  or retransmitted, the ServerHello is drained first, finds no state and is counted as
  `no_client_hello` (`TakeWithoutState`). TLS 1.3 still decrypts, because it does not use
  `server_random`, until a ciphertext whose body starts like a ServerHello is taken for it
  (`TakeServerHello`): the record is dropped, its sequence number is not counted, and
  every later record under that secret is `NoKey`. It can happen once in a
  connection, and is the exception (`TakenForServerHello`) in `StaysInSync` and, when
  the record is the first of its secret, in `FirstRecordOpens`. Under TLS 1.2 nothing
  of such a connection is decrypted.
* `keylog_source.rs:111`: text is read before it is signed; a write in between makes
  `poll_after_miss` skip a reread it needs until the interval elapses
  (`FinishReload`). `EventuallyCurrent` shows that the interval repairs it.
* `orchestrator.rs:521`: the second FIN evicts a connection whose reassembler still
  holds segments behind a gap, without `GapAbandoned` or a counter (`FinishFrame`).
* `orchestrator.rs:635`: a record that finds no key is consumed and its sequence
  counter does not advance, so a direction that missed one record stays `NoKey`
  when the secret arrives; `connection.rs:144-145` says "retry later" (`Log` and
  `decrypt_tls12`).
* `connection.rs:111`: a TLS 1.2 master secret read while its line was half written
  is accepted, and the keys derived from it are cached for the connection;
  `keylog_source.rs:107-108` says the next poll makes up for a mid-write read. It is
  the exception (`Poisoned`) in `FirstRecordOpens`.
* `orchestrator.rs:453`: the ACK of the second FIN makes an entry that no frame
  removes; "connection state must never grow without bound" (3-4) then rests on the
  idle timeout, which is off by default (`TcpTeardown`).
* `lua/tree.rs:200-209`: `tree:add(field, UInt64.new(v))` records 0, because the
  wrapper alone is taken for a range; 178 documents `tree:add(protofield, value)` and
  261-265 that the shim accepts the wrapper (`ValueOf`).
* `lua/tree.rs:123-125` and line 198 of the README of tlscap describe one flat log in
  encounter order; values come out depth first, in the order of the subtrees, not of
  the calls (`values_for`, `SiblingsInOrder`).

Behaviour that contradicts nothing written down but that a user may not expect:

* `--ndjson-explode` of a group that `-e` does not select writes one identical line
  for each of its occurrences (`write_tls_record`).
* Two names of one subtree that are equal after their prefix is stripped become the
  same JSON key twice (`write_frame_fields_object`).
* `--ndjson-map` drops an occurrence whose `value` is missing or is not a string, not
  only one without `name` (`write_map`).
* A read error in the middle of a capture ends as a clean shutdown with status 0
  (`EndOfCapture`).
* A directory entry that cannot be read is skipped without a word (`load_directory`).
* Negative arguments of `tvb(offset, length)` can wrap past the bounds check of
  `slice` in a build without overflow checks; `RangesReadOwnBytes` speaks of the others.
* A decimal resolution finer than a nanosecond gives times that are too late
  (`TimeIsExact`).
* A process started in the second in which another created its chunk of the same
  number truncates that chunk (the exception in `FinishedIsFinal`).

## 4. Proofs

Every theorem below is checked by TLAPS and holds for every value of the constants
that the assumptions allow. These say no more than the code does: sizes, limits
and intervals are natural numbers (those the code divides by or counts in are not
zero), the sets of sessions, options and flags are sets of such things, and `None`
is none of the values it is the absence of. The bounds that keep TLC's instances
finite (`MaxFrames`, `MaxRecords`, `StreamLen` and the like) are arbitrary numbers
in the proofs. One theorem is listed in `PROJECT.json` for each property that a run
checks and the proofs reach.

### The reassembler

At the end of `StreamReassembler_proofs` are the code's loops. `DrainIsTheRun` and
`EvictionKeepsTop` say that the iterations of `drain_pending` and of the eviction
end with what `PendingBuffer` states (`DrainedTo`, `ByteAt`, `Survivors`), for
every buffer, whatever overlaps and is redundant in it. What was removed always
lies below what is left (`Common`). The invariant of the drain (`DrainInv`) is that
the bytes delivered so far are the run up to `next_expected`, and that every segment
removed ends there or before; of the eviction (`EvictInv`), that the bytes removed
were counted and that no larger upper part would have fitted.

They justify the operators by which `push` is modelled; of that:

* `TypeCorrect`, `LimitsHold`, `ClockMatchesGap`: with no bound on the stream.
  `LimitsHold` needs that `pending_len` is the sum of the payloads buffered (`Within`),
  kept when a segment is replaced, drained or evicted.
* `ExactDelivery`, `NoByteSilentlyLost`, `PendingBehindRealGap`, `LossesReported`
  and `ReassemblerIsLossless`, for `StreamLen < SeqSpace` (`NoWrap`), which cannot be
  dropped: run `long_stream` is the counterexample.

`DeliversExactStream` is not inductive. That a drained byte is the right one
depends on where its segment was filed, and that depends on the anchor. The
invariant adds

* `Anchored`: `base_seq` is the sequence number of `origin`, there is nothing in
  the reassembler before it is set, and delivery stays inside the stream;
* `InPlace`: each pending segment is at the offset of its first byte, and ahead of
  `next_expected`. A segment from before the anchor is at an offset near the top of
  the sequence space, which under `NoWrap` no drain reaches.

The argument: `RelativeIsOffset` shows that the wrapping subtraction gives that
offset; `DrainedToIsFirstGap` and `DrainStaysInStream` that the drain ends inside
the stream; `DrainedIsDelivered` and `ConcatConsecutive` that it appends consecutive
bytes; `DeliverExtends`, `BufferExtends` and `DiscardExtends` then treat the three
results of a push, and `PushKeepsInv` puts them together. Byte accounting goes
through `Held`: a byte leaves the buffer only by being delivered or by an abandoned
gap.

`ReassemblerIsLossless` is the refinement: the initial state maps to the initial
state of `LosslessStream`, a push that delivers releases the longest complete run
(`DeliverReleases`), one that does not either holds its bytes or gives some up and
says so (`BufferHoldsOrGivesUp`), and the other steps stutter. `LossesReported` adds
that what is reported is at least what is forgotten; it compares a number of bytes
with a sum of payloads that may overlap.

### The orchestrator

* `TypeCorrect`, `RecordsSorted`, `NoEntryLost`, `DesyncedStaysEmpty`,
  `DesyncsCounted`, `NoPlaintextLost`: invariants;
* `LiveEntriesStay`, `OtherDirectionUntouched`, `SweepBounded`: what one step may do.

The accounting theorems are sums over the table, or over both directions of every
entry, and each step changes one summand or removes some of them. What makes them
inductive is `ReadyWhileBusy`: whole records wait only in the direction whose frame
is being processed, so that a direction given up has none. `SweepBounded` needs
that an entry is older than the timeout by less than the time since the last sweep
(`IdleBehindSweep`): an entry the sweep kept was younger than the timeout then.

### Decryption state

`OpensInSequence`, `NeverOutOfStep` and `WholeSecretOpens` hold for every session, any
number of records, and reloads and restarts of the key log at any moment. The
proof first gives the shape of what a peer sends (`Shape12`, `Shape13`: under each
secret the numbers 0, 1, 2, ... in order). The invariant then says what the cache may
hold (`CacheSound`: keys of a secret that was logged, and under TLS 1.3 only of a
whole one), that a secret which has opened a record is cached and whole
(`UsedIsCached`), and that a counter past 0 has counted every record of its secret
taken so far, up to one taken for a ServerHello (`InStep`). The last is the heart: a
counter at 0 may have missed records, and then it never advances. That such a loss
implies that no ServerHello was recorded is `HelloUnknown`; that it comes after the
records that opened is `OpenedInOrder`.

### Key log

At the end of `TlsConnection_proofs`. `ReloadsOrdered` is the invariant behind `SnapshotNeverGoesBack`: snapshot, text being
read and file are in this order of age. The text in hand has to be ordered with
both, since the writer may start the file again between read and stat.

### Rotated output

`NothingLostOrRepeated`, `CountIsExact`, `ClosedChunksWhole` and `FinishedStay`, in
every mode and over any number of processes. The invariant adds that the open chunk
is the last one made and holds what `messages_written` says (`OpenIsLast`), and that
no chunk of an earlier process is stamped later than the second this one started in
(`StampsInPast`). A new path can then equal an old one only in that second.

### Main loop

* `PanicsUnreachable`: the `unreachable!()` arms are not reached, because past the
  validation the command line is an accepted one and events are queued only for a
  packet log that exists (`LogIsNdjson`).
* `NoChunkLeftOpen`: through success, error and `Drop` (`ChunksTracked`, `NotEnded`).
* `FramesReadAsDeclared`: the reader's table is what the current section has described
  so far and the index is the number of packets read, at every moment (`History`).
* `OutputsInStep`: what waits in the queue is the rest of what was produced, and the
  log has an event of every TCP frame but perhaps the last (`Delivery`).
* `PluginOrderDecides`: while a directory is loaded, its plugins that are left come
  after those loaded, and a port is an earlier directory's until one that was loaded
  registers it (`Loading`).

### Dissection

`EkComplete` is about a recursion (`values_for`) over a heap that scripts build in
any order, also through handles they kept. `Dissection_proofs` reads the `log` of
adds as a forest: an add made on the accumulator that another add made is below it
(`Forest`), and `Reach(S)` is the least set closed under this that holds `S`. The
heap follows the log (`HeapFollowsLog`): an accumulator holds the adds made on it,
in order, and a subtree has a greater number than what it is in. So the recursion
is defined (`CollectsExist`, by the rank of a cell), and lists what an entry
reaches (`ValuesListed`), siblings in the order recorded. The copies are what needs
the rest of the invariant: a tree whose dissector still runs has only adds of that
dissector (`RootOwn`), and a message has a copy of what was on its tree when its
dissector returned, which none can add to any more (`MessagesCopied`). The adds below
that belong to the message (`AddsAreReached`), whenever they were made. The line is
then laid out key by key (`EkLine`), and `FlattenSeq` is characterised by the places of
its parts (`FlattenPlaces`).

`NdjsonComplete` and `SiblingsOrdered` are about the second writer, which groups, nests,
collapses and splits on the way. What a piece of a line has is `Shows(T, line, S)`: the
values are `S`, each once, siblings in order. Pieces written one after another show
the union of theirs (`ShowsAll`) if what one has may stand before what the next has
(`Separate`), which adds below different entries always may (`KeptApart`). On the side
of the log, what `--ndjson-map` leaves below an add follows the code's recursion: a leaf
itself, a subtree what is left of its adds, a collapsed occurrence its last name
and last value (`KeptOfLeaf`, `KeptOfTree`, `KeptOfCollapsed`), and seen from the top it
is what `Kept` says (`KeptFromTop`). The groups are the names, each once, with
their entries in order (`GroupsAre`, from `KeptPlaces`). By rank every object shows what
is left below its add (`AllDone`), and so does every group and line (`GroupShows`,
`LineShows`); `RecordIs` and `MessageShows` make the lines of a message of them. The
invariant needs one thing more: the tree a dissector was called with is in no other
tree (`RootsAtTop`), or a message's groups would not be what its tree has. The
one assumption is that no plugin's name is the absent `--ndjson-explode` (`None`).

### Conversions

* `GregorianDates`: `civil_from_days` is right for every day from 1970 on. A day's
  place in its era of 400 years is centuries, spans of four years, years and days
  (`YearAtPlace`, `CivilAtPlace`), and the date after it is the next of the calendar
  (`NextCivil`) beginning with the first of January 1970 (`Epoch`).
* `ExactTimes`: for every tick count and resolution the code accepts. The quotient
  is scaled without loss (`ScaledQuotient`, `BinaryTime`, `DecimalTime`).
* `RangesRead`: a range cut from ranges reads its own bytes (`SliceInside`, `RangesNest`),
  first byte most significant or least (`BigEndian`, `LittleEndian`).

Powers and sums are functions whose existence is proved (`PowAdd`, `SumIsNumber`); the
assumptions are that digits, resolutions, words and bytes are numbers of the sizes the
code has.

### Sums, and what is left to TLC

Sums and joins are folds of the community modules. `FoldLemmas` characterises them
without induction over an operator, which the provers cannot instantiate: a claim
about every prefix is refuted by its least counterexample, which is a fact about
a set of natural numbers.

Model-checked only:

* `LoopsTerminate` and `EventuallyCurrent`: liveness under fairness is outside the
  proof system.

## 5. Not modelled

* Cryptographic computation: ideal here, and tested against rustls in the
  repository.
* Key log line syntax and hex decoding; JSON escaping and the rendering of a value;
  command-line syntax; TCP/IP header parsing, which a library does.
* `pinfo`, `add_expert_info`: recorded in `FrameFields`, and read by no writer.
* `maybe_gc_lua`, `log_stats`, `memstats.rs`: they change nothing the program uses.
* The fields a packet event copies from the frame, and its fixed line.
* The cutting of delivered bytes into records: a count of whole records stands for
  it in `Orchestrator`.
* A clock that goes back: chunk names use local time, which repeats an hour once a
  year.

## 6. What is left

Every part that keeps state or decides the control flow is modelled and checked, and
proved as far as section 4 says. Worth doing next:

1. `TcpTeardown`: that an entry left by the last ACK is the only one a complete
   connection leaves.
2. The `Orchestrator` with the reassembler's promise as an assumption of its
   `Pushed`, instead of the restriction stated there.
