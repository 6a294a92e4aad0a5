---------------------------- MODULE CaptureLoop -----------------------------
(***************************************************************************)
(* The program from its command line to its exit (main.rs): the options    *)
(* are validated, the keylog opened, the plugins loaded (PluginLoader),    *)
(* the outputs built and the capture opened; then packets are read         *)
(* (pcap_input.rs), every TCP frame is handed to the orchestrator, and its *)
(* event and its messages are written to the two outputs.                  *)
(*                                                                         *)
(* The orchestrator is seen through what process_frame returns: the        *)
(* frame's event and some messages.  An output is a sequence of items and  *)
(* a chunk that is open or not; which items share a chunk is the subject   *)
(* of RotatingGzWriter.                                                    *)
(***************************************************************************)
EXTENDS PluginLoader

CONSTANTS
    Clis,           \* the command lines considered
    LinkTypes,      \* link types of the capture
    Resolutions,    \* if_tsresol values, None if the option is absent
    MaxInterfaces,  \* bound: interface ids a packet may name
    MaxBlocks,      \* bound: blocks or packets of the capture
    MaxMessages     \* bound: messages one frame yields

\* The options that decide the control flow.
Cli == [format : {"ek", "ndjson", "json"}, rotate_count : BOOLEAN, rotate_seconds : BOOLEAN,
        packet_log : {None, "-", "prefix"}, ndjson_explode : BOOLEAN, ndjson_map : BOOLEAN,
        compress : {None, "gzip", "zstd"}, keylog : BOOLEAN, output : {"-", "prefix"}]

ASSUME CliAssumption == Clis \subseteq Cli
ASSUME CaptureAssumption ==
    MaxInterfaces \in Nat /\ MaxBlocks \in Nat /\ MaxMessages \in Nat
ASSUME StatusAssumption == None \notin {"0", "1", "2", "panic"}

VARIABLES
    cli,
    phase,        \* "main", "keylog", "plugins", "build", "open", "read", "write",
                  \* "finish", "drop", "exit"
    status,       \* None, the exit status, or "panic"
    magic,        \* bytes of the magic number read so far
    source,       \* None, "PcapNg", or the link type of a classic pcap
    interfaces,   \* the pcapng reader's table: Seq of [link_type, if_tsresol]
    packet_index,
    outputs,      \* {"output"}, with "packet_output" if there is a packet log
    queue,        \* what is left to write for the frame at hand
    chunk,        \* the outputs that have a chunk open
    written,      \* output -> what was written to it
    blocks,       \* history: the blocks of the capture so far
    produced,     \* history: the messages process_frame returned
    broken        \* history: [failed, truncated], the outputs on which a call failed,
                  \* and those left with an incomplete chunk

inputVars == <<magic, source, interfaces, packet_index, blocks>>
outputVars == <<outputs, queue, chunk, written, produced, broken>>
vars == <<cli, phase, status, inputVars, outputVars, loaderVars>>

Init ==
    /\ cli \in Clis
    /\ phase = "main"
    /\ status = None
    /\ magic = 0
    /\ source = None
    /\ interfaces = << >>
    /\ packet_index = 0
    /\ outputs = {}
    /\ queue = << >>
    /\ chunk = {}
    /\ written = [o \in {"output", "packet_output"} |-> << >>]
    /\ blocks = << >>
    /\ produced = << >>
    /\ broken = [failed |-> {}, truncated |-> {}]
    /\ LoaderInit

Exit(code) == phase' = "exit" /\ status' = code
Go(next) == phase' = next /\ UNCHANGED status

-----------------------------------------------------------------------------
(* main and the first half of run.                                         *)

\* Mutant of Refused: the check of --packet-log is missing.
RefusedLess ==
    \/ cli.rotate_count /\ cli.rotate_seconds
    \/ cli.format \notin {"ek", "ndjson"}
    \/ (cli.ndjson_explode \/ cli.ndjson_map) /\ cli.format # "ndjson"
    \/ cli.compress \notin {None, "gzip"}

Refused ==
    \/ cli.rotate_count /\ cli.rotate_seconds
    \/ cli.format \notin {"ek", "ndjson"}
    \/ cli.packet_log # None /\ cli.format # "ndjson"
    \/ (cli.ndjson_explode \/ cli.ndjson_map) /\ cli.format # "ndjson"
    \/ cli.compress \notin {None, "gzip"}

Validate ==
    /\ phase = "main"
    /\ IF Refused THEN Exit("2") ELSE Go("keylog")
    /\ UNCHANGED <<cli, inputVars, outputVars, loaderVars>>

\* KeylogSource::open may fail; without --keylog there is nothing to open.
OpenKeylog ==
    /\ phase = "keylog"
    /\ Go("plugins") \/ (cli.keylog /\ Exit("1"))
    /\ UNCHANGED <<cli, inputVars, outputVars, loaderVars>>

LoadPlugins ==
    /\ phase = "plugins"
    /\ load = "running"
    /\ LoaderNext
    /\ UNCHANGED <<cli, phase, status, inputVars, outputVars>>

PluginsLoaded ==
    /\ phase = "plugins"
    /\ load # "running"
    /\ IF load = "failed" THEN Exit("1") ELSE Go("build")
    /\ UNCHANGED <<cli, inputVars, outputVars, loaderVars>>

\* The options that are read again.
Consumed ==
    [cli EXCEPT !.keylog = FALSE, !.ndjson_explode = FALSE, !.ndjson_map = FALSE,
                !.compress = None]

\* The rotation policy and the outputs; no file is created yet.  The Lua engine
\* and its registry have moved into the orchestrator, and nothing loads a plugin
\* any more.
BuildOutputs ==
    /\ phase = "build"
    /\ IF cli.rotate_count /\ cli.rotate_seconds
       THEN Exit("panic") /\ UNCHANGED outputs
       ELSE /\ Go("open")
            /\ outputs' = {"output"} \union
                  IF cli.packet_log # None THEN {"packet_output"} ELSE {}
    /\ cli' = Consumed
    /\ dirs_read' = Scripts /\ paths' = << >> /\ listed' = << >> /\ load' = "moved"
    /\ tls_port_registry' = [p \in Ports |-> None]
    /\ UNCHANGED <<inputVars, queue, chunk, written, produced, broken>>

-----------------------------------------------------------------------------
(* pcap_input::open and next_packet.                                       *)

\* A read of the magic number may return fewer bytes than asked for.
ReadMagic ==
    /\ phase = "open"
    /\ magic < 4
    /\ \/ \E n \in 1 .. 4 - magic : magic' = magic + n /\ UNCHANGED <<phase, status>>
       \/ Exit("1") /\ UNCHANGED magic
    /\ UNCHANGED <<cli, source, interfaces, packet_index, blocks, outputVars, loaderVars>>

\* A classic pcap has one link type, a pcapng begins with a section header;
\* another magic number, or a header that does not parse, ends the program.
OpenCapture ==
    /\ phase = "open"
    /\ magic = 4
    /\ \/ source' \in LinkTypes \union {"PcapNg"} /\ Go("read")
       \/ Exit("1") /\ UNCHANGED source
    /\ UNCHANGED <<cli, magic, interfaces, packet_index, blocks, outputVars, loaderVars>>

\* PcapNgReader keeps the table: a section header empties it, an interface
\* description extends it.
InterfacesAfter(block) ==
    CASE block.type = "SectionHeader" -> << >>
      [] block.type = "InterfaceDescription" ->
            Append(interfaces, [link_type |-> block.link_type, if_tsresol |-> block.if_tsresol])
      [] OTHER -> interfaces

\* Mutant of InterfaceOf: one interface per capture, as in classic pcap.
FirstInterface(id) ==
    IF interfaces # << >> THEN interfaces[1]
    ELSE [link_type |-> "ETHERNET", if_tsresol |-> None]

\* reader.interfaces().get(interface_id), and what is assumed without it.
InterfaceOf(id) ==
    IF id < Len(interfaces) THEN interfaces[id + 1]
    ELSE [link_type |-> "ETHERNET", if_tsresol |-> None]

SupportedLinks == {"ETHERNET", "LINUX_SLL", "LINUX_SLL2", "RAW", "NULL", "LOOP"}

\* data says what the bytes hold, past the header of their link type.
parse_tcp_frame(link_type, data) == link_type \in SupportedLinks /\ data = "tcp"

\* What process_frame returns of a frame: its event, and its messages, which all
\* carry the time of this frame.
PacketEvent(frame) == [to |-> "packet_output", item |-> [frame |-> frame, n |-> 0]]
DecodedMessage(frame, n) == [to |-> "output", item |-> [frame |-> frame, n |-> n]]

\* Mutant of Writes: the messages of a frame before its event.
WritesReversed(frame, messages) ==
    messages \o IF "packet_output" \in outputs THEN <<PacketEvent(frame)>> ELSE << >>

\* What the loop writes for a frame, in its order.
Writes(frame, messages) ==
    (IF "packet_output" \in outputs THEN <<PacketEvent(frame)>> ELSE << >>) \o messages

\* A packet was read: it is counted, and a TCP frame is processed.
Packet(data, link_type, if_tsresol) ==
    /\ packet_index' = packet_index + 1
    /\ IF parse_tcp_frame(link_type, data)
       THEN \E k \in 0 .. MaxMessages :
               LET frame == [index |-> packet_index, link_type |-> link_type,
                             if_tsresol |-> if_tsresol]
                   messages == [n \in 1 .. k |-> DecodedMessage(frame, n)]
               IN  /\ queue' = Writes(frame, messages)
                   /\ produced' = produced \o [n \in 1 .. k |-> messages[n].item]
                   /\ Go("write")
       ELSE UNCHANGED <<phase, status, queue, produced>>

NextPcapPacket ==
    /\ phase = "read"
    /\ source \in LinkTypes
    /\ Len(blocks) < MaxBlocks
    /\ \E data \in {"tcp", "other"} :
          /\ blocks' = Append(blocks, [type |-> "Packet", data |-> data])
          /\ Packet(data, source, None)
    /\ UNCHANGED <<cli, magic, source, interfaces, outputs, chunk, written, broken, loaderVars>>

\* Enhanced packets are returned, every other block is skipped; one that holds
\* a packet all the same (a simple packet block) is among the other ones.
NextBlock ==
    /\ phase = "read"
    /\ source = "PcapNg"
    /\ Len(blocks) < MaxBlocks
    /\ \E block \in [type : {"SectionHeader", "Other"}]
                    \union [type : {"InterfaceDescription"}, link_type : LinkTypes,
                            if_tsresol : Resolutions]
                    \union [type : {"EnhancedPacket"}, id : 0 .. MaxInterfaces - 1,
                            data : {"tcp", "other"}] :
          /\ blocks' = Append(blocks, block)
          /\ interfaces' = InterfacesAfter(block)
          /\ IF block.type = "EnhancedPacket"
             THEN LET interface == InterfaceOf(block.id)
                  IN  Packet(block.data, interface.link_type, interface.if_tsresol)
             ELSE UNCHANGED <<packet_index, phase, status, queue, produced>>
    /\ UNCHANGED <<cli, magic, source, outputs, chunk, written, broken, loaderVars>>

\* End of input, and a read error, which is only logged.
EndOfCapture ==
    /\ phase = "read"
    /\ Go("finish")
    /\ UNCHANGED <<cli, inputVars, outputVars, loaderVars>>

-----------------------------------------------------------------------------
(* Writing the outputs.                                                    *)

\* Output::new: a prefix is a file, whose first write opens a chunk; "-" is stdout.
Chunked(o) == (IF o = "output" THEN cli.output ELSE cli.packet_log) # "-"

Failed(o, truncated) ==
    /\ broken' = [failed |-> broken.failed \union {o},
                  truncated |-> broken.truncated \union truncated]
    /\ Go("drop")

\* The next event or message; MessageWriter::Ek has no packet events.
WriteNext ==
    /\ phase = "write"
    /\ queue # << >>
    /\ LET o == Head(queue).to
       IN  IF o = "packet_output" /\ cli.format = "ek"
           THEN Exit("panic") /\ UNCHANGED <<queue, chunk, written, broken>>
           ELSE /\ queue' = Tail(queue)
                /\ written' = [written EXCEPT ![o] = Append(@, Head(queue).item)]
                /\ chunk' = IF Chunked(o) THEN chunk \union {o} ELSE chunk
                /\ UNCHANGED <<phase, status, broken>>
    /\ UNCHANGED <<cli, inputVars, outputs, produced, loaderVars>>

\* Output::write fails: the open chunk could not be finished at a rotation, the
\* next one could not be created, or the bytes could not be written.
WriteFails ==
    /\ phase = "write"
    /\ queue # << >>
    /\ LET o == Head(queue).to
       IN  \/ /\ o \in chunk /\ (cli.rotate_count \/ cli.rotate_seconds)
              /\ chunk' = chunk \ {o}
              /\ Failed(o, {o}) \/ Failed(o, {})
           \/ /\ chunk' = IF Chunked(o) THEN chunk \union {o} ELSE chunk
              /\ Failed(o, {})
           \/ o \notin chunk /\ Failed(o, {}) /\ UNCHANGED chunk
    /\ UNCHANGED <<cli, inputVars, outputs, queue, written, produced, loaderVars>>

FrameWritten ==
    /\ phase = "write"
    /\ queue = << >>
    /\ Go("read")
    /\ UNCHANGED <<cli, inputVars, outputVars, loaderVars>>

\* Output::finish can fail: there is a chunk to finish, or stdout to flush.
MayFail(o) == o \in outputs /\ (o \in chunk \/ ~Chunked(o))

\* output.finish()?, then packet_output.finish()?: the first that fails ends run.
FinishOutputs ==
    /\ phase = "finish"
    /\ \/ chunk' = {} /\ Exit("0") /\ UNCHANGED broken
       \/ /\ MayFail("output")
          /\ chunk' = chunk \ {"output"}
          /\ Failed("output", chunk \intersect {"output"})
       \/ /\ MayFail("packet_output")
          /\ chunk' = {}
          /\ Failed("packet_output", chunk \intersect {"packet_output"})
    /\ UNCHANGED <<cli, inputVars, outputs, queue, written, produced, loaderVars>>

\* Mutant of Drop: the encoders are dropped without finish_current.
DropUnfinished == UNCHANGED <<chunk, broken>>

\* Drop of the outputs finishes what is open, ignoring a failure.
Drop ==
    /\ chunk' = {}
    /\ \E lost \in SUBSET chunk :
          broken' = [failed |-> broken.failed \union lost,
                     truncated |-> broken.truncated \union lost]

\* run returns its error to main.
RunFails ==
    /\ phase = "drop"
    /\ Drop
    /\ Exit("1")
    /\ UNCHANGED <<cli, inputVars, outputs, queue, written, produced, loaderVars>>

Exited == phase = "exit" /\ UNCHANGED vars

Next ==
    \/ Validate \/ OpenKeylog \/ LoadPlugins \/ PluginsLoaded \/ BuildOutputs
    \/ ReadMagic \/ OpenCapture \/ NextPcapPacket \/ NextBlock \/ EndOfCapture
    \/ WriteNext \/ WriteFails \/ FrameWritten \/ FinishOutputs \/ RunFails
    \/ Exited

Spec == Init /\ [][Next]_vars

-----------------------------------------------------------------------------
(* Properties, stated on the blocks of the capture.                        *)

IsPacket(b) == blocks[b].type \in {"Packet", "EnhancedPacket"}

\* The interfaces described in the section of block b of a capture, up to b.
Described(capture, b) ==
    {i \in 1 .. b : /\ capture[i].type = "InterfaceDescription"
                    /\ \A s \in i .. b : capture[s].type # "SectionHeader"}

\* The block that describes the interface a packet block names, 0 if none does.
Description(capture, b) ==
    LET own == {i \in Described(capture, b) :
                   Cardinality({j \in Described(capture, b) : j < i}) = capture[b].id}
    IN  IF own = {} THEN 0 ELSE CHOOSE i \in own : TRUE

\* The interface of a packet: that which its section described at its id.
Declared(b) ==
    LET i == Description(blocks, b)
    IN  IF blocks[b].type = "Packet" THEN [link_type |-> source, if_tsresol |-> None]
        ELSE IF i = 0 THEN [link_type |-> "ETHERNET", if_tsresol |-> None]
        ELSE [link_type |-> blocks[i].link_type, if_tsresol |-> blocks[i].if_tsresol]

\* The blocks that hold a TCP frame, and the numbers of those frames.
IsTcp(b) == IsPacket(b) /\ blocks[b].data = "tcp" /\ Declared(b).link_type \in SupportedLinks
Number(b) == Cardinality({c \in 1 .. b - 1 : IsPacket(c)})
TcpNumbers == {Number(b) : b \in {c \in DOMAIN blocks : IsTcp(c)}}
Latest(number) == number \in TcpNumbers /\ \A m \in TcpNumbers : m <= number

\* Every message is of a TCP frame of the capture, read with the link type and
\* the time resolution of that packet's own interface in its own section, and
\* under its number in the capture: neither an interface of an earlier section
\* nor the blocks and frames skipped shift them (next_packet).
OwnInterface ==
    \A i \in DOMAIN produced : \E b \in DOMAIN blocks :
        /\ IsTcp(b)
        /\ produced[i].frame.index = Number(b)
        /\ produced[i].frame.link_type = Declared(b).link_type
        /\ produced[i].frame.if_tsresol = Declared(b).if_tsresol

\* The packet log has one event for every TCP frame of the capture in its order,
\* and the output the messages of all of them in theirs; whatever fails, the two
\* differ from the capture and from each other by no more than the last frame,
\* none of whose messages is written before its event; after exit status 0
\* nothing is missing.
OutputsFollowCapture ==
    LET Logged(n) == written["packet_output"][n].frame.index
        logged == DOMAIN written["packet_output"]
        messages == written["output"]
        whole == phase = "exit" /\ status = "0"
    IN  /\ messages = SubSeq(produced, 1, Len(messages))
        /\ \A i \in Len(messages) + 1 .. Len(produced) :
              ~whole /\ Latest(produced[i].frame.index)
        /\ "packet_output" \in outputs =>
              /\ \A n \in logged : Logged(n) \in TcpNumbers
              /\ \A n \in logged : \A m \in 1 .. n - 1 : Logged(m) < Logged(n)
              /\ \A t \in TcpNumbers :
                    (\E n \in logged : Logged(n) = t) \/ (~whole /\ Latest(t))
              /\ \A i \in DOMAIN messages :
                    \E n \in logged : Logged(n) = messages[i].frame.index

\* However the program ends no chunk is left open, and a chunk is left
\* incomplete only on an output that failed itself: a failure of one output does
\* not truncate the other's last chunk (the `?` in run, Drop, finish_current).
ChunksClosedAtExit ==
    phase = "exit" /\ status # "panic" =>
        /\ chunk = {}
        /\ broken.truncated \subseteq broken.failed
        /\ status = "0" => broken.failed = {}

\* No command line that main lets through reaches either unreachable!() (the
\* rotation policy in run, write_packet_event).
NeverPanics == status # "panic"
=============================================================================
