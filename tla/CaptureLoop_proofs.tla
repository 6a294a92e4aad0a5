------------------------- MODULE CaptureLoop_proofs -------------------------
(***************************************************************************)
(* The main loop, for every command line, capture and set of plugins: no   *)
(* panic is reached, no chunk is left open, every frame is read with its   *)
(* own interface, the two outputs follow the capture, and the order of the *)
(* plugins decides who gets a port.                                        *)
(***************************************************************************)
EXTENDS CaptureLoop, FoldLemmas

Outputs == {"output", "packet_output"}

\* Frames, what is written of them, and the writes that are queued.
Frame == [index : Nat, link_type : LinkTypes \union {"ETHERNET"},
          if_tsresol : Resolutions \union {None}]
Item == [frame : Frame, n : Nat]
Queued == [to : Outputs, item : Item]
Interface == [link_type : LinkTypes, if_tsresol : Resolutions]

Typed ==
    /\ cli \in Cli
    /\ source \in LinkTypes \union {"PcapNg", None}
    /\ interfaces \in Seq(Interface)
    /\ packet_index \in Nat
    /\ queue \in Seq(Queued)
    /\ produced \in Seq(Item)
    /\ written \in [Outputs -> Seq(Item)]

\* main let the command line through: it asks for one rotation policy at most,
\* and for a packet log only in the format that has one.
Accepted ==
    /\ ~(cli.rotate_count /\ cli.rotate_seconds)
    /\ cli.packet_log # None => cli.format = "ndjson"

Starting == {"main", "keylog", "plugins", "build", "open"}
Reading == {"open", "read", "write", "finish", "drop"}

\* Past the validation the command line is an accepted one, the packet log exists
\* only if it was asked for, and events are queued only if it exists.
LogIsNdjson ==
    /\ phase \notin {"main", "exit"} =>
          /\ Accepted
          /\ "packet_output" \in outputs => cli.packet_log # None
    /\ phase \in Starting \union {"read"} => queue = << >>
    /\ phase \in Starting \ Reading => outputs = {}
    /\ phase \in Reading => "output" \in outputs
    /\ phase \in Reading => \A i \in DOMAIN queue : queue[i].to \in outputs

\* Chunks are opened while the capture is read; the outputs fail once, and the
\* program then drops them and ends; nothing is left incomplete that did not fail.
ChunksTracked ==
    /\ phase \in Starting \union {"exit"} => chunk = {}
    /\ phase \notin {"drop", "exit"} => broken.failed = {}
    /\ broken.truncated \subseteq broken.failed
    /\ phase = "exit" /\ status = "0" => broken.failed = {}

NotEnded == phase # "exit" => status = None

Inv == Typed /\ LogIsNdjson /\ ChunksTracked /\ NotEnded /\ NeverPanics

\* The program has done nothing yet.
LEMMA Initially == Init => Inv
BY StatusAssumption, CliAssumption
   DEF Init, Inv, Typed, LogIsNdjson, ChunksTracked, NotEnded, NeverPanics, Outputs, Starting, Reading
-----------------------------------------------------------------------------
(* Steps.                                                                  *)

\* The steps before the capture is open.
LEMMA StartKeeps ==
    ASSUME Inv, Validate \/ OpenKeylog \/ LoadPlugins \/ PluginsLoaded \/ ReadMagic \/ OpenCapture
    PROVE  Inv'
<1>0. /\ phase \in Starting /\ status = None /\ chunk = {} /\ broken.failed = {}
      /\ status \notin {"0", "1", "2", "panic"} /\ queue = << >>
  BY StatusAssumption
     DEF Inv, Validate, OpenKeylog, LoadPlugins, PluginsLoaded, ReadMagic, OpenCapture,
         Starting, ChunksTracked, NotEnded, LogIsNdjson
<1>1. /\ UNCHANGED <<cli, interfaces, packet_index, outputs, queue, chunk, written, produced, broken>>
      /\ source' = source \/ source' \in LinkTypes \union {"PcapNg"}
      /\ \/ phase' = "exit" /\ status' \in {"1", "2"}
         \/ /\ status' = status
            /\ \/ phase = "main" /\ phase' = "keylog" /\ ~Refused
               \/ phase' = phase
               \/ phase \in {"keylog", "plugins"} /\ phase' \in {"plugins", "build"}
               \/ phase = "open" /\ phase' = "read"
  <2>1. CASE Validate
    BY <2>1 DEF Validate, Exit, Go, inputVars, outputVars
  <2>2. CASE OpenKeylog
    BY <2>2 DEF OpenKeylog, Exit, Go, inputVars, outputVars
  <2>3. CASE LoadPlugins
    BY <2>3 DEF LoadPlugins, inputVars, outputVars
  <2>4. CASE PluginsLoaded
    BY <2>4 DEF PluginsLoaded, Exit, Go, inputVars, outputVars
  <2>5. CASE ReadMagic
    BY <2>5 DEF ReadMagic, Exit, outputVars
  <2>6. CASE OpenCapture
    BY <2>6 DEF OpenCapture, Exit, Go, outputVars
  <2> QED
    BY <2>1, <2>2, <2>3, <2>4, <2>5, <2>6
<1>2. Typed'
  BY <1>1 DEF Inv, Typed
<1>3. ~Refused => Accepted
  BY DEF Refused, Accepted, Inv, Typed, Cli
<1>4. LogIsNdjson'
  BY <1>0, <1>1, <1>3 DEF Inv, LogIsNdjson, Accepted, Starting, Reading
<1>5. ChunksTracked' /\ NotEnded' /\ NeverPanics'
  BY <1>0, <1>1 DEF Inv, ChunksTracked, NotEnded, NeverPanics, Starting
<1> QED
  BY <1>2, <1>4, <1>5 DEF Inv
\* Building the outputs: main refused the one command line that would panic here.
LEMMA BuildKeeps ==
    ASSUME Inv, BuildOutputs
    PROVE  Inv'
<1>1. /\ phase = "build" /\ Accepted /\ queue = << >> /\ chunk = {} /\ broken.failed = {}
      /\ status = None
  BY DEF BuildOutputs, Inv, LogIsNdjson, ChunksTracked, NotEnded, Starting
<1>2. /\ phase' = "open" /\ status' = status
      /\ outputs' = {"output"} \union IF cli.packet_log # None THEN {"packet_output"} ELSE {}
      /\ cli' = Consumed
      /\ UNCHANGED <<source, interfaces, packet_index, queue, chunk, written, produced, broken>>
  BY <1>1 DEF BuildOutputs, Accepted, Go, inputVars
<1>3. /\ cli' \in Cli /\ cli'.rotate_count = cli.rotate_count
      /\ cli'.rotate_seconds = cli.rotate_seconds
      /\ cli'.packet_log = cli.packet_log /\ cli'.format = cli.format
  BY <1>2 DEF Consumed, Cli, Inv, Typed
<1>4. Typed'
  BY <1>2, <1>3 DEF Inv, Typed
<1>5. LogIsNdjson'
  BY <1>1, <1>2, <1>3 DEF LogIsNdjson, Accepted, Starting, Reading
<1>6. ChunksTracked' /\ NotEnded' /\ NeverPanics'
  BY <1>1, <1>2, StatusAssumption DEF Inv, ChunksTracked, NotEnded, NeverPanics, Starting
<1> QED
  BY <1>4, <1>5, <1>6 DEF Inv

\* A packet that was read: the frame is typed, and its event is queued only where
\* there is a packet log.
LEMMA PacketKeeps ==
    ASSUME Inv, phase = "read",
           NEW data, NEW link_type \in LinkTypes \union {"ETHERNET"},
           NEW if_tsresol \in Resolutions \union {None},
           Packet(data, link_type, if_tsresol)
    PROVE  /\ packet_index' \in Nat /\ queue' \in Seq(Queued) /\ produced' \in Seq(Item)
           /\ \/ phase' = "write"
              \/ phase' = "read" /\ queue' = << >>
           /\ status' = status
           /\ \A i \in DOMAIN queue' : queue'[i].to \in outputs
<1>0. /\ packet_index \in Nat /\ queue = << >> /\ produced \in Seq(Item) /\ "output" \in outputs
      /\ queue \in Seq(Queued)
  BY DEF Inv, Typed, LogIsNdjson, Starting, Reading
<1>1. packet_index' \in Nat
  BY <1>0 DEF Packet
<1>2. CASE ~parse_tcp_frame(link_type, data)
  BY <1>0, <1>1, <1>2 DEF Packet
<1>3. CASE parse_tcp_frame(link_type, data)
  <2> DEFINE frame == [index |-> packet_index, link_type |-> link_type, if_tsresol |-> if_tsresol]
             messages(k) == [n \in 1 .. k |-> DecodedMessage(frame, n)]
             items(k) == [n \in 1 .. k |-> messages(k)[n].item]
  <2>1. PICK k \in 0 .. MaxMessages : /\ queue' = Writes(frame, messages(k))
                                      /\ produced' = produced \o items(k)
                                      /\ phase' = "write" /\ status' = status
    BY <1>3 DEF Packet, Go
  <2>2. frame \in Frame
    BY <1>0 DEF Frame
  <2> HIDE DEF frame
  <2>3. k \in Nat
    BY <2>1, CaptureAssumption
  <2>4. \A n \in 1 .. k : /\ DecodedMessage(frame, n) \in Queued
                          /\ DecodedMessage(frame, n).item \in Item
                          /\ DecodedMessage(frame, n).to = "output"
    BY <2>2, <2>3 DEF DecodedMessage, Queued, Item, Outputs
  <2>5. PacketEvent(frame) \in Queued /\ PacketEvent(frame).to = "packet_output"
    BY <2>2 DEF PacketEvent, Queued, Item, Outputs
  <2>6. /\ messages(k) \in Seq(Queued) /\ Len(messages(k)) = k
        /\ \A n \in 1 .. k : messages(k)[n] = DecodedMessage(frame, n)
        /\ items(k) \in Seq(Item)
    BY <2>3, <2>4
  <2> DEFINE ms == messages(k)
             is == items(k)
  <2> HIDE DEF messages, items
  <2>7. produced' \in Seq(Item)
    BY <1>0, <2>1, <2>6
  <2>8. \A i \in DOMAIN ms : ms[i].to = "output"
    BY <2>3, <2>4, <2>6
  <2>9. queue' \in Seq(Queued) /\ \A i \in DOMAIN queue' : queue'[i].to \in outputs
    <3>1. CASE "packet_output" \in outputs
      <4>1. queue' = <<PacketEvent(frame)>> \o ms
        BY <2>1, <3>1 DEF Writes
      <4> DEFINE e == PacketEvent(frame)
      <4> HIDE DEF e, ms
      <4>2. /\ <<e>> \o ms \in Seq(Queued) /\ Len(<<e>> \o ms) = 1 + Len(ms)
            /\ \A i \in 1 .. 1 + Len(ms) : (<<e>> \o ms)[i] = IF i = 1 THEN e ELSE ms[i - 1]
        BY <2>5, <2>6 DEF e, ms
      <4>3. \A i \in 1 .. 1 + Len(ms) : i # 1 => i - 1 \in DOMAIN ms
        BY <2>6 DEF ms
      <4> QED
        BY <1>0, <2>5, <2>8, <3>1, <4>1, <4>2, <4>3 DEF e
    <3>2. CASE "packet_output" \notin outputs
      <4>1. queue' = << >> \o ms
        BY <2>1, <3>2 DEF Writes
      <4>2. queue' = ms
        BY <2>6, <4>1
      <4> QED
        BY <1>0, <2>6, <2>8, <4>2
    <3> QED
      BY <3>1, <3>2
  <2> QED
    BY <1>1, <2>1, <2>7, <2>9
<1> QED
  BY <1>2, <1>3
\* The steps that read the capture.
LEMMA ReadKeeps ==
    ASSUME Inv, NextPcapPacket \/ NextBlock \/ EndOfCapture
    PROVE  Inv'
<1>0. /\ phase = "read" /\ status = None /\ broken.failed = {} /\ queue = << >>
      /\ "output" \in outputs /\ Accepted
      /\ UNCHANGED <<cli, source, outputs, chunk, written, broken>>
  BY DEF Inv, NextPcapPacket, NextBlock, EndOfCapture, ChunksTracked, NotEnded, LogIsNdjson,
         Starting, Reading, inputVars, outputVars
<1>1. /\ interfaces' \in Seq(Interface) /\ packet_index' \in Nat
      /\ queue' \in Seq(Queued) /\ produced' \in Seq(Item)
      /\ phase' \in {"write", "read", "finish"} /\ status' = status
      /\ phase' # "write" => queue' = << >>
      /\ \A i \in DOMAIN queue' : queue'[i].to \in outputs
  <2>0. /\ interfaces \in Seq(Interface) /\ packet_index \in Nat
        /\ queue \in Seq(Queued) /\ produced \in Seq(Item)
    BY DEF Inv, Typed
  <2>1. CASE NextPcapPacket
    <3>1. PICK data : Packet(data, source, None)
      BY <2>1 DEF NextPcapPacket
    <3>2. source \in LinkTypes \union {"ETHERNET"} /\ interfaces' = interfaces
      BY <2>1 DEF NextPcapPacket
    <3>3. None \in Resolutions \union {None}
      OBVIOUS
    <3> QED
      BY <1>0, <2>0, <3>1, <3>2, <3>3, PacketKeeps
  <2>2. CASE NextBlock
    <3>1. PICK block \in [type : {"SectionHeader", "Other"}]
                         \union [type : {"InterfaceDescription"}, link_type : LinkTypes,
                                 if_tsresol : Resolutions]
                         \union [type : {"EnhancedPacket"}, id : 0 .. MaxInterfaces - 1,
                                 data : {"tcp", "other"}] :
            /\ interfaces' = InterfacesAfter(block)
            /\ IF block.type = "EnhancedPacket"
               THEN Packet(block.data, InterfaceOf(block.id).link_type,
                           InterfaceOf(block.id).if_tsresol)
               ELSE UNCHANGED <<packet_index, phase, status, queue, produced>>
      BY <2>2 DEF NextBlock
    <3>2. interfaces' \in Seq(Interface)
      <4>1. CASE block.type = "SectionHeader"
        BY <3>1, <4>1 DEF InterfacesAfter
      <4>2. CASE block.type = "InterfaceDescription"
        <5>1. PICK i \in Interface : i = [link_type |-> block.link_type, if_tsresol |-> block.if_tsresol]
          BY <3>1, <4>2 DEF Interface
        <5>2. interfaces' = Append(interfaces, i)
          BY <3>1, <4>2, <5>1 DEF InterfacesAfter
        <5> QED
          BY <2>0, <5>2
      <4>3. CASE block.type \notin {"SectionHeader", "InterfaceDescription"}
        BY <2>0, <3>1, <4>3 DEF InterfacesAfter
      <4> QED
        BY <4>1, <4>2, <4>3
    <3>3. CASE block.type = "EnhancedPacket"
      <4>1. block.id \in Nat
        BY <3>1, <3>3, CaptureAssumption
      <4>2. PICK i : i = InterfaceOf(block.id)
        OBVIOUS
      <4>3. i.link_type \in LinkTypes \union {"ETHERNET"} /\ i.if_tsresol \in Resolutions \union {None}
        <5>1. CASE block.id < Len(interfaces)
          <6>1. interfaces[block.id + 1] \in Interface
            BY <2>0, <4>1, <5>1
          <6> QED
            BY <4>2, <5>1, <6>1 DEF InterfaceOf, Interface
        <5>2. CASE ~(block.id < Len(interfaces))
          BY <4>2, <5>2 DEF InterfaceOf
        <5> QED
          BY <5>1, <5>2
      <4> QED
        BY <1>0, <3>1, <3>2, <3>3, <4>2, <4>3, PacketKeeps
    <3>4. CASE block.type # "EnhancedPacket"
      BY <1>0, <2>0, <3>1, <3>2, <3>4
    <3> QED
      BY <3>3, <3>4
  <2>3. CASE EndOfCapture
    BY <1>0, <2>0, <2>3 DEF EndOfCapture, Go, inputVars, outputVars
  <2> QED
    BY <2>1, <2>2, <2>3
<1>2. Typed'
  BY <1>0, <1>1 DEF Inv, Typed
<1>3. LogIsNdjson'
  BY <1>0, <1>1 DEF Inv, LogIsNdjson, Accepted, Starting, Reading
<1>4. ChunksTracked' /\ NotEnded' /\ NeverPanics'
  BY <1>0, <1>1, StatusAssumption DEF Inv, ChunksTracked, NotEnded, NeverPanics, Starting
<1> QED
  BY <1>2, <1>3, <1>4 DEF Inv

\* The steps that write the outputs, fail to, and end the program.
LEMMA WriteKeeps ==
    ASSUME Inv, WriteNext \/ WriteFails \/ FrameWritten \/ FinishOutputs \/ RunFails
    PROVE  Inv'
<1>0. /\ phase \in {"write", "finish", "drop"} /\ status = None /\ "output" \in outputs
      /\ broken.truncated \subseteq broken.failed /\ Accepted
      /\ phase # "drop" => broken.failed = {}
      /\ "packet_output" \in outputs => cli.packet_log # None
      /\ queue \in Seq(Queued) /\ written \in [Outputs -> Seq(Item)]
      /\ \A i \in DOMAIN queue : queue[i].to \in outputs
      /\ UNCHANGED <<cli, source, interfaces, packet_index, outputs, produced>>
  BY DEF Inv, Typed, WriteNext, WriteFails, FrameWritten, FinishOutputs, RunFails,
         ChunksTracked, NotEnded, LogIsNdjson, Reading, inputVars, outputVars
<1>1. CASE WriteNext
  <2> DEFINE o == Head(queue).to
  <2>1. queue # << >> /\ phase = "write"
    BY <1>1 DEF WriteNext
  <2>2. Head(queue) \in Queued /\ Head(queue) = queue[1] /\ 1 \in DOMAIN queue
    BY <1>0, <2>1
  <2>3. o \in outputs /\ o \in Outputs /\ Head(queue).item \in Item
    BY <1>0, <2>2 DEF Queued
  <2>4. ~(o = "packet_output" /\ cli.format = "ek")
    BY <1>0, <2>3 DEF Accepted
  <2>5. /\ queue' = Tail(queue)
        /\ written' = [written EXCEPT ![o] = Append(@, Head(queue).item)]
        /\ phase' = phase /\ status' = status /\ broken' = broken
    BY <1>1, <2>4 DEF WriteNext
  <2>6. queue' \in Seq(Queued) /\ \A i \in DOMAIN queue' : queue'[i].to \in outputs
    <3>1. /\ Tail(queue) \in Seq(Queued) /\ Len(Tail(queue)) = Len(queue) - 1
          /\ \A i \in 1 .. Len(queue) - 1 : Tail(queue)[i] = queue[i + 1]
      BY <1>0, <2>1
    <3>2. \A i \in 1 .. Len(queue) - 1 : i + 1 \in DOMAIN queue
      BY <1>0
    <3> QED
      BY <1>0, <2>5, <3>1, <3>2
  <2>7. written' \in [Outputs -> Seq(Item)]
    <3>0. written[o] \in Seq(Item)
      BY <1>0, <2>3
    <3>1. PICK s \in Seq(Item) : s = Append(written[o], Head(queue).item)
      <4>1. \A w \in Seq(Item), i \in Item : Append(w, i) \in Seq(Item)
        OBVIOUS
      <4> QED
        BY <2>3, <3>0, <4>1, Zenon
    <3>2. written' = [written EXCEPT ![o] = s]
      BY <1>0, <2>3, <2>5, <3>1
    <3> QED
      BY <1>0, <2>3, <3>2
  <2>8. Typed'
    BY <1>0, <2>6, <2>7 DEF Inv, Typed
  <2>9. LogIsNdjson'
    BY <1>0, <2>1, <2>5, <2>6 DEF LogIsNdjson, Accepted, Starting, Reading
  <2>10. ChunksTracked' /\ NotEnded' /\ NeverPanics'
    BY <1>0, <2>1, <2>5, StatusAssumption DEF ChunksTracked, NotEnded, NeverPanics, Starting
  <2> QED
    BY <2>8, <2>9, <2>10 DEF Inv
<1>2. CASE ~WriteNext
  <2>1. /\ queue' = queue /\ written' = written
        /\ broken'.truncated \subseteq broken'.failed
        /\ \/ phase' = "read" /\ status' = status /\ queue = << >> /\ broken' = broken /\ phase = "write"
           \/ phase' = "drop" /\ status' = status
           \/ phase' = "exit" /\ status' = "0" /\ chunk' = {} /\ broken' = broken /\ phase = "finish"
           \/ phase' = "exit" /\ status' = "1" /\ chunk' = {}
    <3>1. CASE WriteFails
      <4>1. PICK o : Failed(o, {o}) \/ Failed(o, {})
        BY <3>1 DEF WriteFails
      <4> QED
        BY <1>0, <3>1, <4>1 DEF WriteFails, Failed, Go
    <3>2. CASE FrameWritten
      BY <1>0, <3>2 DEF FrameWritten, Go, outputVars
    <3>3. CASE FinishOutputs
      BY <1>0, <3>3 DEF FinishOutputs, Failed, Go, Exit
    <3>4. CASE RunFails
      BY <1>0, <3>4 DEF RunFails, Drop, Exit
    <3> QED
      BY <1>2, <3>1, <3>2, <3>3, <3>4
  <2>2. Typed'
    BY <1>0, <2>1 DEF Inv, Typed
  <2>3. LogIsNdjson'
    BY <1>0, <2>1 DEF LogIsNdjson, Accepted, Starting, Reading
  <2>4. ChunksTracked'
    BY <1>0, <2>1, StatusAssumption DEF ChunksTracked, Starting
  <2>5. NotEnded' /\ NeverPanics'
    BY <1>0, <2>1, StatusAssumption DEF NotEnded, NeverPanics
  <2> QED
    BY <2>2, <2>3, <2>4, <2>5 DEF Inv
<1> QED
  BY <1>1, <1>2

\* No step breaks the invariant.
LEMMA InvKept ==
    ASSUME Inv, [Next]_vars
    PROVE  Inv'
<1>1. CASE Exited \/ UNCHANGED vars
  BY <1>1 DEF Exited, vars, inputVars, outputVars, Inv, Typed, LogIsNdjson, Accepted,
              ChunksTracked, NotEnded, NeverPanics
<1> QED
  BY <1>1, StartKeeps, BuildKeeps, ReadKeeps, WriteKeeps DEF Next

\* The invariant holds throughout.
LEMMA Invariance == Spec => []Inv
<1>1. Inv /\ [Next]_vars => Inv'
  BY InvKept
<1> QED
  BY <1>1, Initially, PTL DEF Spec

\* No command line that main lets through reaches an unreachable!(), whatever the
\* capture and the plugins.
THEOREM PanicsUnreachable == Spec => []NeverPanics
<1>1. Inv => NeverPanics
  BY DEF Inv
<1> QED
  BY <1>1, Invariance, PTL

\* However the program ends, no chunk is open and only an output that failed has
\* an incomplete one.
THEOREM NoChunkLeftOpen == Spec => []ChunksClosedAtExit
<1>1. Inv => ChunksClosedAtExit
  BY DEF Inv, ChunksTracked, ChunksClosedAtExit
<1> QED
  BY <1>1, Invariance, PTL

-----------------------------------------------------------------------------
(* The history of the capture.                                             *)

Blocks == [type : {"SectionHeader", "Other"}]
          \union [type : {"InterfaceDescription"}, link_type : LinkTypes,
                  if_tsresol : Resolutions]
          \union [type : {"EnhancedPacket"}, id : 0 .. MaxInterfaces - 1,
                  data : {"tcp", "other"}]
          \union [type : {"Packet"}, data : {"tcp", "other"}]

\* How many elements of D come before i.
Rank(D, i) == Cardinality({j \in D : j < i})

\* Ranks in a finite set are below its size, and increase with its elements.
LEMMA RankBelow ==
    ASSUME NEW n \in Nat, NEW D \in SUBSET (1 .. n)
    PROVE  /\ IsFiniteSet(D) /\ Cardinality(D) \in Nat
           /\ \A i \in Int : Rank(D, i) \in Nat
           /\ \A i \in D : Rank(D, i) < Cardinality(D)
           /\ \A i \in D, k \in Int : i < k => Rank(D, i) < Rank(D, k)
<1>1. IsFiniteSet(D) /\ Cardinality(D) \in Nat
  <2>1. IsFiniteSet(1 .. n)
    BY FS_Interval
  <2> QED
    BY <2>1, FS_Subset, FS_CardinalityType
<1>2. \A i \in Int : IsFiniteSet({j \in D : j < i}) /\ Rank(D, i) \in Nat
  <2> TAKE i \in Int
  <2>1. {j \in D : j < i} \in SUBSET D
    OBVIOUS
  <2>2. IsFiniteSet({j \in D : j < i})
    BY <1>1, <2>1, FS_Subset
  <2> QED
    BY <2>2, FS_CardinalityType DEF Rank
<1>3. ASSUME NEW i \in D, NEW S, IsFiniteSet(S), \A j \in D : j < i => j \in S, i \in S
      PROVE  Rank(D, i) < Cardinality(S)
  <2> DEFINE below == {j \in D : j < i}
  <2>1. i \in Int /\ i \notin below
    OBVIOUS
  <2>2. /\ IsFiniteSet(below \union {i})
        /\ Cardinality(below \union {i}) = Cardinality(below) + 1
    <3>1. IsFiniteSet(below)
      BY <1>2, <2>1
    <3> HIDE DEF below
    <3> QED
      BY <2>1, <3>1, FS_AddElement
  <2>3. below \union {i} \in SUBSET S
    BY <1>3
  <2>4. Cardinality(below \union {i}) <= Cardinality(S)
    BY <1>3, <2>3, FS_Subset
  <2>5. Cardinality(S) \in Nat /\ Rank(D, i) = Cardinality(below) /\ Cardinality(below) \in Nat
    <3>1. Rank(D, i) = Cardinality(below)
      BY DEF Rank
    <3>2. Cardinality(S) \in Nat
      BY <1>3, FS_CardinalityType
    <3> QED
      BY <1>2, <2>1, <3>1, <3>2
  <2> HIDE DEF below
  <2> QED
    BY <2>2, <2>4, <2>5
<1>4. \A i \in D : Rank(D, i) < Cardinality(D)
  BY <1>1, <1>3
<1>5. ASSUME NEW i \in D, NEW k \in Int, i < k
      PROVE  Rank(D, i) < Rank(D, k)
  <2> DEFINE below == {j \in D : j < k}
  <2>1. IsFiniteSet(below) /\ Rank(D, k) = Cardinality(below)
    BY <1>2 DEF Rank
  <2>2. i \in below /\ \A j \in D : j < i => j \in below
    BY <1>5
  <2> HIDE DEF below
  <2> QED
    BY <1>3, <2>1, <2>2
<1> QED
  BY <1>1, <1>2, <1>4, <1>5

\* Described and Description of a block only look at the blocks up to it.
LEMMA DescribedLocal ==
    ASSUME NEW c, NEW d, NEW b \in Nat, \A i \in 1 .. b : c[i] = d[i]
    PROVE  /\ Described(c, b) = Described(d, b)
           /\ Described(c, b) \in SUBSET (1 .. b)
BY DEF Described

\* A block's description is the one of its rank, and there is one at most.
LEMMA DescriptionIs ==
    ASSUME NEW c, NEW b \in Nat, NEW D, D = Described(c, b)
    PROVE  /\ \/ Description(c, b) = 0 /\ \A i \in D : Rank(D, i) # c[b].id
              \/ Description(c, b) \in D /\ Rank(D, Description(c, b)) = c[b].id
           /\ \A i \in D : Rank(D, i) = c[b].id => Description(c, b) = i
<1> DEFINE own == {i \in D : Rank(D, i) = c[b].id}
<1>1. Description(c, b) = IF own = {} THEN 0 ELSE CHOOSE i \in own : TRUE
  BY DEF Description, Rank
<1>2. own # {} => (CHOOSE i \in own : TRUE) \in own
  OBVIOUS
<1>3. D \in SUBSET (1 .. b)
  BY DescribedLocal
<1>4. \A i, k \in D : Rank(D, i) = Rank(D, k) => i = k
  <2>1. \A i \in D, k \in Int : i < k => Rank(D, i) < Rank(D, k)
    BY <1>3, RankBelow
  <2>2. \A i \in Int : Rank(D, i) \in Nat
    BY <1>3, RankBelow
  <2> QED
    BY <1>3, <2>1, <2>2
<1>5. \/ own = {} /\ Description(c, b) = 0
      \/ Description(c, b) \in own
  BY <1>1, <1>2
<1> HIDE DEF own
<1>6. \A i : i \in own <=> i \in D /\ Rank(D, i) = c[b].id
  BY DEF own
<1> QED
  BY <1>4, <1>5, <1>6

LEMMA DescriptionLocal ==
    ASSUME NEW c, NEW d, NEW b \in Nat \ {0}, \A i \in 1 .. b : c[i] = d[i]
    PROVE  /\ Description(c, b) = Description(d, b)
           /\ Description(c, b) # 0 => Description(c, b) \in 1 .. b
<1>1. PICK D : D = Described(c, b)
  OBVIOUS
<1>2. D = Described(d, b) /\ D \in SUBSET (1 .. b) /\ c[b].id = d[b].id
  BY <1>1, DescribedLocal
<1>3. /\ \/ Description(c, b) = 0 /\ \A i \in D : Rank(D, i) # c[b].id
         \/ Description(c, b) \in D /\ Rank(D, Description(c, b)) = c[b].id
  BY <1>1, DescriptionIs
<1>4. /\ \/ Description(d, b) = 0 /\ \A i \in D : Rank(D, i) # d[b].id
         \/ Description(d, b) \in D /\ Rank(D, Description(d, b)) = d[b].id
      /\ \A i \in D : Rank(D, i) = d[b].id => Description(d, b) = i
  BY <1>2, DescriptionIs
<1> QED
  BY <1>2, <1>3, <1>4

\* A section header forgets the interfaces, a description adds one, and every
\* other block leaves them as they are.
LEMMA DescribedNext ==
    ASSUME NEW S, NEW c \in Seq(S), NEW block \in S, NEW n, n = Len(c) + 1
    PROVE  Described(Append(c, block), n) =
              IF block.type = "SectionHeader" THEN {}
              ELSE IF block.type = "InterfaceDescription" THEN Described(c, Len(c)) \union {n}
              ELSE Described(c, Len(c))
<1> DEFINE d == Append(c, block)
<1>1. n \in Nat \ {0} /\ d[n] = block /\ \A i \in 1 .. n - 1 : d[i] = c[i]
  OBVIOUS
<1> HIDE DEF d
<1>2. \A i \in 1 .. n - 1 : i .. n = (i .. n - 1) \union {n}
  BY <1>1
<1>3. Described(d, n) = {i \in 1 .. n : /\ d[i].type = "InterfaceDescription"
                                        /\ \A s \in i .. n : d[s].type # "SectionHeader"}
  BY DEF Described
<1>4. Described(c, Len(c)) = {i \in 1 .. n - 1 :
                                 /\ c[i].type = "InterfaceDescription"
                                 /\ \A s \in i .. n - 1 : c[s].type # "SectionHeader"}
  BY DEF Described
<1>5. CASE block.type = "SectionHeader"
  BY <1>1, <1>3, <1>5 DEF d
<1>6. CASE block.type # "SectionHeader"
  <2>1. \A i \in 1 .. n - 1 : i \in Described(d, n) <=> i \in Described(c, Len(c))
    BY <1>1, <1>3, <1>4, <1>6
  <2>2. n \in Described(d, n) <=> block.type = "InterfaceDescription"
    BY <1>1, <1>3, <1>6
  <2>3. Described(d, n) \subseteq 1 .. n /\ Described(c, Len(c)) \subseteq 1 .. n - 1
    BY <1>3, <1>4
  <2>4. \A A, B : /\ A \subseteq 1 .. n /\ B \subseteq 1 .. n - 1
                  /\ \A i \in 1 .. n - 1 : i \in A <=> i \in B
                 => A = IF n \in A THEN B \union {n} ELSE B
    <3>1. 1 .. n = (1 .. n - 1) \union {n} /\ n \notin 1 .. n - 1
      BY <1>1
    <3>2. PICK I : I = 1 .. n - 1
      OBVIOUS
    <3>3. SUFFICES ASSUME NEW A, NEW B, A \subseteq I \union {n}, B \subseteq I,
                          \A i \in I : i \in A <=> i \in B
                   PROVE  A = IF n \in A THEN B \union {n} ELSE B
      BY <3>1, <3>2
    <3>4. CASE n \in A
      <4>1. A = B \union {n}
        BY <3>3, <3>4
      <4> QED
        BY <3>4, <4>1
    <3>5. CASE n \notin A
      BY <3>3, <3>5
    <3> QED
      BY <3>4, <3>5
  <2>5. Described(d, n) = IF n \in Described(d, n) THEN Described(c, Len(c)) \union {n}
                          ELSE Described(c, Len(c))
    BY <2>1, <2>3, <2>4
  <2> QED
    BY <1>6, <2>2, <2>5 DEF d
<1> QED
  BY <1>5, <1>6

\* The packets among the blocks so far.
PacketBlocks == {c \in DOMAIN blocks : IsPacket(c)}

\* The interface table is what the current section described, in its order.
TableIsSection ==
    LET D == Described(blocks, Len(blocks))
    IN  /\ Len(interfaces) = Cardinality(D)
        /\ \A r \in 1 .. Len(interfaces) : \E i \in D :
              /\ Rank(D, i) = r - 1
              /\ interfaces[r].link_type = blocks[i].link_type
              /\ interfaces[r].if_tsresol = blocks[i].if_tsresol

\* What is read of the capture, related to its blocks.
History ==
    /\ blocks \in Seq(Blocks)
    /\ phase \in Starting => blocks = << >> /\ produced = << >>
    /\ TableIsSection
    /\ packet_index = Cardinality(PacketBlocks)
    /\ OwnInterface

\* A further block changes nothing about the earlier ones.
LEMMA EarlierStay ==
    ASSUME blocks \in Seq(Blocks), NEW block \in Blocks,
           blocks' = Append(blocks, block), source' = source
    PROVE  \A b \in 1 .. Len(blocks) : /\ blocks'[b] = blocks[b]
                                       /\ Declared(b)' = Declared(b)
                                       /\ IsTcp(b)' <=> IsTcp(b)
                                       /\ IsPacket(b)' <=> IsPacket(b)
                                       /\ Number(b)' = Number(b)
<1>1. /\ Len(blocks) \in Nat /\ DOMAIN blocks = 1 .. Len(blocks)
      /\ DOMAIN blocks' = 1 .. Len(blocks) + 1
      /\ \A i \in 1 .. Len(blocks) : blocks'[i] = blocks[i]
  OBVIOUS
<1>2. TAKE b \in 1 .. Len(blocks)
<1>3. b \in Nat \ {0} /\ \A i \in 1 .. b : blocks'[i] = blocks[i]
  BY <1>1, <1>2
<1>4. /\ Description(blocks', b) = Description(blocks, b)
      /\ Description(blocks, b) # 0 => Description(blocks, b) \in 1 .. b
  <2>1. PICK c, d : c = blocks /\ d = blocks'
    OBVIOUS
  <2>2. \A i \in 1 .. b : c[i] = d[i]
    BY <1>3, <2>1
  <2>3. Description(c, b) = Description(d, b) /\ (Description(c, b) # 0 => Description(c, b) \in 1 .. b)
    BY <1>3, <2>2, DescriptionLocal
  <2> QED
    BY <2>1, <2>3
<1>5. PICK i : i = Description(blocks, b)
  OBVIOUS
<1>6. i # 0 => blocks'[i] = blocks[i]
  BY <1>3, <1>4, <1>5
<1>7. Declared(b) = IF blocks[b].type = "Packet" THEN [link_type |-> source, if_tsresol |-> None]
                    ELSE IF i = 0 THEN [link_type |-> "ETHERNET", if_tsresol |-> None]
                    ELSE [link_type |-> blocks[i].link_type, if_tsresol |-> blocks[i].if_tsresol]
  BY <1>5 DEF Declared
<1>8. Declared(b)' = IF blocks'[b].type = "Packet" THEN [link_type |-> source', if_tsresol |-> None]
                     ELSE IF i = 0 THEN [link_type |-> "ETHERNET", if_tsresol |-> None]
                     ELSE [link_type |-> blocks'[i].link_type, if_tsresol |-> blocks'[i].if_tsresol]
  BY <1>4, <1>5 DEF Declared
<1>9. Declared(b)' = Declared(b)
  <2>1. blocks'[b] = blocks[b]
    BY <1>3
  <2>2. CASE blocks[b].type = "Packet"
    BY <1>7, <1>8, <2>1, <2>2
  <2>3. CASE blocks[b].type # "Packet" /\ i = 0
    BY <1>7, <1>8, <2>1, <2>3
  <2>4. CASE blocks[b].type # "Packet" /\ i # 0
    BY <1>6, <1>7, <1>8, <2>1, <2>4
  <2> QED
    BY <2>2, <2>3, <2>4
<1>10. \A c \in 1 .. b : IsPacket(c)' <=> IsPacket(c)
  BY <1>3 DEF IsPacket
<1>11. Number(b)' = Number(b)
  <2>1. {c \in 1 .. b - 1 : IsPacket(c)'} = {c \in 1 .. b - 1 : IsPacket(c)}
    BY <1>3, <1>10
  <2> QED
    BY <2>1 DEF Number
<1> QED
  BY <1>3, <1>9, <1>10, <1>11 DEF IsTcp

\* A further block has the number of the packets before it.
LEMMA NextNumber ==
    ASSUME blocks \in Seq(Blocks), NEW block \in Blocks,
           blocks' = Append(blocks, block), source' = source, NEW n, n = Len(blocks) + 1
    PROVE  /\ blocks' \in Seq(Blocks) /\ DOMAIN blocks' = (DOMAIN blocks) \union {n}
           /\ n \notin DOMAIN blocks /\ blocks'[n] = block /\ Len(blocks') = n
           /\ Number(n)' = Cardinality(PacketBlocks)
           /\ \A b \in DOMAIN blocks : IsPacket(b) => /\ Number(b) \in Nat
                                                      /\ Number(b) < Cardinality(PacketBlocks)
           /\ Cardinality(PacketBlocks) \in Nat
           /\ Cardinality(PacketBlocks)' = IF block.type \in {"Packet", "EnhancedPacket"}
                                           THEN Cardinality(PacketBlocks) + 1
                                           ELSE Cardinality(PacketBlocks)
<1>1. /\ Len(blocks) \in Nat /\ DOMAIN blocks = 1 .. Len(blocks)
      /\ DOMAIN blocks' = 1 .. n /\ n \in Nat /\ 1 .. n = (1 .. Len(blocks)) \union {n}
      /\ n \notin 1 .. Len(blocks) /\ blocks'[n] = block /\ Len(blocks') = n
      /\ n - 1 = Len(blocks) /\ blocks' \in Seq(Blocks)
  OBVIOUS
<1>2. \A b \in 1 .. Len(blocks) : IsPacket(b)' <=> IsPacket(b)
  BY EarlierStay
<1>3. Number(n)' = Cardinality(PacketBlocks)
  <2>1. {c \in 1 .. n - 1 : IsPacket(c)'} = PacketBlocks
    BY <1>1, <1>2 DEF PacketBlocks
  <2> QED
    BY <2>1 DEF Number
<1>4. PacketBlocks \in SUBSET (1 .. Len(blocks))
  BY <1>1 DEF PacketBlocks
<1>5. /\ IsFiniteSet(PacketBlocks) /\ Cardinality(PacketBlocks) \in Nat
      /\ \A b \in PacketBlocks : /\ Rank(PacketBlocks, b) \in Nat
                                 /\ Rank(PacketBlocks, b) < Cardinality(PacketBlocks)
  <2>1. PacketBlocks \subseteq Int
    BY <1>4
  <2> QED
    BY <1>1, <1>4, <2>1, RankBelow
<1>6. \A b \in DOMAIN blocks : Number(b) = Rank(PacketBlocks, b)
  <2> TAKE b \in DOMAIN blocks
  <2>1. {c \in 1 .. b - 1 : IsPacket(c)} = {c \in PacketBlocks : c < b}
    BY <1>1 DEF PacketBlocks
  <2> QED
    BY <2>1 DEF Number, Rank
<1>7. \A b \in DOMAIN blocks : IsPacket(b) => Number(b) \in Nat /\ Number(b) < Cardinality(PacketBlocks)
  BY <1>5, <1>6 DEF PacketBlocks
<1>8. IsPacket(n)' <=> block.type \in {"Packet", "EnhancedPacket"}
  BY <1>1 DEF IsPacket
<1>9. Cardinality(PacketBlocks)' = IF block.type \in {"Packet", "EnhancedPacket"}
                                   THEN Cardinality(PacketBlocks) + 1
                                   ELSE Cardinality(PacketBlocks)
  <2>1. PacketBlocks' = IF IsPacket(n)' THEN PacketBlocks \union {n} ELSE PacketBlocks
    <3>1. PacketBlocks' = {c \in (1 .. Len(blocks)) \union {n} : IsPacket(c)'}
      BY <1>1 DEF PacketBlocks
    <3>2. PacketBlocks = {c \in 1 .. Len(blocks) : IsPacket(c)}
      BY <1>1 DEF PacketBlocks
    <3> QED
      BY <1>2, <3>1, <3>2
  <2>2. n \notin PacketBlocks
    BY <1>1, <1>4
  <2>3. Cardinality(PacketBlocks \union {n}) = Cardinality(PacketBlocks) + 1
    BY <1>5, <2>2, FS_AddElement
  <2> QED
    BY <1>8, <2>1, <2>3
<1> QED
  BY <1>1, <1>3, <1>5, <1>7, <1>9

\* The reader's table stays that of the current section.
LEMMA TableNext ==
    ASSUME Typed, blocks \in Seq(Blocks), TableIsSection, NEW block \in Blocks,
           blocks' = Append(blocks, block), interfaces' = InterfacesAfter(block)
    PROVE  TableIsSection'
<1>a. PICK n : n = Len(blocks) + 1
  OBVIOUS
<1>0. interfaces \in Seq(Interface)
  BY DEF Typed
<1>1. /\ n \in Nat \ {0} /\ Len(blocks') = n /\ blocks'[n] = block
      /\ \A i \in 1 .. n - 1 : blocks'[i] = blocks[i]
  BY <1>a
<1>2. PICK D, E : D = Described(blocks, Len(blocks)) /\ E = Described(blocks', n)
  OBVIOUS
<1>3. D \in SUBSET (1 .. n - 1)
  BY <1>a, <1>1, <1>2, DescribedLocal
<1>4. E = IF block.type = "SectionHeader" THEN {}
          ELSE IF block.type = "InterfaceDescription" THEN D \union {n}
          ELSE D
  <2>1. CASE block.type = "SectionHeader"
    BY <1>a, <1>2, <2>1, DescribedNext
  <2>2. CASE block.type = "InterfaceDescription"
    <3>1. Described(blocks', n) = Described(blocks, Len(blocks)) \union {n}
      BY <1>a, <2>2, DescribedNext
    <3> QED
      BY <1>2, <2>2, <3>1
  <2>3. CASE block.type \notin {"SectionHeader", "InterfaceDescription"}
    <3>1. Described(blocks', n) = Described(blocks, Len(blocks))
      BY <1>a, <2>3, DescribedNext
    <3> QED
      BY <1>2, <2>3, <3>1
  <2> QED
    BY <2>1, <2>2, <2>3
<1>5. /\ Len(interfaces) = Cardinality(D)
      /\ \A r \in 1 .. Len(interfaces) : \E i \in D :
            /\ Rank(D, i) = r - 1
            /\ interfaces[r].link_type = blocks[i].link_type
            /\ interfaces[r].if_tsresol = blocks[i].if_tsresol
  BY <1>2 DEF TableIsSection
<1>6. SUFFICES /\ Len(interfaces') = Cardinality(E)
               /\ \A r \in 1 .. Len(interfaces') : \E i \in E :
                     /\ Rank(E, i) = r - 1
                     /\ interfaces'[r].link_type = blocks'[i].link_type
                     /\ interfaces'[r].if_tsresol = blocks'[i].if_tsresol
  <2>1. E = Described(blocks', Len(blocks'))
    BY <1>1, <1>2
  <2> QED
    BY <1>6, <2>1, Zenon DEF TableIsSection
<1>7. CASE block.type = "SectionHeader"
  <2>1. interfaces' = << >> /\ E = {}
    BY <1>4, <1>7 DEF InterfacesAfter
  <2> QED
    BY <2>1, FS_EmptySet
<1>8. CASE block.type = "InterfaceDescription"
  <2>1. PICK f : f = [link_type |-> block.link_type, if_tsresol |-> block.if_tsresol]
    OBVIOUS
  <2>2. interfaces' = Append(interfaces, f)
    BY <1>8, <2>1 DEF InterfacesAfter
  <2>3. /\ Len(interfaces') = Len(interfaces) + 1 /\ Len(interfaces) \in Nat
        /\ interfaces'[Len(interfaces) + 1] = f
        /\ \A r \in 1 .. Len(interfaces) : interfaces'[r] = interfaces[r]
    BY <1>0, <2>2
  <2>4. E = D \union {n} /\ n \notin D /\ IsFiniteSet(D)
    <3>1. n - 1 \in Nat
      BY <1>1
    <3>2. IsFiniteSet(D)
      BY <1>3, <3>1, RankBelow
    <3>3. E = D \union {n}
      BY <1>4, <1>8
    <3>4. n \notin 1 .. n - 1
      BY <1>1
    <3> QED
      BY <1>3, <3>2, <3>3, <3>4
  <2>5. Cardinality(E) = Cardinality(D) + 1
    BY <2>4, FS_AddElement
  <2>6. Rank(E, n) = Cardinality(D)
    <3>1. \A j \in D : j < n
      BY <1>1, <1>3
    <3>2. ~(n < n)
      BY <1>1
    <3>3. {j \in E : j < n} = D
      BY <2>4, <3>1, <3>2, Zenon
    <3> QED
      BY <3>3 DEF Rank
  <2>7. \A i \in D : Rank(E, i) = Rank(D, i)
    <3> TAKE i \in D
    <3>1. {j \in E : j < i} = {j \in D : j < i}
      BY <1>1, <1>3, <2>4
    <3> QED
      BY <3>1 DEF Rank
  <2>8. ASSUME NEW r \in 1 .. Len(interfaces')
        PROVE  \E i \in E : /\ Rank(E, i) = r - 1
                            /\ interfaces'[r].link_type = blocks'[i].link_type
                            /\ interfaces'[r].if_tsresol = blocks'[i].if_tsresol
    <3>1. CASE r = Len(interfaces) + 1
      <4>1. n \in E /\ Rank(E, n) = r - 1
        BY <1>5, <2>3, <2>4, <2>6, <3>1
      <4> QED
        BY <1>1, <2>1, <2>3, <3>1, <4>1
    <3>2. CASE r # Len(interfaces) + 1
      <4>1. r \in 1 .. Len(interfaces) /\ interfaces'[r] = interfaces[r]
        BY <2>3, <2>8, <3>2
      <4>2. PICK i \in D : /\ Rank(D, i) = r - 1
                           /\ interfaces[r].link_type = blocks[i].link_type
                           /\ interfaces[r].if_tsresol = blocks[i].if_tsresol
        BY <1>5, <4>1
      <4>3. i \in E /\ Rank(E, i) = r - 1 /\ blocks'[i] = blocks[i]
        BY <1>1, <1>3, <2>4, <2>7, <4>2
      <4> QED
        BY <4>1, <4>2, <4>3
    <3> QED
      BY <3>1, <3>2
  <2> QED
    BY <1>5, <2>3, <2>5, <2>8
<1>9. CASE block.type \notin {"SectionHeader", "InterfaceDescription"}
  <2>1. interfaces' = interfaces /\ E = D
    BY <1>4, <1>9 DEF InterfacesAfter
  <2>2. \A i \in D : blocks'[i] = blocks[i]
    BY <1>1, <1>3
  <2>3. ASSUME NEW r \in 1 .. Len(interfaces')
        PROVE  \E i \in E : /\ Rank(E, i) = r - 1
                            /\ interfaces'[r].link_type = blocks'[i].link_type
                            /\ interfaces'[r].if_tsresol = blocks'[i].if_tsresol
    <3>1. PICK i \in D : /\ Rank(D, i) = r - 1
                         /\ interfaces[r].link_type = blocks[i].link_type
                         /\ interfaces[r].if_tsresol = blocks[i].if_tsresol
      BY <1>5, <2>1
    <3> QED
      BY <2>1, <2>2, <3>1
  <2>4. Len(interfaces') = Cardinality(E)
    BY <1>5, <2>1
  <2> QED
    BY <2>3, <2>4
<1> QED
  BY <1>7, <1>8, <1>9

\* The table's entry of an enhanced packet is its own interface.
LEMMA TableGivesOwn ==
    ASSUME Typed, blocks \in Seq(Blocks), TableIsSection, NEW block \in Blocks,
           block.type = "EnhancedPacket", blocks' = Append(blocks, block), source' = source,
           NEW n, n = Len(blocks) + 1
    PROVE  /\ InterfaceOf(block.id).link_type = Declared(n)'.link_type
           /\ InterfaceOf(block.id).if_tsresol = Declared(n)'.if_tsresol
<1>1. PICK c : n = Len(blocks) + 1 /\ c = blocks'
  OBVIOUS
<1>2. /\ n \in Nat \ {0} /\ Len(c) = n /\ c[n] = block
      /\ \A i \in 1 .. n - 1 : c[i] = blocks[i]
  BY <1>1
<1>3. interfaces \in Seq(Interface) /\ Len(interfaces) \in Nat /\ block.id \in Nat
  BY CaptureAssumption DEF Typed, Blocks
<1>4. PICK D : D = Described(blocks, Len(blocks))
  OBVIOUS
<1>5. D \in SUBSET (1 .. n - 1)
  BY <1>1, <1>2, <1>4, DescribedLocal
<1>6. D = Described(c, n)
  <2>1. Described(c, n) = Described(blocks, Len(blocks))
    BY <1>1, DescribedNext
  <2> QED
    BY <1>4, <2>1
<1>7. /\ \A i \in D : Rank(D, i) < Len(interfaces)
      /\ \A r \in 1 .. Len(interfaces) : \E i \in D :
            /\ Rank(D, i) = r - 1
            /\ interfaces[r].link_type = blocks[i].link_type
            /\ interfaces[r].if_tsresol = blocks[i].if_tsresol
  <2>1. n - 1 \in Nat
    BY <1>2
  <2>2. \A i \in D : Rank(D, i) < Cardinality(D)
    BY <1>5, <2>1, RankBelow
  <2> QED
    BY <1>4, <2>2 DEF TableIsSection
<1>8. Declared(n)' = IF Description(c, n) = 0 THEN [link_type |-> "ETHERNET", if_tsresol |-> None]
                     ELSE [link_type |-> c[Description(c, n)].link_type,
                           if_tsresol |-> c[Description(c, n)].if_tsresol]
  BY <1>1, <1>2 DEF Declared
<1>9. /\ \/ Description(c, n) = 0 /\ \A i \in D : Rank(D, i) # block.id
         \/ Description(c, n) \in D /\ Rank(D, Description(c, n)) = block.id
      /\ \A i \in D : Rank(D, i) = block.id => Description(c, n) = i
  BY <1>2, <1>6, DescriptionIs
<1>10. CASE block.id < Len(interfaces)
  <2>1. PICK r \in 1 .. Len(interfaces) : r = block.id + 1
    BY <1>3, <1>10
  <2>2. PICK i \in D : /\ Rank(D, i) = r - 1
                       /\ interfaces[r].link_type = blocks[i].link_type
                       /\ interfaces[r].if_tsresol = blocks[i].if_tsresol
    BY <1>7
  <2>3. Description(c, n) = i /\ i # 0 /\ c[i] = blocks[i]
    <3>1. Rank(D, i) = block.id
      BY <1>3, <2>1, <2>2
    <3> QED
      BY <1>2, <1>5, <1>9, <2>2, <3>1
  <2>4. InterfaceOf(block.id) = interfaces[r]
    BY <1>10, <2>1 DEF InterfaceOf
  <2>5. Declared(n)' = [link_type |-> c[i].link_type, if_tsresol |-> c[i].if_tsresol]
    BY <1>8, <2>3
  <2> QED
    BY <1>1, <2>2, <2>3, <2>4, <2>5
<1>11. CASE ~(block.id < Len(interfaces))
  <2>1. Description(c, n) = 0
    <3>1. \A i \in D : Rank(D, i) # block.id
      BY <1>7, <1>11
    <3> QED
      BY <1>9, <3>1
  <2> QED
    BY <1>1, <1>8, <1>11, <2>1 DEF InterfaceOf
<1> QED
  BY <1>10, <1>11

\* A TCP frame extends what is produced by its k messages, and queues them,
\* behind its event if there is a packet log (e = 1).
FrameOutcome(k, e, link_type, if_tsresol) ==
    /\ e = 1 <=> "packet_output" \in outputs
    /\ Len(produced') = Len(produced) + k
    /\ \A i \in 1 .. Len(produced) : produced'[i] = produced[i]
    /\ \A i \in 1 .. k : LET item == produced'[Len(produced) + i]
                         IN  /\ item.frame.index = packet_index
                             /\ item.frame.link_type = link_type
                             /\ item.frame.if_tsresol = if_tsresol
    /\ Len(queue') = k + e
    /\ \A i \in 1 .. k : /\ queue'[i + e].to = "output"
                         /\ queue'[i + e].item = produced'[Len(produced) + i]
    /\ e = 1 => /\ queue'[1].to = "packet_output"
                /\ queue'[1].item.frame.index = packet_index
    /\ phase' = "write" /\ status' = status

LEMMA FrameResults ==
    ASSUME Typed, NEW data, NEW link_type, NEW if_tsresol,
           Packet(data, link_type, if_tsresol), parse_tcp_frame(link_type, data)
    PROVE  \E k \in Nat, e \in {0, 1} : FrameOutcome(k, e, link_type, if_tsresol)
<1> DEFINE f == [index |-> packet_index, link_type |-> link_type, if_tsresol |-> if_tsresol]
           messages(k) == [n \in 1 .. k |-> DecodedMessage(f, n)]
           items(k) == [n \in 1 .. k |-> messages(k)[n].item]
<1>1. PICK k \in 0 .. MaxMessages : /\ queue' = Writes(f, messages(k))
                                    /\ produced' = produced \o items(k)
                                    /\ phase' = "write" /\ status' = status
  BY DEF Packet, Go
<1>2. f.index = packet_index /\ f.link_type = link_type /\ f.if_tsresol = if_tsresol
  OBVIOUS
<1>3. PICK frame : frame = f
  OBVIOUS
<1>4. k \in Nat
  BY <1>1, CaptureAssumption
<1> DEFINE ms == messages(k)
           is == items(k)
<1>5. /\ DOMAIN ms = 1 .. k /\ DOMAIN is = 1 .. k
      /\ \A n \in 1 .. k : ms[n] = DecodedMessage(frame, n) /\ is[n] = ms[n].item
  BY <1>3
<1>6. \A n \in 1 .. k : ms[n].to = "output" /\ ms[n].item.frame = frame
  BY <1>5 DEF DecodedMessage
<1>7. PICK m, t : m = ms /\ t = is
  OBVIOUS
<1>8. /\ produced' = produced \o t
      /\ queue' = (IF "packet_output" \in outputs THEN <<PacketEvent(frame)>> ELSE << >>) \o m
  BY <1>1, <1>3, <1>7 DEF Writes
<1>9. /\ m \in Seq({m[i] : i \in 1 .. k}) /\ t \in Seq({t[i] : i \in 1 .. k})
      /\ Len(m) = k /\ Len(t) = k
  <2>1. m = [i \in 1 .. k |-> m[i]] /\ t = [i \in 1 .. k |-> t[i]]
    BY <1>5, <1>7
  <2> QED
    BY <1>4, <2>1
<1>10. /\ \A n \in 1 .. k : m[n].to = "output" /\ m[n].item.frame = frame /\ t[n] = m[n].item
  BY <1>5, <1>6, <1>7
<1> HIDE DEF f, messages, items, ms, is
<1>11. /\ Len(produced') = Len(produced) + k /\ Len(produced) \in Nat
       /\ \A i \in 1 .. Len(produced) : produced'[i] = produced[i]
       /\ \A i \in 1 .. k : produced'[Len(produced) + i] = t[i]
  <2>1. PICK p \in Seq(Item) : p = produced /\ Len(p) \in Nat
    BY DEF Typed
  <2>2. /\ Len(p \o t) = Len(p) + k
        /\ \A i \in 1 .. Len(p) + k : (p \o t)[i] = IF i <= Len(p) THEN p[i] ELSE t[i - Len(p)]
    <3>1. PICK S : S = Item \union {t[i] : i \in 1 .. k}
      OBVIOUS
    <3>2. p \in Seq(S)
      BY <2>1, <3>1
    <3>3. t \in Seq(S)
      BY <1>9, <3>1
    <3>4. \A x, y \in Seq(S) :
             /\ Len(x \o y) = Len(x) + Len(y)
             /\ \A i \in 1 .. Len(x) + Len(y) :
                   (x \o y)[i] = IF i <= Len(x) THEN x[i] ELSE y[i - Len(x)]
      OBVIOUS
    <3>5. /\ Len(p \o t) = Len(p) + Len(t)
          /\ \A i \in 1 .. Len(p) + Len(t) :
                (p \o t)[i] = IF i <= Len(p) THEN p[i] ELSE t[i - Len(p)]
      BY <3>2, <3>3, <3>4, Zenon
    <3> QED
      BY <1>9, <3>5, Zenon
  <2>3. \A i \in 1 .. k : Len(p) + i \in 1 .. Len(p) + k /\ ~(Len(p) + i <= Len(p))
                         /\ Len(p) + i - Len(p) = i
    BY <1>4, <2>1
  <2>4. \A i \in 1 .. k : (p \o t)[Len(p) + i] = t[i]
    BY <2>2, <2>3
  <2>5. \A i \in 1 .. Len(p) : (p \o t)[i] = p[i]
    BY <1>4, <2>1, <2>2
  <2> QED
    BY <1>8, <2>1, <2>2, <2>4, <2>5
<1>12. \A i \in 1 .. k : LET item == produced'[Len(produced) + i]
                         IN  /\ item.frame.index = packet_index
                             /\ item.frame.link_type = link_type
                             /\ item.frame.if_tsresol = if_tsresol
  <2>1. \A i \in 1 .. k : produced'[Len(produced) + i].frame = frame
    BY <1>10, <1>11, Zenon
  <2> QED
    BY <1>2, <1>3, <2>1, Zenon
<1>13. CASE "packet_output" \in outputs
  <2>1. PICK ev : ev = PacketEvent(frame)
    OBVIOUS
  <2>2. ev.to = "packet_output" /\ ev.item.frame.index = packet_index
    BY <1>2, <1>3, <2>1 DEF PacketEvent
  <2>3. queue' = <<ev>> \o m
    BY <1>8, <1>13, <2>1
  <2>4. /\ Len(queue') = k + 1 /\ queue'[1] = ev
        /\ \A i \in 1 .. k : queue'[i + 1] = m[i]
    <3>1. PICK S : S = {m[i] : i \in 1 .. k} \union {ev}
      OBVIOUS
    <3>2. m \in Seq(S) /\ ev \in S
      BY <1>9, <3>1
    <3>3. \A x \in S, y \in Seq(S) :
             /\ Len(<<x>> \o y) = Len(y) + 1 /\ (<<x>> \o y)[1] = x
             /\ \A i \in 1 .. Len(y) : (<<x>> \o y)[i + 1] = y[i]
      OBVIOUS
    <3>4. /\ Len(<<ev>> \o m) = Len(m) + 1 /\ (<<ev>> \o m)[1] = ev
          /\ \A i \in 1 .. Len(m) : (<<ev>> \o m)[i + 1] = m[i]
      BY <3>2, <3>3
    <3> QED
      BY <1>9, <2>3, <3>4
  <2>5. PICK e \in {0, 1} : e = 1
    OBVIOUS
  <2>6. Len(queue') = k + e
    BY <2>4, <2>5
  <2>7. \A i \in 1 .. k : /\ queue'[i + e].to = "output"
                           /\ queue'[i + e].item = produced'[Len(produced) + i]
    BY <1>10, <1>11, <2>4, <2>5
  <2>8. queue'[1].to = "packet_output" /\ queue'[1].item.frame.index = packet_index
    BY <2>2, <2>4
  <2>9. FrameOutcome(k, e, link_type, if_tsresol)
    BY <1>1, <1>11, <1>12, <1>13, <2>5, <2>6, <2>7, <2>8 DEF FrameOutcome
  <2> QED
    BY <1>4, <2>9
<1>14. CASE "packet_output" \notin outputs
  <2>1. queue' = << >> \o m
    BY <1>8, <1>14
  <2>2. queue' = m
    BY <1>9, <2>1
  <2>3. PICK e \in {0, 1} : e = 0 /\ e # 1
    OBVIOUS
  <2>4. \A i \in 1 .. k : i + e = i
    BY <1>4, <2>3
  <2>5. Len(queue') = k + e
    BY <1>4, <1>9, <2>2, <2>3
  <2>6. \A i \in 1 .. k : /\ queue'[i + e].to = "output"
                           /\ queue'[i + e].item = produced'[Len(produced) + i]
    BY <1>10, <1>11, <2>2, <2>4
  <2>7. FrameOutcome(k, e, link_type, if_tsresol)
    BY <1>1, <1>11, <1>12, <1>14, <2>3, <2>5, <2>6 DEF FrameOutcome
  <2> QED
    BY <1>4, <2>7
<1> QED
  BY <1>13, <1>14

\* The numbers of the TCP frames, when a block is read.
LEMMA TcpNumbersNext ==
    ASSUME blocks \in Seq(Blocks), NEW block \in Blocks,
           blocks' = Append(blocks, block), source' = source, NEW n, n = Len(blocks) + 1
    PROVE  /\ TcpNumbers' = IF IsTcp(n)' THEN TcpNumbers \union {Cardinality(PacketBlocks)}
                            ELSE TcpNumbers
           /\ \A t \in TcpNumbers : t \in Nat /\ t < Cardinality(PacketBlocks)
           /\ Cardinality(PacketBlocks) \in Nat
<1>1. /\ DOMAIN blocks' = (DOMAIN blocks) \union {n} /\ n \notin DOMAIN blocks
      /\ Number(n)' = Cardinality(PacketBlocks)
      /\ \A b \in DOMAIN blocks : IsPacket(b) => /\ Number(b) \in Nat
                                                 /\ Number(b) < Cardinality(PacketBlocks)
      /\ Cardinality(PacketBlocks) \in Nat
  BY NextNumber
<1>2. \A b \in DOMAIN blocks : (IsTcp(b)' <=> IsTcp(b)) /\ Number(b)' = Number(b)
  BY EarlierStay
<1>3. \A t : t \in TcpNumbers <=> \E b \in DOMAIN blocks : IsTcp(b) /\ t = Number(b)
  BY DEF TcpNumbers
<1>4. \A t : t \in TcpNumbers' <=> \E b \in DOMAIN blocks' : IsTcp(b)' /\ t = Number(b)'
  BY DEF TcpNumbers
<1>5. \A t : t \in TcpNumbers' <=> t \in TcpNumbers \/ (IsTcp(n)' /\ t = Cardinality(PacketBlocks))
  BY <1>1, <1>2, <1>3, <1>4
<1>6. \A t \in TcpNumbers : t \in Nat /\ t < Cardinality(PacketBlocks)
  BY <1>1, <1>3 DEF IsTcp
<1> QED
  BY <1>1, <1>5, <1>6

\* 1 if the event of the frame at hand is still to be written.
Announced == IF queue # << >> /\ queue[1].to = "packet_output" THEN 1 ELSE 0

\* The queue holds what the output still lacks of what was produced, all of the
\* last frame, behind the frame's event if that is not written yet.
QueueIsRest ==
    LET messages == written["output"]
    IN  /\ \A k \in DOMAIN queue : k # 1 => queue[k].to = "output"
        /\ \A k \in DOMAIN queue : Latest(queue[k].item.frame.index)
        /\ Len(produced) = Len(messages) + Len(queue) - Announced
        /\ \A k \in 1 .. Len(messages) : messages[k] = produced[k]
        /\ \A k \in 1 .. Len(queue) - Announced :
              produced[Len(messages) + k] = queue[k + Announced].item

\* The log has the events of all TCP frames but the one in the queue.
LogUpToDate ==
    LET Logged(n) == written["packet_output"][n].frame.index
        logged == DOMAIN written["packet_output"]
    IN  "packet_output" \in outputs =>
           /\ \A n \in logged : Logged(n) \in TcpNumbers
           /\ \A n \in logged : \A m \in 1 .. n - 1 : Logged(m) < Logged(n)
           /\ \A t \in TcpNumbers : \/ \E n \in logged : Logged(n) = t
                                    \/ Announced = 1 /\ t = queue[1].item.frame.index
           /\ Announced = 1 => \A n \in logged : Logged(n) < queue[1].item.frame.index
           /\ \A i \in DOMAIN written["output"] :
                 \E n \in logged : Logged(n) = written["output"][i].frame.index

Delivery ==
    /\ phase \in Starting \union {"read", "finish"} => queue = << >>
    /\ phase = "exit" /\ status = "0" => queue = << >>
    /\ phase \in Starting => \A o \in Outputs : written[o] = << >>
    /\ QueueIsRest
    /\ LogUpToDate

\* A step that reads a block: a packet is processed with its own interface, any
\* other block only changes the table.
LEMMA BlockRead ==
    ASSUME Inv, History, NextPcapPacket \/ NextBlock, NEW n, n = Len(blocks) + 1
    PROVE  /\ phase = "read" /\ source' = source /\ outputs' = outputs /\ written' = written
           /\ \E block \in Blocks :
                 /\ blocks' = Append(blocks, block)
                 /\ interfaces' = InterfacesAfter(block)
                 /\ \/ /\ block.type \in {"Packet", "EnhancedPacket"}
                       /\ Packet(block.data, Declared(n)'.link_type, Declared(n)'.if_tsresol)
                    \/ /\ block.type \notin {"Packet", "EnhancedPacket"}
                       /\ UNCHANGED <<packet_index, phase, status, queue, produced>>
<1>1. phase = "read" /\ source' = source /\ outputs' = outputs /\ written' = written
  BY DEF NextPcapPacket, NextBlock
<1>2. CASE NextPcapPacket
  <2>1. PICK data \in {"tcp", "other"} :
           /\ blocks' = Append(blocks, [type |-> "Packet", data |-> data])
           /\ Packet(data, source, None)
    BY <1>2 DEF NextPcapPacket
  <2>2. PICK block : block = [type |-> "Packet", data |-> data]
    OBVIOUS
  <2>3. block \in Blocks /\ block.type = "Packet" /\ block.data = data
    BY <2>2 DEF Blocks
  <2>4. interfaces' = InterfacesAfter(block)
    BY <1>2, <2>3 DEF NextPcapPacket, InterfacesAfter
  <2>5. blocks'[n] = block /\ blocks' = Append(blocks, block)
    BY <2>1, <2>2, <2>3 DEF History
  <2>6. Declared(n)' = [link_type |-> source, if_tsresol |-> None]
    BY <1>1, <2>3, <2>5 DEF Declared
  <2>7. Declared(n)'.link_type = source /\ Declared(n)'.if_tsresol = None
    BY <2>6
  <2>8. Packet(block.data, Declared(n)'.link_type, Declared(n)'.if_tsresol)
    BY <2>1, <2>3, <2>7
  <2> QED
    BY <1>1, <2>3, <2>4, <2>5, <2>8
<1>3. CASE NextBlock
  <2>1. PICK block \in [type : {"SectionHeader", "Other"}]
                       \union [type : {"InterfaceDescription"}, link_type : LinkTypes,
                               if_tsresol : Resolutions]
                       \union [type : {"EnhancedPacket"}, id : 0 .. MaxInterfaces - 1,
                               data : {"tcp", "other"}] :
           /\ blocks' = Append(blocks, block)
           /\ interfaces' = InterfacesAfter(block)
           /\ IF block.type = "EnhancedPacket"
              THEN Packet(block.data, InterfaceOf(block.id).link_type,
                          InterfaceOf(block.id).if_tsresol)
              ELSE UNCHANGED <<packet_index, phase, status, queue, produced>>
    BY <1>3 DEF NextBlock
  <2>2. block \in Blocks /\ block.type # "Packet"
    BY <2>1 DEF Blocks
  <2>3. CASE block.type = "EnhancedPacket"
    <3>1. /\ InterfaceOf(block.id).link_type = Declared(n)'.link_type
          /\ InterfaceOf(block.id).if_tsresol = Declared(n)'.if_tsresol
      BY <1>1, <2>1, <2>2, <2>3, TableGivesOwn DEF Inv, History
    <3>2. Packet(block.data, Declared(n)'.link_type, Declared(n)'.if_tsresol)
      BY <2>1, <2>3, <3>1
    <3> QED
      BY <1>1, <2>1, <2>2, <2>3, <3>2
  <2>4. CASE block.type # "EnhancedPacket"
    BY <1>1, <2>1, <2>2, <2>4
  <2> QED
    BY <2>3, <2>4
<1> QED
  BY <1>2, <1>3

\* Reading a block keeps the history.
LEMMA HistoryRead ==
    ASSUME Inv, History, NextPcapPacket \/ NextBlock
    PROVE  History'
<1>1. PICK n : n = Len(blocks) + 1
  OBVIOUS
<1>2. phase = "read" /\ source' = source
  BY <1>1, BlockRead
<1>3. PICK block \in Blocks :
         /\ blocks' = Append(blocks, block)
         /\ interfaces' = InterfacesAfter(block)
         /\ \/ /\ block.type \in {"Packet", "EnhancedPacket"}
               /\ Packet(block.data, Declared(n)'.link_type, Declared(n)'.if_tsresol)
            \/ /\ block.type \notin {"Packet", "EnhancedPacket"}
               /\ UNCHANGED <<packet_index, phase, status, queue, produced>>
  BY <1>1, BlockRead
<1>4. blocks \in Seq(Blocks) /\ Typed /\ packet_index = Cardinality(PacketBlocks) /\ TableIsSection
  BY DEF History, Inv
<1>5. /\ blocks' \in Seq(Blocks) /\ DOMAIN blocks' = (DOMAIN blocks) \union {n}
      /\ blocks'[n] = block /\ Number(n)' = Cardinality(PacketBlocks)
      /\ Cardinality(PacketBlocks)' = IF block.type \in {"Packet", "EnhancedPacket"}
                                      THEN Cardinality(PacketBlocks) + 1
                                      ELSE Cardinality(PacketBlocks)
  BY <1>1, <1>2, <1>3, <1>4, NextNumber
<1>6. TableIsSection'
  BY <1>3, <1>4, TableNext
<1>7. packet_index' = Cardinality(PacketBlocks)'
  BY <1>3, <1>4, <1>5 DEF Packet
<1>8. \A b \in DOMAIN blocks : /\ Declared(b)' = Declared(b) /\ IsTcp(b)' = IsTcp(b)
                               /\ Number(b)' = Number(b)
  <2>1. DOMAIN blocks = 1 .. Len(blocks)
    BY <1>4
  <2>2. \A b \in 1 .. Len(blocks) : /\ Declared(b)' = Declared(b) /\ (IsTcp(b)' <=> IsTcp(b))
                                    /\ Number(b)' = Number(b)
    BY <1>2, <1>3, <1>4, EarlierStay
  <2> QED
    BY <2>1, <2>2 DEF IsTcp, IsPacket
<1> DEFINE Read(item, b) == /\ IsTcp(b)
                            /\ item.frame.index = Number(b)
                            /\ item.frame.link_type = Declared(b).link_type
                            /\ item.frame.if_tsresol = Declared(b).if_tsresol
<1>9. \A i \in DOMAIN produced : \E b \in DOMAIN blocks : Read(produced[i], b)
  BY DEF History, OwnInterface
<1>10. \A i \in DOMAIN produced : \E b \in DOMAIN blocks' :
          /\ IsTcp(b)'
          /\ produced[i].frame.index = Number(b)'
          /\ produced[i].frame.link_type = Declared(b)'.link_type
          /\ produced[i].frame.if_tsresol = Declared(b)'.if_tsresol
  <2> TAKE i \in DOMAIN produced
  <2>1. PICK b \in DOMAIN blocks : Read(produced[i], b)
    BY <1>9
  <2>2. b \in DOMAIN blocks'
    BY <1>5
  <2> QED
    BY <1>8, <2>1, <2>2
<1>11. SUFFICES OwnInterface' /\ phase' \notin Starting
  BY <1>5, <1>6, <1>7 DEF History
<1>12. CASE produced' = produced /\ phase' = phase
  BY <1>2, <1>10, <1>12 DEF OwnInterface, Starting
<1>13. CASE ~(produced' = produced /\ phase' = phase)
  <2>1. /\ block.type \in {"Packet", "EnhancedPacket"}
        /\ Packet(block.data, Declared(n)'.link_type, Declared(n)'.if_tsresol)
    BY <1>3, <1>13
  <2>2. parse_tcp_frame(Declared(n)'.link_type, block.data)
    BY <1>13, <2>1 DEF Packet
  <2>3. IsTcp(n)'
    BY <1>5, <2>1, <2>2 DEF IsTcp, IsPacket, parse_tcp_frame
  <2>4. PICK k \in Nat, e \in {0, 1} :
           FrameOutcome(k, e, Declared(n)'.link_type, Declared(n)'.if_tsresol)
    <3>1. PICK lt, ts : lt = Declared(n)'.link_type /\ ts = Declared(n)'.if_tsresol
      OBVIOUS
    <3>2. Packet(block.data, lt, ts) /\ parse_tcp_frame(lt, block.data)
      BY <2>1, <2>2, <3>1
    <3>3. \E k \in Nat, e \in {0, 1} : FrameOutcome(k, e, lt, ts)
      BY <1>4, <3>2, FrameResults
    <3> QED
      BY <3>1, <3>3
  <2>5. n \in DOMAIN blocks' /\ packet_index = Number(n)'
    BY <1>4, <1>5
  <2>6. ASSUME NEW i \in DOMAIN produced'
        PROVE  \E b \in DOMAIN blocks' :
                  /\ IsTcp(b)'
                  /\ produced'[i].frame.index = Number(b)'
                  /\ produced'[i].frame.link_type = Declared(b)'.link_type
                  /\ produced'[i].frame.if_tsresol = Declared(b)'.if_tsresol
    <3>0. Len(produced) \in Nat /\ DOMAIN produced = 1 .. Len(produced)
      BY <1>4 DEF Typed
    <3>1. DOMAIN produced' = 1 .. Len(produced')
      BY ReadKeeps DEF Inv, Typed
    <3>2. CASE i <= Len(produced)
      <4>1. i \in DOMAIN produced /\ produced'[i] = produced[i]
        BY <2>4, <2>6, <3>0, <3>1, <3>2 DEF FrameOutcome
      <4> QED
        BY <1>10, <4>1
    <3>3. CASE ~(i <= Len(produced))
      <4>1. PICK j \in 1 .. k : i = Len(produced) + j
        <5>1. i - Len(produced) \in 1 .. k /\ i = Len(produced) + (i - Len(produced))
          BY <2>4, <2>6, <3>0, <3>1, <3>3 DEF FrameOutcome
        <5> QED
          BY <5>1
      <4>2. /\ produced'[i].frame.index = packet_index
            /\ produced'[i].frame.link_type = Declared(n)'.link_type
            /\ produced'[i].frame.if_tsresol = Declared(n)'.if_tsresol
        BY <2>4, <4>1 DEF FrameOutcome
      <4> QED
        BY <2>3, <2>5, <4>2
    <3> QED
      BY <3>2, <3>3
  <2> QED
    BY <2>4, <2>6 DEF FrameOutcome, OwnInterface, Starting
<1> QED
  BY <1>12, <1>13

\* Reading a block keeps the outputs and the queue in step with the capture.
LEMMA DeliveryRead ==
    ASSUME Inv, Inv', History, Delivery, NextPcapPacket \/ NextBlock
    PROVE  Delivery'
<1>1. PICK n : n = Len(blocks) + 1
  OBVIOUS
<1>2. /\ phase = "read" /\ source' = source /\ outputs' = outputs /\ written' = written
      /\ status = None
  BY <1>1, BlockRead DEF Inv, NotEnded
<1>3. PICK block \in Blocks :
         /\ blocks' = Append(blocks, block)
         /\ \/ /\ block.type \in {"Packet", "EnhancedPacket"}
               /\ Packet(block.data, Declared(n)'.link_type, Declared(n)'.if_tsresol)
            \/ /\ block.type \notin {"Packet", "EnhancedPacket"}
               /\ UNCHANGED <<packet_index, phase, status, queue, produced>>
  BY <1>1, BlockRead
<1>4. /\ blocks \in Seq(Blocks) /\ Typed /\ packet_index = Cardinality(PacketBlocks)
      /\ queue = << >> /\ QueueIsRest /\ LogUpToDate
  BY <1>2 DEF History, Inv, Delivery, Starting
<1>5. /\ TcpNumbers' = IF IsTcp(n)' THEN TcpNumbers \union {packet_index} ELSE TcpNumbers
      /\ \A t \in TcpNumbers : t \in Nat /\ t < packet_index
      /\ packet_index \in Nat
  BY <1>1, <1>2, <1>3, <1>4, TcpNumbersNext
<1>6. blocks'[n] = block
  BY <1>1, <1>3, <1>4
<1>7. IsTcp(n)' <=> /\ block.type \in {"Packet", "EnhancedPacket"}
                    /\ parse_tcp_frame(Declared(n)'.link_type, block.data)
  BY <1>6 DEF IsTcp, IsPacket, parse_tcp_frame
<1>8. PICK w, p : w = written["output"] /\ p = written["packet_output"]
  OBVIOUS
<1>9. w \in Seq(Item) /\ p \in Seq(Item) /\ produced \in Seq(Item) /\ produced' \in Seq(Item)
      /\ queue' \in Seq(Queued)
  BY <1>8 DEF Inv, Typed, Outputs
<1>10. Announced = 0 /\ Len(queue) = 0
  BY <1>4 DEF Announced
<1>11. Len(produced) = Len(w) /\ \A k \in 1 .. Len(w) : w[k] = produced[k]
  <2>1. Len(produced) = Len(w) + 0 - 0 /\ \A k \in 1 .. Len(w) : w[k] = produced[k]
    BY <1>4, <1>8, <1>10 DEF QueueIsRest
  <2> QED
    BY <1>9, <2>1
<1>12. "packet_output" \in outputs =>
          /\ \A i \in DOMAIN p : p[i].frame.index \in TcpNumbers
          /\ \A i \in DOMAIN p : \A m \in 1 .. i - 1 : p[m].frame.index < p[i].frame.index
          /\ \A t \in TcpNumbers : \E i \in DOMAIN p : p[i].frame.index = t
          /\ \A i \in DOMAIN w : \E j \in DOMAIN p : p[j].frame.index = w[i].frame.index
  BY <1>4, <1>8, <1>10 DEF LogUpToDate
<1>13. CASE ~IsTcp(n)'
  <2>1. UNCHANGED <<phase, status, queue, produced>>
    BY <1>3, <1>7, <1>13 DEF Packet
  <2>2. TcpNumbers' = TcpNumbers
    BY <1>5, <1>13
  <2>3. Announced' = Announced
    BY <2>1 DEF Announced
  <2>4. QueueIsRest'
    BY <1>2, <1>4, <2>1, <2>2, <2>3 DEF QueueIsRest, Latest
  <2>5. LogUpToDate'
    BY <1>2, <1>4, <2>1, <2>2, <2>3 DEF LogUpToDate
  <2> QED
    BY <1>2, <2>1, <2>4, <2>5 DEF Delivery
<1>14. CASE IsTcp(n)'
  <2>1. PICK lt, ts : lt = Declared(n)'.link_type /\ ts = Declared(n)'.if_tsresol
    OBVIOUS
  <2>2. Packet(block.data, lt, ts) /\ parse_tcp_frame(lt, block.data)
    BY <1>3, <1>7, <1>14, <2>1
  <2>3. PICK k \in Nat, e \in {0, 1} : FrameOutcome(k, e, lt, ts)
    BY <1>4, <2>2, FrameResults
  <2>4. PICK q \in Nat : q = packet_index
    BY <1>5
  <2>5. /\ TcpNumbers' = TcpNumbers \union {q} /\ Latest(q)'
        /\ \A m \in TcpNumbers : m < q
    <3>1. TcpNumbers' = TcpNumbers \union {q}
      BY <1>5, <1>14, <2>4
    <3>2. q <= q /\ \A m \in TcpNumbers : m <= q /\ m < q
      BY <1>5, <2>4
    <3> QED
      BY <3>1, <3>2 DEF Latest
  <2>6. /\ e = 1 <=> "packet_output" \in outputs
        /\ Len(produced') = Len(w) + k
        /\ \A i \in 1 .. Len(w) : produced'[i] = w[i]
        /\ \A i \in 1 .. k : produced'[Len(w) + i].frame.index = q
        /\ Len(queue') = k + e
        /\ \A i \in 1 .. k : /\ queue'[i + e].to = "output"
                             /\ queue'[i + e].item = produced'[Len(w) + i]
        /\ e = 1 => queue'[1].to = "packet_output" /\ queue'[1].item.frame.index = q
        /\ phase' = "write"
    BY <1>11, <2>3, <2>4 DEF FrameOutcome
  <2>7. ASSUME NEW j \in DOMAIN queue', j # 1 \/ e = 0
        PROVE  \E i \in 1 .. k : j = i + e
    <3>1. j \in 1 .. k + e
      BY <1>9, <2>6
    <3>2. j - e \in 1 .. k /\ j = (j - e) + e
      BY <2>7, <3>1
    <3> QED
      BY <3>2
  <2>8. Announced' = e
    <3>1. CASE e = 1
      <4>1. Len(queue') # 0
        BY <2>6, <3>1
      <4>2. queue' # << >>
        BY <4>1
      <4> QED
        BY <2>6, <3>1, <4>2 DEF Announced
    <3>2. CASE e = 0
      <4>1. queue' # << >> => 1 \in DOMAIN queue'
        BY <1>9
      <4>2. queue' # << >> => queue'[1].to = "output"
        BY <2>6, <2>7, <3>2, <4>1
      <4> QED
        BY <3>2, <4>2 DEF Announced
    <3> QED
      BY <3>1, <3>2
  <2>9. QueueIsRest'
    <3>1. \A j \in DOMAIN queue' : j # 1 => queue'[j].to = "output"
      BY <2>6, <2>7
    <3>2. ASSUME NEW j \in DOMAIN queue' PROVE queue'[j].item.frame.index = q
      <4>1. CASE j = 1 /\ e = 1
        BY <2>6, <4>1
      <4>2. CASE ~(j = 1 /\ e = 1)
        <5>1. PICK i \in 1 .. k : j = i + e
          BY <2>7, <4>2
        <5>2. queue'[j].item = produced'[Len(w) + i]
          BY <2>6, <5>1
        <5> QED
          BY <2>6, <5>2
      <4> QED
        BY <4>1, <4>2
    <3>3. \A j \in DOMAIN queue' : Latest(queue[j].item.frame.index)'
      BY <2>5, <3>2 DEF Latest
    <3>4. Len(w) + k + e - e = Len(w) + k /\ k + e - e = k /\ Len(w) + (k + e) - e = Len(w) + k
      BY <1>9
    <3>5. w = written'["output"]
      BY <1>2, <1>8
    <3>6. Len(produced') = Len(w) + Len(queue') - e /\ Len(queue') - e = k
      BY <2>6, <3>4
    <3>7. \A i \in 1 .. Len(queue') - e : produced'[Len(w) + i] = queue'[i + e].item
      BY <2>6, <3>6
    <3>8. \A i \in 1 .. Len(w) : w[i] = produced'[i]
      BY <2>6
    <3> QED
      BY <2>8, <3>1, <3>3, <3>5, <3>6, <3>7, <3>8, Zenon DEF QueueIsRest
  <2>10. LogUpToDate'
    <3>1. SUFFICES ASSUME "packet_output" \in outputs PROVE LogUpToDate'
      BY <1>2 DEF LogUpToDate
    <3>2. e = 1 /\ queue'[1].item.frame.index = q
      BY <2>6, <3>1
    <3>3. \A i \in DOMAIN p : p[i].frame.index \in TcpNumbers' /\ p[i].frame.index < q
      BY <1>12, <2>5, <3>1
    <3>4. \A t \in TcpNumbers' : (\E i \in DOMAIN p : p[i].frame.index = t) \/ t = q
      BY <1>12, <2>5, <3>1
    <3>5. w = written'["output"] /\ p = written'["packet_output"]
      BY <1>2, <1>8
    <3> QED
      BY <1>12, <2>8, <3>1, <3>2, <3>3, <3>4, <3>5 DEF LogUpToDate
  <2> QED
    BY <2>6, <2>9, <2>10 DEF Delivery, Starting
<1> QED
  BY <1>13, <1>14

\* Where nothing was read, the outputs have nothing to follow.
LEMMA NothingRead ==
    ASSUME blocks = << >>, produced = << >>, queue = << >>, \A o \in Outputs : written[o] = << >>
    PROVE  QueueIsRest /\ LogUpToDate
<1>1. Announced = 0 /\ TcpNumbers = {}
  BY DEF Announced, TcpNumbers
<1>2. written["output"] = << >> /\ written["packet_output"] = << >>
  BY DEF Outputs
<1>3. QueueIsRest
  BY <1>1, <1>2 DEF QueueIsRest
<1>4. LogUpToDate
  BY <1>1, <1>2 DEF LogUpToDate
<1> QED
  BY <1>3, <1>4

\* Writing the next item keeps the queue the rest of what was produced and the
\* log up to date.
LEMMA DeliveryWrite ==
    ASSUME Inv, Delivery, WriteNext
    PROVE  Delivery'
<1>1. /\ phase = "write" /\ queue # << >>
      /\ UNCHANGED <<blocks, source, outputs, produced>>
      /\ Typed /\ QueueIsRest /\ LogUpToDate
      /\ \A i \in DOMAIN queue : queue[i].to \in outputs
  BY DEF WriteNext, inputVars, Inv, Delivery, LogIsNdjson, Reading
<1>2. TcpNumbers' = TcpNumbers
  BY <1>1 DEF TcpNumbers, IsTcp, IsPacket, Number, Declared
<1>3. PICK h, o : h = Head(queue) /\ o = Head(queue).to
  OBVIOUS
<1>4. queue \in Seq(Queued) /\ produced \in Seq(Item) /\ written \in [Outputs -> Seq(Item)]
  BY <1>1 DEF Typed
<1>5. /\ h = queue[1] /\ 1 \in DOMAIN queue /\ o = h.to /\ o \in outputs /\ o \in Outputs
      /\ h.item \in Item /\ DOMAIN queue = 1 .. Len(queue) /\ Len(queue) \in Nat \ {0}
  <2>1. h = queue[1] /\ 1 \in DOMAIN queue /\ DOMAIN queue = 1 .. Len(queue)
        /\ Len(queue) \in Nat \ {0} /\ h \in Queued
    BY <1>1, <1>3, <1>4
  <2> QED
    BY <1>1, <1>3, <2>1 DEF Queued
<1>6. ~(o = "packet_output" /\ cli.format = "ek")
  BY <1>1, <1>5 DEF Inv, LogIsNdjson, Accepted
<1>7. /\ queue' = Tail(queue) /\ phase' = phase /\ status' = status
      /\ written' = [written EXCEPT ![o] = Append(@, h.item)]
  BY <1>3, <1>6 DEF WriteNext
<1>8. /\ Len(queue') = Len(queue) - 1 /\ DOMAIN queue' = 1 .. Len(queue) - 1
      /\ \A k \in 1 .. Len(queue) - 1 : queue'[k] = queue[k + 1] /\ k + 1 \in DOMAIN queue
                                        /\ k + 1 # 1
  BY <1>1, <1>4, <1>5, <1>7
<1>9. PICK w, p, v, r \in Seq(Item) :
        /\ w = written["output"] /\ p = written["packet_output"]
        /\ v = written'["output"] /\ r = written'["packet_output"]
  <2>1. \A u \in Seq(Item), i \in Item : Append(u, i) \in Seq(Item)
    OBVIOUS
  <2>2. \A x \in Outputs : written'[x] = IF x = o THEN Append(written[x], h.item) ELSE written[x]
    BY <1>4, <1>5, <1>7
  <2>3. \A x \in Outputs : written'[x] \in Seq(Item)
    BY <1>4, <1>5, <2>1, <2>2, Zenon
  <2>4. "output" \in Outputs /\ "packet_output" \in Outputs
    BY DEF Outputs
  <2> QED
    BY <1>4, <2>3, <2>4
<1>10. /\ v = IF o = "output" THEN Append(w, h.item) ELSE w
       /\ r = IF o = "packet_output" THEN Append(p, h.item) ELSE p
  BY <1>4, <1>5, <1>7, <1>9 DEF Outputs
<1>11. Announced' = 0
  <2>1. queue' # << >> => 1 \in 1 .. Len(queue) - 1
    BY <1>4, <1>7, <1>8
  <2>2. queue' # << >> => queue'[1].to = "output"
    BY <1>1, <1>8, <2>1 DEF QueueIsRest
  <2> QED
    BY <2>2 DEF Announced
<1>12. /\ \A k \in DOMAIN queue : k # 1 => queue[k].to = "output"
       /\ \A k \in DOMAIN queue : Latest(queue[k].item.frame.index)
       /\ Len(produced) = Len(w) + Len(queue) - Announced
       /\ \A k \in 1 .. Len(w) : w[k] = produced[k]
       /\ \A k \in 1 .. Len(queue) - Announced :
             produced[Len(w) + k] = queue[k + Announced].item
  BY <1>1, <1>9 DEF QueueIsRest
<1>13. "packet_output" \in outputs =>
          /\ \A n \in DOMAIN p : p[n].frame.index \in TcpNumbers
          /\ \A n \in DOMAIN p : \A m \in 1 .. n - 1 : p[m].frame.index < p[n].frame.index
          /\ \A t \in TcpNumbers : \/ \E n \in DOMAIN p : p[n].frame.index = t
                                   \/ Announced = 1 /\ t = queue[1].item.frame.index
          /\ Announced = 1 => \A n \in DOMAIN p : p[n].frame.index < queue[1].item.frame.index
          /\ \A i \in DOMAIN w : \E n \in DOMAIN p : p[n].frame.index = w[i].frame.index
  BY <1>1, <1>9 DEF LogUpToDate
<1>14. /\ \A k \in DOMAIN queue' : queue'[k].to = "output"
       /\ \A k \in DOMAIN queue' : Latest(queue[k].item.frame.index)'
  <2>1. \A k \in DOMAIN queue' : queue'[k].to = "output" /\ Latest(queue'[k].item.frame.index)
    <3> TAKE k \in DOMAIN queue'
    <3>1. queue'[k] = queue[k + 1] /\ k + 1 \in DOMAIN queue /\ k + 1 # 1
      BY <1>8
    <3>2. queue[k + 1].to = "output" /\ Latest(queue[k + 1].item.frame.index)
      BY <1>12, <3>1, Zenon
    <3> QED
      BY <3>1, <3>2
  <2> QED
    BY <1>2, <2>1 DEF Latest
<1>15. h.item.frame.index \in TcpNumbers
  BY <1>5, <1>12 DEF Latest
<1>16. SUFFICES /\ Len(produced) = Len(v) + Len(queue')
                /\ \A k \in 1 .. Len(v) : v[k] = produced[k]
                /\ \A k \in 1 .. Len(queue') : produced[Len(v) + k] = queue'[k].item
                /\ "packet_output" \in outputs =>
                      /\ \A n \in DOMAIN r : r[n].frame.index \in TcpNumbers
                      /\ \A n \in DOMAIN r : \A m \in 1 .. n - 1 : r[m].frame.index < r[n].frame.index
                      /\ \A t \in TcpNumbers : \E n \in DOMAIN r : r[n].frame.index = t
                      /\ \A i \in DOMAIN v : \E n \in DOMAIN r : r[n].frame.index = v[i].frame.index
  <2>1. QueueIsRest'
    <3>1. Len(v) + Len(queue') - 0 = Len(v) + Len(queue') /\ Len(queue') - 0 = Len(queue')
          /\ \A k \in 1 .. Len(queue') : k + 0 = k
      BY <1>5, <1>8, <1>9
    <3>2. Len(produced') = Len(v) + Len(queue') - Announced'
      BY <1>1, <1>11, <1>16, <3>1
    <3>3. \A k \in 1 .. Len(queue') - Announced' : produced'[Len(v) + k] = queue'[k + Announced'].item
      BY <1>1, <1>11, <1>16, <3>1
    <3> QED
      BY <1>1, <1>9, <1>14, <1>16, <3>2, <3>3, Zenon DEF QueueIsRest
  <2>2. LogUpToDate'
    BY <1>1, <1>2, <1>9, <1>11, <1>16 DEF LogUpToDate
  <2> QED
    BY <1>1, <1>7, <2>1, <2>2 DEF Delivery, Starting
<1>17. CASE o = "packet_output"
  <2>1. Announced = 1
    BY <1>1, <1>5, <1>17 DEF Announced
  <2>2. v = w /\ r = Append(p, h.item) /\ "packet_output" \in outputs
    BY <1>5, <1>10, <1>17
  <2>3. /\ Len(r) = Len(p) + 1 /\ r[Len(p) + 1] = h.item /\ \A n \in 1 .. Len(p) : r[n] = p[n]
        /\ DOMAIN r = (DOMAIN p) \union {Len(p) + 1} /\ DOMAIN p = 1 .. Len(p) /\ Len(p) \in Nat
    BY <1>5, <1>9, <2>2
  <2>4. /\ Len(produced) = Len(v) + Len(queue')
        /\ \A k \in 1 .. Len(queue') : produced[Len(v) + k] = queue'[k].item
    <3>1. Len(produced) = Len(w) + Len(queue) - 1 /\ Len(w) \in Nat
      BY <1>9, <1>12, <2>1
    <3>2. \A k \in 1 .. Len(queue) - 1 : produced[Len(w) + k] = queue[k + 1].item
      BY <1>12, <2>1
    <3> QED
      BY <1>5, <1>8, <2>2, <3>1, <3>2
  <2>5. \A n \in DOMAIN r : r[n].frame.index \in TcpNumbers
    BY <1>13, <1>15, <2>2, <2>3
  <2>6. \A n \in DOMAIN r : \A m \in 1 .. n - 1 : r[m].frame.index < r[n].frame.index
    <3>1. ASSUME NEW n \in DOMAIN p, NEW m \in 1 .. n - 1
          PROVE  r[m].frame.index < r[n].frame.index
      <4>1. m \in 1 .. Len(p) /\ n \in 1 .. Len(p)
        BY <2>3, <3>1
      <4> QED
        BY <1>13, <2>2, <2>3, <3>1, <4>1
    <3>2. ASSUME NEW m \in 1 .. Len(p)
          PROVE  r[m].frame.index < r[Len(p) + 1].frame.index
      BY <1>5, <1>13, <2>1, <2>2, <2>3
    <3>3. Len(p) + 1 - 1 = Len(p)
      BY <2>3
    <3> QED
      BY <2>3, <3>1, <3>2, <3>3
  <2>7. \A t \in TcpNumbers : \E n \in DOMAIN r : r[n].frame.index = t
    BY <1>5, <1>13, <2>2, <2>3
  <2>8. \A i \in DOMAIN v : \E n \in DOMAIN r : r[n].frame.index = v[i].frame.index
    BY <1>13, <2>2, <2>3
  <2> QED
    BY <1>12, <2>2, <2>4, <2>5, <2>6, <2>7, <2>8
<1>18. CASE o # "packet_output"
  <2>1. o = "output" /\ Announced = 0
    BY <1>1, <1>5, <1>18 DEF Announced, Outputs
  <2>2. v = Append(w, h.item) /\ r = p
    BY <1>10, <1>18, <2>1
  <2>3. /\ Len(v) = Len(w) + 1 /\ v[Len(w) + 1] = h.item /\ \A n \in 1 .. Len(w) : v[n] = w[n]
        /\ DOMAIN v = (DOMAIN w) \union {Len(w) + 1} /\ DOMAIN w = 1 .. Len(w) /\ Len(w) \in Nat
        /\ 1 .. Len(w) + 1 = (1 .. Len(w)) \union {Len(w) + 1}
    BY <1>5, <1>9, <2>2
  <2>4. /\ Len(produced) = Len(w) + Len(queue)
        /\ \A k \in 1 .. Len(queue) : produced[Len(w) + k] = queue[k].item
    <3>1. /\ Len(w) + Len(queue) - 0 = Len(w) + Len(queue) /\ Len(queue) - 0 = Len(queue)
          /\ \A k \in 1 .. Len(queue) : k + 0 = k
      BY <1>5, <2>3
    <3> QED
      BY <1>12, <2>1, <3>1
  <2>5. h.item = produced[Len(w) + 1]
    BY <1>5, <2>4
  <2>6. Len(produced) = Len(v) + Len(queue')
    BY <1>5, <1>8, <2>3, <2>4
  <2>7. \A k \in 1 .. Len(v) : v[k] = produced[k]
    BY <1>12, <2>3, <2>5
  <2>8. \A k \in 1 .. Len(queue') : produced[Len(v) + k] = queue'[k].item
    <3> TAKE k \in 1 .. Len(queue')
    <3>1. k + 1 \in 1 .. Len(queue) /\ queue'[k] = queue[k + 1] /\ Len(v) + k = Len(w) + (k + 1)
      BY <1>5, <1>8, <2>3
    <3> QED
      BY <2>4, <3>1
  <2>9. "packet_output" \in outputs =>
           /\ \A t \in TcpNumbers : \E n \in DOMAIN r : r[n].frame.index = t
           /\ \A i \in DOMAIN v : \E n \in DOMAIN r : r[n].frame.index = v[i].frame.index
    <3>1. "packet_output" \in outputs =>
             \A t \in TcpNumbers : \E n \in DOMAIN r : r[n].frame.index = t
      BY <1>13, <2>1, <2>2
    <3>2. ASSUME "packet_output" \in outputs, NEW i \in DOMAIN v
          PROVE  \E n \in DOMAIN r : r[n].frame.index = v[i].frame.index
      <4>1. CASE i = Len(w) + 1
        BY <1>15, <2>3, <3>1, <3>2, <4>1
      <4>2. CASE i # Len(w) + 1
        <5>1. i \in DOMAIN w /\ v[i] = w[i]
          BY <2>3, <4>2
        <5> QED
          BY <1>13, <2>2, <3>2, <5>1, Zenon
      <4> QED
        BY <4>1, <4>2
    <3> QED
      BY <3>1, <3>2
  <2> QED
    BY <1>13, <2>2, <2>6, <2>7, <2>8, <2>9
<1> QED
  BY <1>17, <1>18

\* Before the capture is read there is no history.
LEMMA StartHistory ==
    ASSUME Inv, History, Delivery,
           \/ Validate \/ OpenKeylog \/ LoadPlugins \/ PluginsLoaded \/ BuildOutputs
           \/ ReadMagic \/ OpenCapture
    PROVE  History' /\ Delivery'
<1>1. /\ phase \in Starting /\ blocks = << >> /\ produced = << >> /\ queue = << >>
      /\ \A o \in Outputs : written[o] = << >>
      /\ UNCHANGED <<interfaces, packet_index, blocks, queue, written, produced>>
  <2>1. /\ phase \in Starting
        /\ UNCHANGED <<interfaces, packet_index, blocks, queue, written, produced>>
    BY DEF Validate, OpenKeylog, LoadPlugins, PluginsLoaded, BuildOutputs, ReadMagic,
           OpenCapture, inputVars, outputVars, Starting
  <2> QED
    BY <2>1 DEF History, Delivery
<1>2. History'
  <2>1. PacketBlocks' = PacketBlocks
    BY <1>1 DEF PacketBlocks, IsPacket
  <2>2. TableIsSection'
    BY <1>1 DEF History, TableIsSection
  <2>3. OwnInterface'
    BY <1>1 DEF OwnInterface
  <2> QED
    BY <1>1, <2>1, <2>2, <2>3 DEF History
<1>3. Delivery'
  <2>1. Announced' = 0 /\ TcpNumbers' = {}
    BY <1>1 DEF Announced, TcpNumbers
  <2>2. written'["output"] = << >> /\ written'["packet_output"] = << >>
    BY <1>1 DEF Outputs
  <2>3. QueueIsRest'
    BY <1>1, <2>1, <2>2 DEF QueueIsRest
  <2>4. LogUpToDate'
    BY <2>1, <2>2 DEF LogUpToDate
  <2> QED
    BY <1>1, <2>3, <2>4 DEF Delivery
<1> QED
  BY <1>2, <1>3

\* What is said of the frames produced only depends on the capture.
LEMMA OwnInterfaceKept ==
    ASSUME OwnInterface, UNCHANGED <<blocks, source, produced>>
    PROVE  OwnInterface'
<1>1. \A b : /\ Declared(b)' = Declared(b) /\ Number(b)' = Number(b)
             /\ IsTcp(b)' <=> IsTcp(b)
  <2> TAKE b
  <2>1. Declared(b)' = Declared(b)
    BY DEF Declared
  <2>2. Number(b)' = Number(b)
    BY DEF Number, IsPacket
  <2> QED
    BY <2>1, <2>2 DEF IsTcp, IsPacket
<1> QED
  BY <1>1 DEF OwnInterface

\* Steps that neither read nor write leave all of it as it is.
LEMMA RestHistory ==
    ASSUME Inv, History, Delivery,
           \/ EndOfCapture \/ WriteFails \/ FrameWritten \/ FinishOutputs \/ RunFails
           \/ UNCHANGED vars
    PROVE  History' /\ Delivery'
<1>1. /\ UNCHANGED <<source, interfaces, packet_index, blocks, outputs, queue, written, produced>>
      /\ \/ UNCHANGED <<phase, status>>
         \/ phase = "read" /\ phase' = "finish"
         \/ phase \in {"write", "finish"} /\ phase' = "drop"
         \/ phase = "write" /\ queue = << >> /\ phase' = "read"
         \/ phase = "finish" /\ phase' = "exit"
         \/ phase = "drop" /\ phase' = "exit" /\ status' = "1"
  <2>1. CASE EndOfCapture
    BY <2>1 DEF EndOfCapture, Go, inputVars, outputVars
  <2>2. CASE WriteFails
    BY <2>2 DEF WriteFails, Failed, Go, inputVars
  <2>3. CASE FrameWritten
    BY <2>3 DEF FrameWritten, Go, inputVars, outputVars
  <2>4. CASE FinishOutputs
    BY <2>4 DEF FinishOutputs, Failed, Go, Exit, inputVars
  <2>5. CASE RunFails
    BY <2>5 DEF RunFails, Exit, inputVars
  <2>6. CASE UNCHANGED vars
    BY <2>6 DEF vars, inputVars, outputVars
  <2> QED
    BY <2>1, <2>2, <2>3, <2>4, <2>5, <2>6
<1>2. /\ PacketBlocks' = PacketBlocks /\ TcpNumbers' = TcpNumbers /\ Announced' = Announced
      /\ TableIsSection' = TableIsSection
  BY <1>1 DEF PacketBlocks, IsPacket, TcpNumbers, IsTcp, Number, Declared, Announced,
              TableIsSection
<1>3. OwnInterface'
  BY <1>1, OwnInterfaceKept DEF History
<1>4. History'
  BY <1>1, <1>2, <1>3 DEF History, Starting
<1>5. QueueIsRest'
  BY <1>1, <1>2 DEF Delivery, QueueIsRest, Latest
<1>6. LogUpToDate'
  BY <1>1, <1>2 DEF Delivery, LogUpToDate
<1>7. /\ (phase \in Starting \union {"read", "finish"})' => queue' = << >>
      /\ phase' = "exit" /\ status' = "0" => queue' = << >>
      /\ phase' \in Starting => \A o \in Outputs : written'[o] = << >>
  BY <1>1 DEF Delivery, Starting
<1> QED
  BY <1>4, <1>5, <1>6, <1>7 DEF Delivery

\* The history holds throughout.
LEMMA HistoryInvariance == Spec => [](Inv /\ History /\ Delivery)
<1>1. Init => Inv /\ History /\ Delivery
  <2> SUFFICES ASSUME Init PROVE Inv /\ History /\ Delivery
    OBVIOUS
  <2>1. /\ blocks = << >> /\ produced = << >> /\ queue = << >> /\ interfaces = << >>
        /\ packet_index = 0 /\ \A o \in Outputs : written[o] = << >>
    BY DEF Init, Outputs
  <2>2. blocks \in Seq(Blocks)
    BY <2>1
  <2>3. PacketBlocks = {} /\ Described(blocks, Len(blocks)) = {}
    BY <2>1 DEF PacketBlocks, Described
  <2>4. Cardinality({}) = 0
    BY FS_EmptySet
  <2>5. TableIsSection
    <3>1. Len(interfaces) = 0 /\ 1 .. 0 = {}
      BY <2>1
    <3> QED
      BY <2>3, <2>4, <3>1 DEF TableIsSection
  <2>6. OwnInterface
    BY <2>1 DEF OwnInterface
  <2>7. History
    BY <2>1, <2>2, <2>3, <2>4, <2>5, <2>6 DEF History
  <2> QED
    BY <2>1, <2>7, Initially, NothingRead DEF Delivery
<1>2. Inv /\ History /\ Delivery /\ [Next]_vars => (Inv /\ History /\ Delivery)'
  <2> SUFFICES ASSUME Inv, History, Delivery, [Next]_vars PROVE (Inv /\ History /\ Delivery)'
    OBVIOUS
  <2>1. Inv'
    BY InvKept
  <2>2. CASE NextPcapPacket \/ NextBlock
    BY <2>1, <2>2, HistoryRead, DeliveryRead
  <2>3. CASE WriteNext
    <3>1. UNCHANGED <<phase, source, interfaces, packet_index, blocks, produced>>
      <4>1. phase' = phase
        BY <2>1, <2>3, StatusAssumption DEF WriteNext, Exit, Inv, NeverPanics
      <4> QED
        BY <2>3, <4>1 DEF WriteNext, inputVars
    <3>2. PacketBlocks' = PacketBlocks /\ TableIsSection' = TableIsSection
      BY <3>1 DEF PacketBlocks, IsPacket, TableIsSection
    <3>3. OwnInterface'
      BY <3>1, OwnInterfaceKept DEF History
    <3>4. History'
      BY <3>1, <3>2, <3>3 DEF History
    <3> QED
      BY <2>1, <2>3, <3>4, DeliveryWrite
  <2> QED
    BY <2>1, <2>2, <2>3, StartHistory, RestHistory DEF Next, Exited
<1> QED
  BY <1>1, <1>2, PTL DEF Spec

\* Every message is of a TCP frame of the capture, read with the link type and
\* the time resolution its own section gave its interface, and numbered by the
\* packets before it, for every capture.
THEOREM FramesReadAsDeclared == Spec => []OwnInterface
<1>1. Inv /\ History /\ Delivery => OwnInterface
  BY DEF History
<1> QED
  BY <1>1, HistoryInvariance, PTL

\* Whatever fails and when, the log and the output are what the capture gives, in
\* its order, up to its last TCP frame at most; status 0 means that nothing is
\* missing.
THEOREM OutputsInStep == Spec => []OutputsFollowCapture
<1>1. Inv /\ History /\ Delivery => OutputsFollowCapture
  <2> SUFFICES ASSUME Inv, History, Delivery PROVE OutputsFollowCapture
    OBVIOUS
  <2>1. PICK w \in Seq(Item) : w = written["output"]
    BY DEF Inv, Typed, Outputs
  <2>2. produced \in Seq(Item) /\ queue \in Seq(Queued) /\ QueueIsRest /\ LogUpToDate
    BY DEF Inv, Typed, Delivery
  <2>3. Announced \in {0, 1} /\ Announced <= Len(queue) /\ Len(queue) \in Nat /\ Len(w) \in Nat
    BY <2>1, <2>2 DEF Announced
  <2>4. /\ Len(produced) = Len(w) + Len(queue) - Announced
        /\ \A k \in 1 .. Len(w) : w[k] = produced[k]
        /\ \A k \in 1 .. Len(queue) - Announced :
              produced[Len(w) + k] = queue[k + Announced].item
        /\ \A k \in DOMAIN queue : Latest(queue[k].item.frame.index)
    BY <2>1, <2>2 DEF QueueIsRest
  <2>5. w = SubSeq(produced, 1, Len(w))
    <3>1. Len(w) <= Len(produced)
      BY <2>3, <2>4
    <3> QED
      BY <2>1, <2>2, <2>4, <3>1
  <2>6. phase = "exit" /\ status = "0" => queue = << >>
    BY DEF Delivery
  <2>7. ASSUME NEW i \in Len(w) + 1 .. Len(produced)
        PROVE  queue # << >> /\ Latest(produced[i].frame.index)
    <3>1. PICK k \in 1 .. Len(queue) - Announced : i = Len(w) + k
      <4>1. i - Len(w) \in 1 .. Len(queue) - Announced /\ i = Len(w) + (i - Len(w))
        BY <2>3, <2>4, <2>7
      <4> QED
        BY <4>1
    <3>2. k + Announced \in 1 .. Len(queue) /\ DOMAIN queue = 1 .. Len(queue)
      BY <2>2, <2>3, <3>1
    <3>3. queue # << >>
      BY <3>2
    <3> QED
      BY <2>4, <3>1, <3>2, <3>3
  <2>8. Announced = 1 => queue # << >> /\ Latest(queue[1].item.frame.index)
    <3>1. Announced = 1 => queue # << >> /\ 1 \in DOMAIN queue
      BY <2>2 DEF Announced
    <3> QED
      BY <2>4, <3>1
  <2> QED
    BY <2>1, <2>2, <2>5, <2>6, <2>7, <2>8 DEF OutputsFollowCapture, LogUpToDate
<1> QED
  BY <1>1, HistoryInvariance, PTL
-----------------------------------------------------------------------------
(* The plugins.                                                            *)

\* The plugins directory d listed that register a port.
Of(d, port) == {p \in listed[d] : p.lua /\ port \in p.ports}

\* The entry of a port is what the first n directories give it.
FromDirs(n, port, entry) ==
    /\ (\A d \in 1 .. n : Of(d, port) = {}) => entry = None
    /\ \A d \in 1 .. n :
          Of(d, port) # {} /\ (\A e \in d + 1 .. n : Of(e, port) = {}) =>
              /\ entry.from = d /\ entry.plugin \in Of(d, port)
              /\ \A p \in Of(d, port) : p.path <= entry.plugin.path

\* The entry of a port while the sorted plugins of directory d are loaded: it is
\* of an earlier directory as long as none of those loaded registers the port.
FromBatch(d, port, entry) ==
    LET loaded == {p \in Of(d, port) : \A i \in DOMAIN paths : paths[i] # p}
    IN  \/ loaded = {} /\ FromDirs(d - 1, port, entry)
        \/ /\ entry.from = d /\ entry.plugin \in Of(d, port)
           /\ \A p \in loaded : p.path <= entry.plugin.path
           /\ \A i \in DOMAIN paths : entry.plugin.path <= paths[i].path

\* The entry of a port when k scripts are loaded.
FromScripts(k, port, entry) ==
    \/ /\ \A s \in 1 .. k : port \notin lua_scripts[s].ports
       /\ FromDirs(Len(plugin_dirs), port, entry)
    \/ \E s \in 1 .. k : /\ port \in lua_scripts[s].ports
                         /\ \A t \in s + 1 .. k : port \notin lua_scripts[t].ports
                         /\ entry = [from |-> Scripts, plugin |-> lua_scripts[s]]

\* Of directory d the plugins not yet loaded are left, in their order and after
\* those loaded.
InOrder(d) ==
    /\ paths \in Seq(Plugin) /\ Sorted(paths)
    /\ \A i \in DOMAIN paths : paths[i] \in listed[d] /\ paths[i].lua
    /\ \A p \in listed[d] : p.lua =>
          \/ \E i \in DOMAIN paths : paths[i] = p
          \/ \A i \in DOMAIN paths : p.path <= paths[i].path

Dirs == Len(plugin_dirs)

ScriptsLeft(k) ==
    /\ paths \in Seq(Plugin) /\ Len(paths) = Len(lua_scripts) - k
    /\ \A i \in DOMAIN paths : paths[i] = lua_scripts[i + k]

Loading ==
    load \in {"running", "done"} =>
        /\ dirs_read \in 0 .. Dirs + 1
        /\ listed \in Seq(SUBSET Plugin)
        /\ Len(listed) = IF dirs_read = Dirs + 1 THEN Dirs ELSE dirs_read
        /\ dirs_read = 0 => paths = << >> /\ \A port \in Ports : tls_port_registry[port] = None
        /\ dirs_read \in 1 .. Dirs =>
              /\ InOrder(dirs_read)
              /\ \A port \in Ports : FromBatch(dirs_read, port, tls_port_registry[port])
        /\ dirs_read = Dirs + 1 => \E k \in 0 .. Len(lua_scripts) :
              /\ ScriptsLeft(k)
              /\ \A port \in Ports : FromScripts(k, port, tls_port_registry[port])
        /\ load = "done" => dirs_read = Dirs + 1 /\ paths = << >>

\* A directory whose plugins are all loaded has given its entries.
LEMMA BatchDone ==
    ASSUME NEW d \in Nat \ {0}, NEW port, NEW entry, paths = << >>, FromBatch(d, port, entry)
    PROVE  FromDirs(d, port, entry)
<1>1. DOMAIN paths = {}
  OBVIOUS
<1>2. {p \in Of(d, port) : \A i \in DOMAIN paths : paths[i] # p} = Of(d, port)
  BY <1>1
<1>3. CASE Of(d, port) = {} /\ FromDirs(d - 1, port, entry)
  <2>1. \A e \in 1 .. d : e \in 1 .. d - 1 \/ e = d
    OBVIOUS
  <2>2. (\A e \in 1 .. d : Of(e, port) = {}) => entry = None
    BY <1>3 DEF FromDirs
  <2>3. ASSUME NEW e \in 1 .. d, Of(e, port) # {}, \A f \in e + 1 .. d : Of(f, port) = {}
        PROVE  /\ entry.from = e /\ entry.plugin \in Of(e, port)
               /\ \A p \in Of(e, port) : p.path <= entry.plugin.path
    <3>1. e \in 1 .. d - 1
      BY <1>3, <2>1, <2>3
    <3>2. \A f \in e + 1 .. d - 1 : Of(f, port) = {}
      BY <2>3
    <3> QED
      BY <1>3, <2>3, <3>1, <3>2 DEF FromDirs
  <2> QED
    BY <2>2, <2>3 DEF FromDirs
<1>4. CASE /\ entry.from = d /\ entry.plugin \in Of(d, port)
           /\ \A p \in Of(d, port) : p.path <= entry.plugin.path
  <2>1. Of(d, port) # {} /\ d \in 1 .. d
    BY <1>4
  <2>2. \A e \in 1 .. d : (\A f \in e + 1 .. d : Of(f, port) = {}) => e = d
    <3> SUFFICES ASSUME NEW e \in 1 .. d, e # d PROVE d \in e + 1 .. d
      BY <2>1
    <3> QED
      OBVIOUS
  <2> QED
    BY <1>4, <2>1, <2>2 DEF FromDirs
<1> QED
  BY <1>2, <1>3, <1>4 DEF FromBatch

\* When nothing is left to load of the directories read, they have given every
\* port its entry.
LEMMA DirsDone ==
    ASSUME Loading, load = "running", paths = << >>, dirs_read \in 0 .. Dirs, NEW port \in Ports
    PROVE  FromDirs(dirs_read, port, tls_port_registry[port])
<1>1. Dirs \in Nat
  BY PluginsAssumption DEF Dirs
<1>2. CASE dirs_read = 0
  BY <1>1, <1>2 DEF Loading, FromDirs
<1>3. CASE dirs_read # 0
  <2>1. dirs_read \in 1 .. Dirs /\ dirs_read \in Nat \ {0}
    BY <1>1, <1>3
  <2>2. FromBatch(dirs_read, port, tls_port_registry[port])
    BY <2>1 DEF Loading
  <2> QED
    BY <2>1, <2>2, BatchDone
<1> QED
  BY <1>2, <1>3
\* What a directory's iterator returned is listed once, each in its place.
LEMMA ListingComplete ==
    ASSUME NEW S, IsFiniteSet(S), NEW s \in SetToSeqs(S)
    PROVE  /\ s \in Seq(S)
           /\ \A p \in S : \E i \in DOMAIN s : s[i] = p
<1>1. PICK n \in Nat : n = Cardinality(S)
  BY FS_CardinalityType
<1>2. s \in [1 .. n -> S] /\ \A i, j \in 1 .. n : i # j => s[i] # s[j]
  BY <1>1 DEF SetToSeqs
<1>3. s \in Injection(1 .. n, S)
  BY <1>2 DEF Injection, IsInjective
<1>4. Cardinality(1 .. n) = n
  BY <1>1, FS_Interval
<1>5. s \in Surjection(1 .. n, S)
  BY <1>1, <1>3, <1>4, FS_Injection
<1> QED
  BY <1>2, <1>5 DEF Surjection

\* The entries of the directories read before do not change.
LEMMA EarlierListed ==
    ASSUME listed \in Seq(SUBSET Plugin), NEW n \in Nat, n <= Len(listed), NEW entries,
           listed' = Append(listed, entries), NEW port, NEW entry, FromDirs(n, port, entry)
    PROVE  FromDirs(n, port, entry)'
<1>1. \A d \in 1 .. n : listed'[d] = listed[d]
  OBVIOUS
<1>2. \A d \in 1 .. n : Of(d, port)' = Of(d, port)
  BY <1>1 DEF Of
<1>3. \A d \in 1 .. n : \A e \in d + 1 .. n : e \in 1 .. n
  OBVIOUS
<1> QED
  BY <1>2, <1>3 DEF FromDirs

LEMMA DirectoryKeepsLoading ==
    ASSUME Loading, load_directory
    PROVE  Loading'
<1>1. Dirs \in Nat /\ plugin_dirs \in Seq({None} \union SUBSET Plugin)
  BY PluginsAssumption DEF Dirs
<1>2. /\ load = "running" /\ load' = load /\ paths = << >>
      /\ tls_port_registry' = tls_port_registry
      /\ dirs_read \in 0 .. Dirs /\ dirs_read < Dirs /\ dirs_read' = dirs_read + 1
      /\ listed \in Seq(SUBSET Plugin) /\ Len(listed) = dirs_read
  BY <1>1 DEF Loading, load_directory, Dirs
<1>3. PICK entries :
         /\ entries \in IF plugin_dirs[dirs_read + 1] = None THEN {{}}
                        ELSE SUBSET plugin_dirs[dirs_read + 1]
         /\ \E listing \in SetToSeqs({p \in entries : p.lua}) :
               Sorted(listing) /\ paths' = listing
         /\ listed' = Append(listed, entries)
  BY DEF load_directory
<1>4. PICK listing \in SetToSeqs({p \in entries : p.lua}) : Sorted(listing) /\ paths' = listing
  BY <1>3
<1>5. PICK r \in Nat : r = dirs_read + 1 /\ r \in 1 .. Dirs /\ r \in DOMAIN plugin_dirs
  BY <1>1, <1>2 DEF Dirs
<1>6. IsFiniteSet(entries) /\ entries \in SUBSET Plugin
  <2>1. CASE plugin_dirs[r] = None
    BY <1>3, <1>5, <2>1, FS_EmptySet
  <2>2. CASE plugin_dirs[r] # None
    <3>1. plugin_dirs[r] \in SUBSET Plugin /\ IsFiniteSet(plugin_dirs[r])
      BY <1>1, <1>5, <2>2, PluginsAssumption
    <3> QED
      BY <1>3, <1>5, <2>2, <3>1, FS_Subset
  <2> QED
    BY <2>1, <2>2
<1>7. PICK S \in SUBSET entries : S = {p \in entries : p.lua}
  OBVIOUS
<1>8. /\ listing \in Seq(S)
      /\ \A p \in S : \E i \in DOMAIN listing : listing[i] = p
  <2>1. IsFiniteSet(S) /\ listing \in SetToSeqs(S)
    BY <1>4, <1>6, <1>7, FS_Subset
  <2> QED
    BY <2>1, ListingComplete
<1>9. /\ listed' \in Seq(SUBSET Plugin) /\ Len(listed') = r /\ listed'[r] = entries
  BY <1>2, <1>3, <1>5, <1>6
<1>10. InOrder(r)'
  <2>1. paths' \in Seq(Plugin) /\ \A i \in DOMAIN paths' : paths'[i] \in S
    BY <1>4, <1>6, <1>8
  <2>2. Sorted(paths)'
    BY <1>4 DEF Sorted
  <2> QED
    BY <1>4, <1>7, <1>8, <1>9, <2>1, <2>2 DEF InOrder
<1>11. ASSUME NEW port \in Ports
       PROVE  FromBatch(r, port, tls_port_registry[port])'
  <2>1. PICK entry : entry = tls_port_registry[port]
    OBVIOUS
  <2>2. FromDirs(r - 1, port, entry)
    BY <1>2, <1>5, <1>11, <2>1, DirsDone
  <2>3. r - 1 \in Nat /\ r - 1 <= Len(listed)
    BY <1>2, <1>5
  <2>4. FromDirs(r - 1, port, entry)'
    BY <1>2, <1>3, <2>2, <2>3, EarlierListed
  <2>5. \A p \in Of(r, port)' : \E i \in DOMAIN paths' : paths'[i] = p
    BY <1>4, <1>7, <1>8, <1>9 DEF Of
  <2>6. entry = tls_port_registry'[port]
    BY <1>2, <2>1
  <2> QED
    BY <2>4, <2>5, <2>6 DEF FromBatch
<1>12. /\ dirs_read' = r /\ dirs_read' # 0 /\ dirs_read' # Dirs + 1 /\ dirs_read' \in 0 .. Dirs + 1
       /\ load' # "done"
  BY <1>1, <1>2, <1>5
<1>13. Dirs' = Dirs
  BY DEF Dirs
<1> QED
  BY <1>9, <1>10, <1>11, <1>12, <1>13 DEF Loading

LEMMA ScriptsKeepLoading ==
    ASSUME Loading, load_scripts
    PROVE  Loading'
<1>1. Dirs \in Nat /\ lua_scripts \in Seq(Plugin) /\ Len(lua_scripts) \in Nat
  BY PluginsAssumption DEF Dirs
<1>2. /\ load = "running" /\ dirs_read = Dirs /\ paths = << >> /\ dirs_read' = Dirs + 1
      /\ paths' = lua_scripts /\ UNCHANGED <<tls_port_registry, listed, load>>
      /\ listed \in Seq(SUBSET Plugin) /\ Len(listed) = Dirs
  BY <1>1 DEF Loading, load_scripts, Dirs, Scripts
<1>3. ASSUME NEW port \in Ports
      PROVE  FromScripts(0, port, tls_port_registry[port])'
  <2>1. PICK entry : entry = tls_port_registry[port] /\ entry = tls_port_registry'[port]
    BY <1>2
  <2>2. FromDirs(Dirs, port, entry)
    BY <1>1, <1>2, <1>3, <2>1, DirsDone
  <2>3. FromDirs(Dirs, port, entry)'
    BY <1>2, <2>2 DEF FromDirs, Of, Dirs
  <2> QED
    BY <2>1, <2>3 DEF FromScripts, Dirs
<1>4. ScriptsLeft(0)'
  BY <1>1, <1>2 DEF ScriptsLeft
<1>5. 0 \in 0 .. Len(lua_scripts)
  BY <1>1
<1>6. \E k \in 0 .. Len(lua_scripts) : /\ ScriptsLeft(k)'
                                       /\ \A port \in Ports : FromScripts(k, port, tls_port_registry[port])'
  BY <1>3, <1>4, <1>5
<1> QED
  BY <1>1, <1>2, <1>6 DEF Loading, Dirs
\* The first of a sequence, and the rest.
LEMMA HeadTail ==
    ASSUME NEW S, NEW s \in Seq(S), s # << >>
    PROVE  /\ Len(s) \in Nat \ {0} /\ DOMAIN s = 1 .. Len(s)
           /\ Head(s) = s[1] /\ Head(s) \in S
           /\ Tail(s) \in Seq(S) /\ Len(Tail(s)) = Len(s) - 1
           /\ DOMAIN Tail(s) = 1 .. Len(s) - 1
           /\ \A i \in 1 .. Len(s) - 1 : i + 1 \in 1 .. Len(s) /\ Tail(s)[i] = s[i + 1]
OBVIOUS

LEMMA BatchFileKeepsLoading ==
    ASSUME Loading, load_plugin_file, dirs_read \in 1 .. Dirs
    PROVE  Loading'
<1>1. Dirs \in Nat /\ Dirs' = Dirs
  BY PluginsAssumption DEF Dirs
<1>0. PICK r, L : r = dirs_read /\ L = listed
  OBVIOUS
<1>2. PICK P \in Seq(Plugin), h \in Plugin : P = paths /\ P # << >> /\ h = Head(P)
  <2>1. paths \in Seq(Plugin) /\ paths # << >>
    BY DEF Loading, load_plugin_file, InOrder
  <2> QED
    BY <2>1, HeadTail
<1>3. /\ load = "running" /\ load' = load /\ dirs_read' = r /\ listed' = L /\ paths' = Tail(P)
      /\ \A port \in Ports :
            tls_port_registry'[port] = IF port \in h.ports THEN [from |-> r, plugin |-> h]
                                       ELSE tls_port_registry[port]
  BY <1>0, <1>2 DEF load_plugin_file
<1>4. /\ r \in 1 .. Dirs /\ r \in Nat /\ r # Dirs + 1 /\ r # 0 /\ r \in 0 .. Dirs + 1
      /\ L \in Seq(SUBSET Plugin) /\ Len(L) = r /\ L[r] \in SUBSET Plugin
      /\ InOrder(r) /\ \A port \in Ports : FromBatch(r, port, tls_port_registry[port])
  BY <1>0, <1>1, <1>3 DEF Loading
<1>5. /\ DOMAIN P = 1 .. Len(P) /\ Len(P) \in Nat \ {0} /\ h = P[1] /\ 1 \in DOMAIN P
      /\ Tail(P) \in Seq(Plugin) /\ DOMAIN Tail(P) = 1 .. Len(P) - 1
      /\ \A i \in DOMAIN Tail(P) : i + 1 \in DOMAIN P /\ Tail(P)[i] = P[i + 1]
  BY <1>2, HeadTail
<1>6. \A p \in Plugin : p.path \in Nat
  BY DEF Plugin
<1>7. /\ \A i \in DOMAIN P : P[i] \in L[r] /\ P[i].lua /\ P[i] \in Plugin
      /\ \A i, j \in DOMAIN P : i < j => P[i].path <= P[j].path
      /\ \A p \in L[r] : p.lua =>
            \/ \E i \in DOMAIN P : P[i] = p
            \/ \A i \in DOMAIN P : p.path <= P[i].path
  BY <1>0, <1>2, <1>4 DEF InOrder, Sorted
<1>8. \A i \in DOMAIN P : i = 1 \/ \E j \in DOMAIN Tail(P) : i = j + 1
  <2> TAKE i \in DOMAIN P
  <2>1. i # 1 => i - 1 \in DOMAIN Tail(P) /\ i = (i - 1) + 1
    BY <1>5
  <2> QED
    BY <2>1
<1>9. \A i \in DOMAIN Tail(P) : h.path <= Tail(P)[i].path
  <2>1. \A i \in DOMAIN Tail(P) : 1 < i + 1
    BY <1>5
  <2> QED
    BY <1>5, <1>7, <2>1
<1>10. \A p \in Plugin : \/ p = h
                         \/ \E i \in DOMAIN Tail(P) : Tail(P)[i] = p
                         \/ \A i \in DOMAIN P : P[i] # p
  BY <1>5, <1>8
<1>11. InOrder(r)'
  <2>1. \A i, j \in DOMAIN Tail(P) : i < j => Tail(P)[i].path <= Tail(P)[j].path
    <3>1. \A i, j \in DOMAIN Tail(P) : i < j => i + 1 < j + 1
      BY <1>5
    <3> QED
      BY <1>5, <1>7, <3>1
  <2>2. \A i \in DOMAIN Tail(P) : Tail(P)[i] \in L[r] /\ Tail(P)[i].lua
    BY <1>5, <1>7
  <2>3. ASSUME NEW p \in L[r], p.lua
        PROVE  \/ \E i \in DOMAIN Tail(P) : Tail(P)[i] = p
               \/ \A i \in DOMAIN Tail(P) : p.path <= Tail(P)[i].path
    BY <1>4, <1>5, <1>7, <1>9, <1>10, <2>3
  <2> QED
    BY <1>3, <1>5, <2>1, <2>2, <2>3 DEF InOrder, Sorted
<1>12. ASSUME NEW port \in Ports
       PROVE  FromBatch(r, port, tls_port_registry[port])'
  <2>1. PICK Q, entry, next :
           /\ Q = Of(r, port) /\ Q = Of(r, port)'
           /\ entry = tls_port_registry[port] /\ next = tls_port_registry'[port]
    BY <1>0, <1>3 DEF Of
  <2>2. /\ \A p \in Q : p \in L[r] /\ p \in Plugin /\ p.lua /\ port \in p.ports
        /\ port \in h.ports => h \in Q
    BY <1>0, <1>4, <1>5, <1>7, <2>1 DEF Of
  <2>3. PICK before, after \in SUBSET Q :
           /\ before = {p \in Q : \A i \in DOMAIN P : P[i] # p}
           /\ after = {p \in Q : \A i \in DOMAIN Tail(P) : Tail(P)[i] # p}
    OBVIOUS
  <2>4. \A p \in after : p = h \/ p \in before
    BY <1>10, <2>2, <2>3
  <2>5. \A p \in before : p.path <= h.path
    BY <1>5, <1>7, <2>2, <2>3
  <2>6. CASE port \in h.ports
    <3>1. next = [from |-> r, plugin |-> h]
      BY <1>3, <1>12, <2>1, <2>6
    <3>2. next.from = r /\ next.plugin = h
      BY <3>1
    <3>3. \A p \in after : p.path <= h.path
      BY <1>2, <1>6, <2>4, <2>5
    <3>4. /\ next.from = r /\ next.plugin \in Q
          /\ \A p \in after : p.path <= next.plugin.path
          /\ \A i \in DOMAIN Tail(P) : next.plugin.path <= Tail(P)[i].path
      BY <1>9, <2>2, <2>6, <3>2, <3>3
    <3> QED
      BY <1>3, <2>1, <2>3, <3>4 DEF FromBatch
  <2>7. CASE port \notin h.ports
    <3>1. next = entry
      BY <1>3, <1>12, <2>1, <2>7
    <3>2. after \in SUBSET before
      BY <2>2, <2>4, <2>7
    <3>3. \/ before = {} /\ FromDirs(r - 1, port, entry)
          \/ /\ entry.from = r /\ entry.plugin \in Q
             /\ \A p \in before : p.path <= entry.plugin.path
             /\ \A i \in DOMAIN P : entry.plugin.path <= P[i].path
      BY <1>0, <1>2, <1>4, <1>12, <2>1, <2>3 DEF FromBatch
    <3>4. FromDirs(r - 1, port, entry) => FromDirs(r - 1, port, entry)'
      BY <1>0, <1>3 DEF FromDirs, Of
    <3>5. \/ after = {} /\ FromDirs(r - 1, port, next)'
          \/ /\ next.from = r /\ next.plugin \in Q
             /\ \A p \in after : p.path <= next.plugin.path
             /\ \A i \in DOMAIN Tail(P) : next.plugin.path <= Tail(P)[i].path
      BY <1>5, <3>1, <3>2, <3>3, <3>4
    <3> QED
      BY <1>3, <2>1, <2>3, <3>5 DEF FromBatch
  <2> QED
    BY <2>6, <2>7
<1> QED
  BY <1>1, <1>3, <1>4, <1>11, <1>12 DEF Loading

LEMMA ScriptFileKeepsLoading ==
    ASSUME Loading, load_plugin_file, dirs_read = Dirs + 1
    PROVE  Loading'
<1>1. /\ Dirs \in Nat /\ Dirs' = Dirs /\ Scripts = Dirs + 1
      /\ lua_scripts \in Seq(Plugin) /\ Len(lua_scripts) \in Nat
  BY PluginsAssumption DEF Dirs, Scripts
<1>2. /\ load = "running" /\ load' = load /\ dirs_read' = dirs_read /\ listed' = listed
      /\ paths # << >> /\ paths' = Tail(paths)
      /\ \A port \in Ports :
            tls_port_registry'[port] =
                IF port \in Head(paths).ports THEN [from |-> dirs_read, plugin |-> Head(paths)]
                ELSE tls_port_registry[port]
  BY DEF load_plugin_file
<1>3. PICK k \in 0 .. Len(lua_scripts) :
         /\ ScriptsLeft(k)
         /\ \A port \in Ports : FromScripts(k, port, tls_port_registry[port])
  BY <1>2 DEF Loading
<1>4. PICK P \in Seq(Plugin) : P = paths /\ P # << >> /\ Len(P) = Len(lua_scripts) - k
                               /\ \A i \in DOMAIN P : P[i] = lua_scripts[i + k]
  BY <1>2, <1>3 DEF ScriptsLeft
<1>5. PICK n \in 1 .. Len(lua_scripts) : n = k + 1 /\ Head(P) = lua_scripts[n]
  BY <1>1, <1>3, <1>4, HeadTail
<1>6. ScriptsLeft(n)'
  <2>1. Tail(P) \in Seq(Plugin) /\ Len(Tail(P)) = Len(lua_scripts) - n
    BY <1>1, <1>4, <1>5, HeadTail
  <2>2. \A i \in DOMAIN Tail(P) : Tail(P)[i] = lua_scripts[i + n]
    <3>1. \A i \in DOMAIN Tail(P) : i + 1 \in DOMAIN P /\ Tail(P)[i] = P[i + 1]
      BY <1>4, HeadTail
    <3>2. \A i \in DOMAIN Tail(P) : (i + 1) + k = i + n
      BY <1>4, <1>5, HeadTail
    <3> QED
      BY <1>4, <3>1, <3>2
  <2> QED
    BY <1>2, <1>4, <2>1, <2>2 DEF ScriptsLeft
<1>7. ASSUME NEW port \in Ports
      PROVE  FromScripts(n, port, tls_port_registry[port])'
  <2>1. PICK entry, next : entry = tls_port_registry[port] /\ next = tls_port_registry'[port]
    OBVIOUS
  <2>2. \A s \in 1 .. n : s \in 1 .. k \/ s = n
    BY <1>3, <1>5
  <2>3. CASE port \in lua_scripts[n].ports
    <3>1. next = [from |-> Scripts, plugin |-> lua_scripts[n]]
      BY <1>1, <1>2, <1>4, <1>5, <1>7, <2>1, <2>3
    <3>2. n \in 1 .. n /\ \A t \in n + 1 .. n : port \notin lua_scripts[t].ports
      OBVIOUS
    <3> QED
      BY <2>1, <2>3, <3>1, <3>2 DEF FromScripts, Scripts
  <2>4. CASE port \notin lua_scripts[n].ports
    <3>1. next = entry
      BY <1>2, <1>4, <1>5, <1>7, <2>1, <2>4
    <3>2. FromScripts(k, port, entry)
      BY <1>3, <1>7, <2>1
    <3>3. CASE /\ \A s \in 1 .. k : port \notin lua_scripts[s].ports
               /\ FromDirs(Len(plugin_dirs), port, entry)
      <4>1. FromDirs(Len(plugin_dirs), port, entry)'
        BY <1>2, <3>3 DEF FromDirs, Of
      <4>2. \A s \in 1 .. n : port \notin lua_scripts[s].ports
        BY <2>2, <2>4, <3>3
      <4> QED
        BY <2>1, <3>1, <4>1, <4>2 DEF FromScripts
    <3>4. ASSUME NEW s \in 1 .. k, port \in lua_scripts[s].ports,
                 \A t \in s + 1 .. k : port \notin lua_scripts[t].ports,
                 entry = [from |-> Scripts, plugin |-> lua_scripts[s]]
          PROVE  FromScripts(n, port, tls_port_registry[port])'
      <4>1. s \in 1 .. n /\ \A t \in s + 1 .. n : t \in s + 1 .. k \/ t = n
        BY <1>3, <1>5
      <4>2. \A t \in s + 1 .. n : port \notin lua_scripts[t].ports
        BY <2>4, <3>4, <4>1
      <4>3. next = [from |-> Scripts, plugin |-> lua_scripts[s]]
        BY <3>1, <3>4
      <4> QED
        BY <2>1, <3>4, <4>1, <4>2, <4>3 DEF FromScripts, Scripts
    <3> QED
      BY <3>2, <3>3, <3>4 DEF FromScripts
  <2> QED
    BY <2>3, <2>4
<1>8. n \in 0 .. Len(lua_scripts)
  BY <1>1, <1>5
<1>9. \E m \in 0 .. Len(lua_scripts) :
         /\ ScriptsLeft(m)' /\ \A port \in Ports : FromScripts(m, port, tls_port_registry[port])'
  BY <1>6, <1>7, <1>8
<1>10. listed \in Seq(SUBSET Plugin) /\ Len(listed) = Dirs
  BY <1>1, <1>2 DEF Loading
<1> QED
  BY <1>1, <1>2, <1>9, <1>10 DEF Loading
\* Loading is an invariant.
LEMMA LoadingHolds == Spec => []Loading
<1>1. Init => Loading
  <2> SUFFICES ASSUME Init PROVE Loading
    OBVIOUS
  <2>1. Dirs \in Nat
    BY PluginsAssumption DEF Dirs
  <2>2. /\ dirs_read = 0 /\ paths = << >> /\ listed = << >> /\ load = "running"
        /\ \A port \in Ports : tls_port_registry[port] = None
    BY DEF Init, LoaderInit
  <2> QED
    BY <2>1, <2>2 DEF Loading
<1>2. Loading /\ [Next]_vars => Loading'
  <2> SUFFICES ASSUME Loading, [Next]_vars PROVE Loading'
    OBVIOUS
  <2>1. CASE UNCHANGED loaderVars
    <3>1. /\ dirs_read' = dirs_read /\ paths' = paths /\ listed' = listed /\ load' = load
          /\ tls_port_registry' = tls_port_registry /\ Dirs' = Dirs
      BY <2>1 DEF loaderVars, Dirs
    <3>2. \A d : InOrder(d)' <=> InOrder(d)
      BY <3>1 DEF InOrder, Sorted
    <3>3. \A d, port : FromBatch(d, port, tls_port_registry[port])'
                         <=> FromBatch(d, port, tls_port_registry[port])
      BY <3>1 DEF FromBatch, FromDirs, Of
    <3>4. \A k, port : FromScripts(k, port, tls_port_registry[port])'
                         <=> FromScripts(k, port, tls_port_registry[port])
      BY <3>1 DEF FromScripts, FromDirs, Of
    <3>5. \A k : ScriptsLeft(k)' <=> ScriptsLeft(k)
      BY <3>1 DEF ScriptsLeft
    <3> QED
      BY <3>1, <3>2, <3>3, <3>4, <3>5 DEF Loading
  <2>2. CASE LoadPlugins
    <3>1. CASE load_plugin_file
      <4>1. load = "running" /\ paths # << >>
        BY <3>1 DEF load_plugin_file
      <4>2. Dirs \in Nat /\ dirs_read \in 0 .. Dirs + 1 /\ dirs_read # 0
        BY <4>1, PluginsAssumption DEF Loading, Dirs
      <4>3. dirs_read \in 1 .. Dirs \/ dirs_read = Dirs + 1
        BY <4>2
      <4> QED
        BY <3>1, <4>3, BatchFileKeepsLoading, ScriptFileKeepsLoading
    <3>2. CASE ReadDirFails \/ PluginFails
      BY <3>2 DEF ReadDirFails, PluginFails, Loading
    <3>3. CASE AllLoaded
      <4>1. /\ load = "running" /\ load' = "done" /\ dirs_read = Dirs + 1 /\ paths = << >>
            /\ UNCHANGED <<dirs_read, paths, tls_port_registry, listed>>
        BY <3>3 DEF AllLoaded, Scripts, Dirs
      <4>2. Dirs \in Nat
        BY PluginsAssumption DEF Dirs
      <4>3. PICK k \in 0 .. Len(lua_scripts) :
               ScriptsLeft(k) /\ \A port \in Ports : FromScripts(k, port, tls_port_registry[port])
        BY <4>1 DEF Loading
      <4>4. ScriptsLeft(k)' /\ \A port \in Ports : FromScripts(k, port, tls_port_registry[port])'
        BY <4>1, <4>3 DEF ScriptsLeft, FromScripts, FromDirs, Of
      <4>5. \E m \in 0 .. Len(lua_scripts) :
               ScriptsLeft(m)' /\ \A port \in Ports : FromScripts(m, port, tls_port_registry[port])'
        BY <4>4
      <4>6. Dirs' = Dirs /\ listed \in Seq(SUBSET Plugin) /\ Len(listed) = Dirs
            /\ dirs_read \in 0 .. Dirs + 1
        BY <4>1, <4>2 DEF Loading, Dirs
      <4> QED
        BY <4>1, <4>2, <4>5, <4>6 DEF Loading
    <3> QED
      BY <2>2, <3>1, <3>2, <3>3, DirectoryKeepsLoading, ScriptsKeepLoading
         DEF LoadPlugins, LoaderNext
  <2>3. CASE BuildOutputs
    BY <2>3 DEF BuildOutputs, Loading
  <2>4. Next => UNCHANGED loaderVars \/ LoadPlugins \/ BuildOutputs
    BY DEF Next, Validate, OpenKeylog, PluginsLoaded, ReadMagic, OpenCapture, NextPcapPacket,
           NextBlock, EndOfCapture, WriteNext, WriteFails, FrameWritten, FinishOutputs, RunFails,
           Exited, vars
  <2>5. UNCHANGED vars => UNCHANGED loaderVars
    BY DEF vars
  <2> QED
    BY <2>1, <2>2, <2>3, <2>4, <2>5
<1> QED
  BY <1>1, <1>2, PTL DEF Spec

\* A set of numbers up to n that is not empty has the maximum Max gives.
LEMMA MaxOfBounded ==
    ASSUME NEW n \in Nat, NEW S \in SUBSET (1 .. n), S # {}
    PROVE  Max(S) \in S /\ \A x \in S : x <= Max(S)
<1>1. PICK T \in SUBSET Nat : T = {n - x : x \in S}
  <2>1. \A x \in S : n - x \in Nat
    OBVIOUS
  <2>2. {n - x : x \in S} \in SUBSET Nat
    BY <2>1
  <2> QED
    BY <2>2
<1>2. T # {}
  BY <1>1
<1>3. PICK t \in T : \A u \in T : t <= u
  BY <1>1, <1>2, LeastNatural
<1>4. PICK m \in S : t = n - m
  BY <1>1, <1>3
<1>5. \A x \in S : n - x \in T
  BY <1>1
<1>6. \A x \in S : m >= x
  BY <1>3, <1>4, <1>5
<1>7. Max(S) \in S /\ \A x \in S : Max(S) >= x
  BY <1>6 DEF Max
<1> QED
  BY <1>7

\* Once everything is loaded, an explicit script has the port before any directory,
\* the later script and directory before the earlier, and in one directory the
\* greater file name, whatever order the file system lists them in and whatever
\* entries cannot be read.
THEOREM PluginOrderDecides == Spec => []LastPluginWins
<1>1. Loading => LastPluginWins
  <2> SUFFICES ASSUME Loading, load = "done", NEW port \in Ports
               PROVE  LET script == {s \in DOMAIN lua_scripts : port \in lua_scripts[s].ports}
                          dir == {d \in DOMAIN listed : Of(d, port) # {}}
                          won == tls_port_registry[port]
                      IN  IF script # {}
                          THEN won = [from |-> Scripts, plugin |-> lua_scripts[Max(script)]]
                          ELSE IF dir = {} THEN won = None
                          ELSE /\ won.from = Max(dir)
                               /\ won.plugin \in Of(Max(dir), port)
                               /\ \A p \in Of(Max(dir), port) : p.path <= won.plugin.path
    BY DEF LastPluginWins, Of
  <2> DEFINE script == {s \in DOMAIN lua_scripts : port \in lua_scripts[s].ports}
             dir == {d \in DOMAIN listed : Of(d, port) # {}}
             won == tls_port_registry[port]
  <2>1. /\ Dirs \in Nat /\ Len(lua_scripts) \in Nat /\ DOMAIN lua_scripts = 1 .. Len(lua_scripts)
        /\ dirs_read = Dirs + 1 /\ paths = << >> /\ Len(listed) = Dirs /\ DOMAIN listed = 1 .. Dirs
    BY PluginsAssumption DEF Loading, Dirs
  <2>2. FromScripts(Len(lua_scripts), port, won)
    <3>1. PICK k \in 0 .. Len(lua_scripts) :
             ScriptsLeft(k) /\ FromScripts(k, port, won)
      BY <2>1 DEF Loading
    <3>2. k = Len(lua_scripts)
      <4>1. Len(paths) = 0
        BY <2>1
      <4>2. PICK n \in Nat : n = Len(lua_scripts) /\ 0 = n - k
        BY <2>1, <3>1, <4>1 DEF ScriptsLeft
      <4> QED
        BY <4>2
    <3> QED
      BY <3>1, <3>2
  <2>3. CASE script # {}
    <3>1. PICK n \in Nat : n = Len(lua_scripts)
      BY <2>1
    <3>2. script \in SUBSET (1 .. n)
      BY <2>1, <3>1
    <3>3. PICK s \in script : /\ \A t \in s + 1 .. n : t \notin script
                              /\ won = [from |-> Scripts, plugin |-> lua_scripts[s]]
      <4>1. PICK s \in 1 .. n : /\ port \in lua_scripts[s].ports
                                /\ \A t \in s + 1 .. n : port \notin lua_scripts[t].ports
                                /\ won = [from |-> Scripts, plugin |-> lua_scripts[s]]
        BY <2>1, <2>2, <2>3, <3>1 DEF FromScripts
      <4> QED
        BY <2>1, <3>1, <4>1
    <3>4. PICK m \in script : m = Max(script) /\ \A x \in script : x <= m
      BY <2>3, <3>2, MaxOfBounded
    <3>5. m = s
      <4>1. s <= m /\ m \in 1 .. n /\ s \in 1 .. n
        BY <3>2, <3>4
      <4>2. m \notin s + 1 .. n
        BY <3>3, <3>4
      <4> QED
        BY <3>1, <4>1, <4>2
    <3> QED
      BY <2>3, <3>3, <3>4, <3>5
  <2>4. CASE script = {}
    <3>1. FromDirs(Dirs, port, won)
      BY <2>1, <2>2, <2>4 DEF FromScripts, Dirs
    <3>2. CASE dir = {}
      BY <2>1, <2>4, <3>1, <3>2 DEF FromDirs
    <3>3. CASE dir # {}
      <4>1. dir \in SUBSET (1 .. Dirs)
        BY <2>1
      <4>2. PICK m \in dir : m = Max(dir) /\ \A x \in dir : x <= m
        BY <2>1, <3>3, <4>1, MaxOfBounded
      <4>3. m \in 1 .. Dirs /\ Of(m, port) # {}
        BY <4>1, <4>2
      <4>4. \A e \in m + 1 .. Dirs : Of(e, port) = {}
        <5>1. \A e \in m + 1 .. Dirs : e \in 1 .. Dirs /\ ~(e <= m)
          BY <2>1, <4>3
        <5> QED
          BY <2>1, <4>2, <5>1
      <4>5. /\ won.from = m /\ won.plugin \in Of(m, port)
            /\ \A p \in Of(m, port) : p.path <= won.plugin.path
        BY <3>1, <4>3, <4>4 DEF FromDirs
      <4> QED
        BY <2>4, <3>3, <4>2, <4>5
    <3> QED
      BY <3>2, <3>3
  <2> QED
    BY <2>3, <2>4
<1> QED
  BY <1>1, LoadingHolds, PTL
=============================================================================
