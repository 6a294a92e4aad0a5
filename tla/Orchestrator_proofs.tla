------------------------ MODULE Orchestrator_proofs -------------------------
(***************************************************************************)
(* Proofs about Orchestrator, for every set of endpoint pairs, tail limit, *)
(* idle timeout and sweep interval, and any number of frames and records.  *)
(***************************************************************************)
EXTENDS Orchestrator, FoldLemmas

-----------------------------------------------------------------------------
(* What a step does to the one entry it touches.                           *)

\* Whole records wait in a reassembler only while a frame of that direction is
\* processed: drain_records takes them all before the next frame.
ReadyWhileBusy ==
    \A k \in DOMAIN connections : \A d \in Direction :
        busy # <<k, d>> => connections[k].ready[d] = 0

SameElsewhere(old, new, d) ==
    \A e \in Direction \ {d} :
        /\ new.ready[e] = old.ready[e]
        /\ new.pending[e] = old.pending[e]
        /\ new.desynced[e] = old.desynced[e]
        /\ new.tail[e] = old.tail[e]
        /\ new.fin[e] = old.fin[e]

\* The entry old becomes new when a frame of direction d is noted and fed.
FrameEffect(old, new, d) ==
    /\ new \in Connection
    /\ SameElsewhere(old, new, d)
    /\ new.tail = old.tail
    /\ new.idle = 0
    /\ \/ /\ ~old.desynced[d]
          /\ new.desynced = [old.desynced EXCEPT ![d] = TRUE]
          /\ new.ready[d] = 0 /\ new.pending[d] = FALSE
          /\ counters' = [counters EXCEPT !.gap_bytes = @ + 1, !.desynced = @ + 1]
       \/ /\ new.desynced = old.desynced
          /\ old.desynced[d] => new.ready[d] = old.ready[d] /\ new.pending[d] = old.pending[d]
          /\ counters' = counters

\* The age of an entry and of the last sweep is bounded.
LEMMA MaxAgeType == MaxAge \in Nat
<1> QED
  BY SweepAssumption DEF MaxAge

\* A new entry is well typed, and holds nothing.
LEMMA NewConnectionType ==
    ASSUME NEW src \in Endpoint
    PROVE  NewConnection(src) \in Connection
<1> QED
  BY MaxAgeType, TailAssumption, BoundsAssumption DEF NewConnection, Connection, PerDirection

\* So is the entry process_frame works on; between frames it has no record ready.
LEMMA EntryType ==
    ASSUME TypeOK, ReadyWhileBusy, busy = None, NEW k \in Keys, NEW src \in Endpoint
    PROVE  /\ EntryFor(k, src) \in Connection
           /\ \A d \in Direction : EntryFor(k, src).ready[d] = 0
<1>1. CASE k \in DOMAIN connections
  BY <1>1, KeysAssumption DEF EntryFor, TypeOK, ReadyWhileBusy
<1>2. CASE k \notin DOMAIN connections
  <2>1. \A d \in Direction : NewConnection(src).ready[d] = 0
    BY DEF NewConnection
  <2> QED
    BY <1>2, <2>1, NewConnectionType DEF EntryFor
<1> QED
  BY <1>1, <1>2

\* Noting the flags of a frame changes the FIN of its direction and the age.
LEMMA NotedEffect ==
    ASSUME NEW conn \in Connection, NEW d \in Direction, NEW flags
    PROVE  LET noted == Noted(conn, d, flags)
           IN  /\ noted \in Connection
               /\ noted.ready = conn.ready /\ noted.pending = conn.pending
               /\ noted.desynced = conn.desynced /\ noted.tail = conn.tail
               /\ noted.idle = 0
               /\ \A e \in Direction \ {d} : noted.fin[e] = conn.fin[e]
<1> DEFINE fin == [conn.fin EXCEPT ![d] = @ \/ "fin" \in flags]
           rst == conn.rst \/ "rst" \in flags
           now == 0
<1>1. Noted(conn, d, flags) = [conn EXCEPT !.fin = fin, !.rst = rst, !.idle = now]
  BY DEF Noted
<1>2. conn.fin \in [Direction -> BOOLEAN]
  BY DEF Connection, PerDirection
<1>3. fin \in [Direction -> BOOLEAN]
  BY <1>2, Zenon
<1>4. \A e \in Direction \ {d} : fin[e] = conn.fin[e]
  BY <1>2
<1>5. rst \in BOOLEAN
  BY Zenon
<1>6. now \in 0 .. MaxAge /\ now = 0
  BY MaxAgeType
<1> HIDE DEF fin, rst, now
<1>7. fin \in PerDirection(BOOLEAN)
  BY <1>3 DEF PerDirection
<1>8. Noted(conn, d, flags) \in Connection
  BY <1>1, <1>5, <1>6, <1>7 DEF Connection
<1> QED
  BY <1>1, <1>4, <1>6, <1>8 DEF Connection

\* mark_desynced empties the reassembler of one direction.
LEMMA MarkEffect ==
    ASSUME NEW conn \in Connection, NEW d \in Direction
    PROVE  LET marked == mark_desynced(conn, d)
           IN  /\ marked \in Connection
               /\ SameElsewhere(conn, marked, d)
               /\ marked.tail = conn.tail /\ marked.fin = conn.fin /\ marked.idle = conn.idle
               /\ marked.desynced = [conn.desynced EXCEPT ![d] = TRUE]
               /\ marked.ready[d] = 0 /\ marked.pending[d] = FALSE
<1> DEFINE desynced == [conn.desynced EXCEPT ![d] = TRUE]
           ready == [conn.ready EXCEPT ![d] = 0]
           pending == [conn.pending EXCEPT ![d] = FALSE]
<1>1. mark_desynced(conn, d) =
        [conn EXCEPT !.desynced = desynced, !.ready = ready, !.pending = pending]
  BY DEF mark_desynced
<1>2. /\ conn.desynced \in [Direction -> BOOLEAN]
      /\ conn.pending \in [Direction -> BOOLEAN]
      /\ conn.ready \in [Direction -> 0 .. MaxReady]
  BY DEF Connection, PerDirection
<1>3. desynced \in [Direction -> BOOLEAN] /\ pending \in [Direction -> BOOLEAN]
  BY <1>2, Zenon
<1>4. ready \in [Direction -> 0 .. MaxReady]
  BY <1>2, BoundsAssumption
<1>5. /\ ready[d] = 0 /\ pending[d] = FALSE
      /\ \A e \in Direction \ {d} : /\ ready[e] = conn.ready[e]
                                    /\ pending[e] = conn.pending[e]
                                    /\ desynced[e] = conn.desynced[e]
  BY <1>2
<1>6. /\ desynced \in PerDirection(BOOLEAN) /\ pending \in PerDirection(BOOLEAN)
      /\ ready \in PerDirection(0 .. MaxReady)
  BY <1>3, <1>4 DEF PerDirection
<1> HIDE DEF desynced, ready, pending
<1>7. mark_desynced(conn, d) \in Connection
  BY <1>1, <1>6 DEF Connection
<1>8. LET marked == mark_desynced(conn, d)
      IN  /\ marked.desynced = desynced /\ marked.ready = ready /\ marked.pending = pending
          /\ marked.tail = conn.tail /\ marked.fin = conn.fin /\ marked.idle = conn.idle
  BY <1>1 DEF Connection
<1> QED
  BY <1>5, <1>7, <1>8 DEF SameElsewhere, desynced

\* A push that does not give up leaves what it completed and its gap behind.
Fed(conn, d, n, b) == [conn EXCEPT !.ready[d] = @ + n, !.pending[d] = b]

\* It touches nothing else of the entry.
LEMMA FedEffect ==
    ASSUME NEW conn \in Connection, NEW d \in Direction, conn.ready[d] = 0,
           NEW n \in 0 .. MaxReady, NEW b \in BOOLEAN
    PROVE  LET fed == Fed(conn, d, n, b)
           IN  /\ fed \in Connection
               /\ SameElsewhere(conn, fed, d)
               /\ fed.tail = conn.tail /\ fed.fin = conn.fin /\ fed.idle = conn.idle
               /\ fed.desynced = conn.desynced
<1> DEFINE ready == [conn.ready EXCEPT ![d] = @ + n]
           pending == [conn.pending EXCEPT ![d] = b]
           fed == Fed(conn, d, n, b)
<1>1. fed = [conn EXCEPT !.ready = ready, !.pending = pending]
  BY DEF Fed
<1>2. /\ conn.pending \in [Direction -> BOOLEAN]
      /\ conn.ready \in [Direction -> 0 .. MaxReady]
  BY DEF Connection, PerDirection
<1>3. pending \in [Direction -> BOOLEAN]
  BY <1>2, Zenon
<1>4. ready \in [Direction -> 0 .. MaxReady]
  BY <1>2, BoundsAssumption
<1>5. \A e \in Direction \ {d} : ready[e] = conn.ready[e] /\ pending[e] = conn.pending[e]
  BY <1>2
<1>6. pending \in PerDirection(BOOLEAN) /\ ready \in PerDirection(0 .. MaxReady)
  BY <1>3, <1>4 DEF PerDirection
<1> HIDE DEF ready, pending, fed
<1>7. fed \in Connection
  BY <1>1, <1>6 DEF Connection
<1>8. /\ fed.ready = ready /\ fed.pending = pending /\ fed.desynced = conn.desynced
      /\ fed.tail = conn.tail /\ fed.fin = conn.fin /\ fed.idle = conn.idle
  BY <1>1 DEF Connection
<1>9. SameElsewhere(conn, fed, d)
  BY <1>5, <1>8 DEF SameElsewhere
<1> QED
  BY <1>7, <1>8, <1>9 DEF fed

\* What a push returns is well typed.
LEMMA PushedType ==
    ASSUME NEW conn, NEW d, conn.pending[d] \in BOOLEAN, NEW res \in Pushed(conn, d)
    PROVE  res.ready \in 0 .. MaxReady /\ res.pending \in BOOLEAN
<1>1. PICK c \in BOOLEAN : c = conn.pending[d]
  OBVIOUS
<1>2. res \in [kind : {"Delivered"}, ready : 0 .. MaxReady, pending : {FALSE, c}, bytes : {0}]
         \union [kind : {"DuplicateDiscarded"}, ready : {0}, pending : {c}, bytes : {0}]
         \union [kind : {"BufferedOutOfOrder"}, ready : {0}, pending : {TRUE}, bytes : {0}]
         \union [kind : {"GapAbandoned"}, ready : {0}, pending : BOOLEAN, bytes : {1}]
  BY <1>1, Zenon DEF Pushed
<1>3. 0 \in 0 .. MaxReady
  BY BoundsAssumption
<1>4. CASE res \in [kind : {"GapAbandoned"}, ready : {0}, pending : BOOLEAN, bytes : {1}]
  BY <1>3, <1>4
<1>5. CASE res \in [kind : {"Delivered"}, ready : 0 .. MaxReady, pending : {FALSE, c}, bytes : {0}]
  BY <1>5
<1>6. CASE res \in [kind : {"DuplicateDiscarded"}, ready : {0}, pending : {c}, bytes : {0}]
  BY <1>3, <1>6
<1>7. CASE res \in [kind : {"BufferedOutOfOrder"}, ready : {0}, pending : {TRUE}, bytes : {0}]
  BY <1>3, <1>7
<1> QED
  BY <1>2, <1>4, <1>5, <1>6, <1>7, Zenon

\* The entry after process_frame has noted the frame and fed its payload.
LEMMA FrameStep ==
    ASSUME TypeOK, ReadyWhileBusy, NEW k \in Keys, NEW src \in Endpoint, NEW flags,
           NEW payload \in BOOLEAN, process_frame(k, src, flags, payload)
    PROVE  \E d \in Direction : \E new \in Connection :
              /\ connections' = Put(k, new)
              /\ busy' = <<k, d>>
              /\ FrameEffect(EntryFor(k, src), new, d)
<1> DEFINE old == EntryFor(k, src)
           d == DirOf(old, src)
           noted == Noted(old, d, flags)
<1>0. busy = None /\ busy' = <<k, d>> /\ Ingest(k, noted, d, payload)
  BY DEF process_frame
<1>1. d \in Direction
  BY DEF DirOf, Direction
<1>2. old \in Connection /\ old.ready[d] = 0
  BY <1>0, <1>1, EntryType
<1> HIDE DEF old, d
<1>3. /\ noted \in Connection
      /\ noted.ready = old.ready /\ noted.pending = old.pending
      /\ noted.desynced = old.desynced /\ noted.tail = old.tail /\ noted.idle = 0
      /\ \A e \in Direction \ {d} : noted.fin[e] = old.fin[e]
  BY <1>1, <1>2, NotedEffect
<1> HIDE DEF noted
<1>4. ASSUME NEW new \in Connection, SameElsewhere(noted, new, d), new.fin = noted.fin
      PROVE  SameElsewhere(old, new, d)
  BY <1>3, <1>4 DEF SameElsewhere
<1>5. CASE payload /\ ~noted.desynced[d]
  <2>1. push(k, noted, d)
    BY <1>0, <1>5 DEF Ingest
  <2>2. PICK res \in Pushed(noted, d) :
           \/ /\ res.kind = "GapAbandoned"
              /\ connections' = Put(k, mark_desynced(noted, d))
              /\ counters' = [counters EXCEPT !.gap_bytes = @ + res.bytes, !.desynced = @ + 1]
           \/ /\ res.kind # "GapAbandoned"
              /\ connections' = Put(k, [noted EXCEPT !.ready[d] = @ + res.ready,
                                                     !.pending[d] = res.pending])
              /\ UNCHANGED counters
    BY <2>1 DEF push
  <2>3. noted.pending[d] \in BOOLEAN
    BY <1>1, <1>3 DEF Connection, PerDirection
  <2>4. res.ready \in 0 .. MaxReady /\ res.pending \in BOOLEAN
    BY <2>3, PushedType
  <2>5. CASE res.kind = "GapAbandoned"
    <3> DEFINE new == mark_desynced(noted, d)
    <3>1. res.bytes = 1
      BY <2>5 DEF Pushed
    <3>2. counters' = [counters EXCEPT !.gap_bytes = @ + 1, !.desynced = @ + 1]
      BY <2>2, <2>5, <3>1
    <3>3. /\ new \in Connection /\ SameElsewhere(noted, new, d)
          /\ new.tail = noted.tail /\ new.fin = noted.fin /\ new.idle = noted.idle
          /\ new.desynced = [noted.desynced EXCEPT ![d] = TRUE]
          /\ new.ready[d] = 0 /\ new.pending[d] = FALSE
      BY <1>1, <1>3, MarkEffect
    <3>4. connections' = Put(k, new)
      BY <2>2, <2>5
    <3> HIDE DEF new
    <3>5. FrameEffect(old, new, d)
      BY <1>3, <1>4, <1>5, <3>2, <3>3 DEF FrameEffect
    <3> QED
      BY <1>0, <1>1, <3>3, <3>4, <3>5 DEF old
  <2>6. CASE res.kind # "GapAbandoned"
    <3> DEFINE new == Fed(noted, d, res.ready, res.pending)
    <3>1. /\ new \in Connection /\ SameElsewhere(noted, new, d)
          /\ new.tail = noted.tail /\ new.fin = noted.fin /\ new.idle = noted.idle
          /\ new.desynced = noted.desynced
      BY <1>1, <1>2, <1>3, <2>4, FedEffect
    <3>2. connections' = Put(k, new) /\ counters' = counters
      BY <2>2, <2>6 DEF Fed
    <3> HIDE DEF new
    <3>3. FrameEffect(old, new, d)
      BY <1>3, <1>4, <1>5, <3>1, <3>2 DEF FrameEffect
    <3> QED
      BY <1>0, <1>1, <3>1, <3>2, <3>3 DEF old
  <2> QED
    BY <2>5, <2>6
<1>6. CASE ~(payload /\ ~noted.desynced[d])
  <2>1. connections' = Put(k, noted) /\ counters' = counters
    BY <1>0, <1>6 DEF Ingest
  <2>2. SameElsewhere(old, noted, d)
    BY <1>3 DEF SameElsewhere
  <2>3. FrameEffect(old, noted, d)
    BY <1>3, <2>1, <2>2 DEF FrameEffect
  <2> QED
    BY <1>0, <1>1, <1>3, <2>1, <2>3 DEF old
<1> QED
  BY <1>5, <1>6

\* The records counted under one of the five outcomes.
Sorted(c) == c.decrypted + c.nokey + c.authfailed + c.no_client_hello + c.plaintext_handshake

\* One record is counted: once as seen, once under an outcome.
RecordCounted ==
    /\ counters' \in Counters
    /\ counters'.seen = counters.seen + 1
    /\ Sorted(counters') = Sorted(counters) + 1
    /\ counters'.evicted = counters.evicted
    /\ counters'.desynced = counters.desynced

\* Counting a record under one outcome.
CountsOne(c) ==
    /\ c \in Counters
    /\ c.seen = counters.seen + 1
    /\ Sorted(c) = Sorted(counters) + 1
    /\ c.evicted = counters.evicted
    /\ c.desynced = counters.desynced
    /\ c.tail_discarded = counters.tail_discarded

\* Every outcome drain_records counts is one of the five.
LEMMA SeenCounts ==
    ASSUME counters \in Counters
    PROVE  /\ CountsOne(Seen("decrypted"))
           /\ CountsOne(Seen("nokey"))
           /\ CountsOne(Seen("authfailed"))
           /\ CountsOne(Seen("no_client_hello"))
           /\ CountsOne(Seen("plaintext_handshake"))
<1>0. PICK s \in Nat : s = counters.seen + 1
  BY DEF Counters
<1>1. CountsOne(Seen("decrypted"))
  <2>1. PICK n \in Nat : n = counters.decrypted + 1
    BY DEF Counters
  <2>2. PICK c : c = [counters EXCEPT !.decrypted = n, !.seen = s]
    OBVIOUS
  <2>3. c = Seen("decrypted")
    BY <1>0, <2>1, <2>2 DEF Counters, Seen, Counted
  <2>4. /\ c \in Counters /\ c.decrypted = n /\ c.seen = s
        /\ c.nokey = counters.nokey /\ c.authfailed = counters.authfailed
        /\ c.no_client_hello = counters.no_client_hello
        /\ c.plaintext_handshake = counters.plaintext_handshake
        /\ c.evicted = counters.evicted /\ c.desynced = counters.desynced
        /\ c.tail_discarded = counters.tail_discarded
    BY <2>2 DEF Counters
  <2>5. CountsOne(c)
    BY <1>0, <2>1, <2>4 DEF Counters, Sorted, CountsOne
  <2> QED
    BY <2>3, <2>5
<1>2. CountsOne(Seen("nokey"))
  <2>1. PICK n \in Nat : n = counters.nokey + 1
    BY DEF Counters
  <2>2. PICK c : c = [counters EXCEPT !.nokey = n, !.seen = s]
    OBVIOUS
  <2>3. c = Seen("nokey")
    BY <1>0, <2>1, <2>2 DEF Counters, Seen, Counted
  <2>4. /\ c \in Counters /\ c.nokey = n /\ c.seen = s
        /\ c.decrypted = counters.decrypted /\ c.authfailed = counters.authfailed
        /\ c.no_client_hello = counters.no_client_hello
        /\ c.plaintext_handshake = counters.plaintext_handshake
        /\ c.evicted = counters.evicted /\ c.desynced = counters.desynced
        /\ c.tail_discarded = counters.tail_discarded
    BY <2>2 DEF Counters
  <2>5. CountsOne(c)
    BY <1>0, <2>1, <2>4 DEF Counters, Sorted, CountsOne
  <2> QED
    BY <2>3, <2>5
<1>3. CountsOne(Seen("authfailed"))
  <2>1. PICK n \in Nat : n = counters.authfailed + 1
    BY DEF Counters
  <2>2. PICK c : c = [counters EXCEPT !.authfailed = n, !.seen = s]
    OBVIOUS
  <2>3. c = Seen("authfailed")
    BY <1>0, <2>1, <2>2 DEF Counters, Seen, Counted
  <2>4. /\ c \in Counters /\ c.authfailed = n /\ c.seen = s
        /\ c.decrypted = counters.decrypted /\ c.nokey = counters.nokey
        /\ c.no_client_hello = counters.no_client_hello
        /\ c.plaintext_handshake = counters.plaintext_handshake
        /\ c.evicted = counters.evicted /\ c.desynced = counters.desynced
        /\ c.tail_discarded = counters.tail_discarded
    BY <2>2 DEF Counters
  <2>5. CountsOne(c)
    BY <1>0, <2>1, <2>4 DEF Counters, Sorted, CountsOne
  <2> QED
    BY <2>3, <2>5
<1>4. CountsOne(Seen("no_client_hello"))
  <2>1. PICK n \in Nat : n = counters.no_client_hello + 1
    BY DEF Counters
  <2>2. PICK c : c = [counters EXCEPT !.no_client_hello = n, !.seen = s]
    OBVIOUS
  <2>3. c = Seen("no_client_hello")
    BY <1>0, <2>1, <2>2 DEF Counters, Seen, Counted
  <2>4. /\ c \in Counters /\ c.no_client_hello = n /\ c.seen = s
        /\ c.decrypted = counters.decrypted /\ c.nokey = counters.nokey
        /\ c.authfailed = counters.authfailed
        /\ c.plaintext_handshake = counters.plaintext_handshake
        /\ c.evicted = counters.evicted /\ c.desynced = counters.desynced
        /\ c.tail_discarded = counters.tail_discarded
    BY <2>2 DEF Counters
  <2>5. CountsOne(c)
    BY <1>0, <2>1, <2>4 DEF Counters, Sorted, CountsOne
  <2> QED
    BY <2>3, <2>5
<1>5. CountsOne(Seen("plaintext_handshake"))
  <2>1. PICK n \in Nat : n = counters.plaintext_handshake + 1
    BY DEF Counters
  <2>2. PICK c : c = [counters EXCEPT !.plaintext_handshake = n, !.seen = s]
    OBVIOUS
  <2>3. c = Seen("plaintext_handshake")
    BY <1>0, <2>1, <2>2 DEF Counters, Seen, Counted
  <2>4. /\ c \in Counters /\ c.plaintext_handshake = n /\ c.seen = s
        /\ c.decrypted = counters.decrypted /\ c.nokey = counters.nokey
        /\ c.authfailed = counters.authfailed
        /\ c.no_client_hello = counters.no_client_hello
        /\ c.evicted = counters.evicted /\ c.desynced = counters.desynced
        /\ c.tail_discarded = counters.tail_discarded
    BY <2>2 DEF Counters
  <2>5. CountsOne(c)
    BY <1>0, <2>1, <2>4 DEF Counters, Sorted, CountsOne
  <2> QED
    BY <2>3, <2>5
<1> QED
  BY <1>1, <1>2, <1>3, <1>4, <1>5

\* One record of direction d is taken from the entry old, which becomes new.
TakenFrom(old, new, d) ==
    /\ new \in Connection
    /\ new.ready[d] = old.ready[d] - 1
    /\ new.desynced = old.desynced
    /\ new.pending = old.pending
    /\ new.fin = old.fin
    /\ new.idle = old.idle
    /\ SameElsewhere(old, new, d)

\* Its plaintext is in the tail, was dissected, dropped and reported, or let go.
PlaintextKept(old, new, d) ==
    /\ truth' \in Truth
    /\ truth'.created = truth.created
    /\ truth'.gone_desynced = truth.gone_desynced
    /\ old.tail[d] + truth'.plain + counters.tail_discarded + truth.dissected + truth.forgotten
         = new.tail[d] + truth.plain + counters'.tail_discarded + truth'.dissected + truth'.forgotten

\* Taking a record.
LEMMA TakeEffect ==
    ASSUME NEW k, connections[k] \in Connection, NEW d \in Direction, connections[k].ready[d] > 0
    PROVE  /\ TakenFrom(connections[k], Take(k, d), d)
           /\ Take(k, d).tail = connections[k].tail
           /\ Take(k, d).client = connections[k].client
<1> DEFINE conn == connections[k]
           ready == [conn.ready EXCEPT ![d] = @ - 1]
           taken == Take(k, d)
<1>1. taken = [conn EXCEPT !.ready = ready]
  BY DEF Take
<1>2. conn \in Connection /\ conn.ready \in [Direction -> 0 .. MaxReady] /\ conn.ready[d] > 0
  BY DEF Connection, PerDirection
<1> HIDE DEF conn
<1>3. ready \in [Direction -> 0 .. MaxReady]
  BY <1>2, BoundsAssumption
<1>4. ready[d] = conn.ready[d] - 1 /\ \A e \in Direction \ {d} : ready[e] = conn.ready[e]
  BY <1>2
<1>5. ready \in PerDirection(0 .. MaxReady)
  BY <1>3 DEF PerDirection
<1> HIDE DEF ready, taken
<1>6. taken \in Connection
  BY <1>1, <1>2, <1>5 DEF Connection
<1>7. /\ taken.ready = ready /\ taken.pending = conn.pending /\ taken.desynced = conn.desynced
      /\ taken.tail = conn.tail /\ taken.fin = conn.fin /\ taken.idle = conn.idle
      /\ taken.client = conn.client
  BY <1>1, <1>2 DEF Connection
<1> QED
  BY <1>4, <1>6, <1>7 DEF TakenFrom, SameElsewhere, conn, taken

\* A handshake record also sets a flag of the entry.
LEMMA TakenThenFlag ==
    ASSUME NEW old, NEW c, NEW d \in Direction, TakenFrom(old, c, d), NEW new,
           new = [c EXCEPT !.hello = TRUE] \/ new = [c EXCEPT !.server_random = TRUE]
    PROVE  TakenFrom(old, new, d) /\ new.tail = c.tail
<1>0. c \in Connection
  BY DEF TakenFrom
<1>1. PICK h \in BOOLEAN : h = TRUE
  OBVIOUS
<1>2. new = [c EXCEPT !.hello = h] \/ new = [c EXCEPT !.server_random = h]
  BY <1>1
<1>3. /\ new \in Connection
      /\ new.ready = c.ready /\ new.desynced = c.desynced /\ new.pending = c.pending
      /\ new.fin = c.fin /\ new.idle = c.idle /\ new.tail = c.tail
  BY <1>0, <1>2 DEF Connection
<1> QED
  BY <1>3 DEF TakenFrom, SameElsewhere

SetTail(c, d, t) == [c EXCEPT !.tail[d] = t]

\* Application data also sets the tail of its direction.
LEMMA TakenThenTail ==
    ASSUME NEW old, NEW c, NEW d \in Direction, TakenFrom(old, c, d),
           NEW t \in 0 .. max_tail_bytes, NEW new, new = SetTail(c, d, t)
    PROVE  TakenFrom(old, new, d) /\ new.tail[d] = t
<1> DEFINE tail == [c.tail EXCEPT ![d] = t]
<1>0. c \in Connection
  BY DEF TakenFrom
<1>1. c.tail \in [Direction -> 0 .. max_tail_bytes]
  BY <1>0 DEF Connection, PerDirection
<1>2. tail \in PerDirection(0 .. max_tail_bytes)
  BY <1>1 DEF PerDirection
<1>3. tail[d] = t /\ \A e \in Direction \ {d} : tail[e] = c.tail[e]
  BY <1>1
<1>4. new = [c EXCEPT !.tail = tail]
  BY DEF SetTail
<1> HIDE DEF tail
<1>5. /\ new \in Connection
      /\ new.ready = c.ready /\ new.desynced = c.desynced /\ new.pending = c.pending
      /\ new.fin = c.fin /\ new.idle = c.idle /\ new.tail = tail
  BY <1>0, <1>2, <1>4 DEF Connection
<1> QED
  BY <1>3, <1>5 DEF TakenFrom, SameElsewhere

\* The plaintext of a record of application data is accounted for, whatever the
\* dissector consumes and wherever the cap on the tail falls.
LEMMA DissectEffect ==
    ASSUME TypeOK, NEW k \in DOMAIN connections, NEW d \in Direction,
           connections[k].ready[d] > 0, NEW plain \in Nat, NEW consumed \in Nat,
           dissect_and_emit(k, d, plain, consumed)
    PROVE  /\ RecordCounted
           /\ \E new : /\ TakenFrom(connections[k], new, d)
                        /\ connections' = Put(k, new)
                        /\ PlaintextKept(connections[k], new, d)
<1> DEFINE old == connections[k]
           conn == Take(k, d)
           buf == conn.tail[d] + plain
           used == IF consumed > buf THEN buf ELSE consumed
           left == IF HasDissector(k, conn) THEN buf - used ELSE 0
           new == [conn EXCEPT !.tail[d] = Capped(left)]
           eaten == IF HasDissector(k, conn) THEN used ELSE 0
           gone == IF HasDissector(k, conn) THEN 0 ELSE buf
<1>1. /\ connections' = Put(k, new)
      /\ counters' = [Seen("decrypted") EXCEPT !.tail_discarded = @ + left - Capped(left)]
      /\ truth' = [truth EXCEPT !.plain = @ + plain, !.dissected = @ + eaten, !.forgotten = @ + gone]
  BY DEF dissect_and_emit
<1>2. TakenFrom(old, conn, d) /\ conn.tail[d] = old.tail[d]
  BY TakeEffect DEF TypeOK
<1>3. old.tail[d] \in 0 .. max_tail_bytes
  BY DEF TypeOK, Connection, PerDirection
<1>4. PICK b \in Nat : b = buf /\ b = old.tail[d] + plain
  BY <1>2, <1>3, TailAssumption
<1>5. PICK u \in 0 .. b : u = used
  BY <1>4
<1>6. PICK l \in 0 .. b : l = left
  BY <1>4, <1>5
<1>7. PICK c \in 0 .. max_tail_bytes : c = Capped(l) /\ c <= l
  BY TailAssumption DEF Capped
<1>8. PICK e \in Nat, g \in Nat : e = eaten /\ g = gone /\ e + g + l = b
  BY <1>4, <1>5, <1>6
<1>9. new = SetTail(conn, d, c)
  BY <1>6, <1>7 DEF SetTail
<1> HIDE DEF old, conn, buf, used, left, new, eaten, gone
<1>10. TakenFrom(old, new, d) /\ new.tail[d] = c
  BY <1>2, <1>9, TakenThenTail
<1>11. RecordCounted /\ counters'.tail_discarded = counters.tail_discarded + l - c
  <2>1. PICK s : s = Seen("decrypted")
    OBVIOUS
  <2>2. CountsOne(s)
    BY <2>1, SeenCounts DEF TypeOK
  <2>3. PICK n \in Nat : n = counters.tail_discarded + l - c
    BY <1>7 DEF TypeOK, Counters
  <2>4. counters' = [s EXCEPT !.tail_discarded = n]
    BY <1>1, <1>6, <1>7, <2>1, <2>2, <2>3 DEF CountsOne
  <2>5. s \in Counters
    BY <2>2 DEF CountsOne
  <2>6. PICK t : t = counters'
    OBVIOUS
  <2>7. /\ t \in Counters /\ t.tail_discarded = n
        /\ t.seen = s.seen /\ t.evicted = s.evicted /\ t.desynced = s.desynced
        /\ t.decrypted = s.decrypted /\ t.nokey = s.nokey /\ t.authfailed = s.authfailed
        /\ t.no_client_hello = s.no_client_hello
        /\ t.plaintext_handshake = s.plaintext_handshake
    BY <2>4, <2>5, <2>6 DEF Counters
  <2> QED
    BY <2>2, <2>3, <2>6, <2>7 DEF RecordCounted, CountsOne, Sorted
<1>12. /\ truth' \in Truth
       /\ truth'.created = truth.created /\ truth'.gone_desynced = truth.gone_desynced
       /\ truth'.plain = truth.plain + plain
       /\ truth'.dissected = truth.dissected + e
       /\ truth'.forgotten = truth.forgotten + g
  <2>1. truth \in Truth
    BY DEF TypeOK
  <2>2. PICK p \in Nat, q \in Nat, r \in Nat :
           p = truth.plain + plain /\ q = truth.dissected + e /\ r = truth.forgotten + g
    BY <2>1 DEF Truth
  <2>3. truth' = [truth EXCEPT !.plain = p, !.dissected = q, !.forgotten = r]
    BY <1>1, <1>8, <2>1, <2>2 DEF Truth
  <2> QED
    BY <2>1, <2>2, <2>3 DEF Truth
<1>13. PlaintextKept(old, new, d)
  <2>1. /\ truth.plain \in Nat /\ truth.dissected \in Nat /\ truth.forgotten \in Nat
        /\ counters.tail_discarded \in Nat
    BY DEF TypeOK, Truth, Counters
  <2>2. old.tail[d] \in Nat
    BY <1>3, TailAssumption
  <2>3. PICK o \in Nat, td \in Nat, tp \in Nat, dd \in Nat, tf \in Nat :
           /\ o = old.tail[d] /\ td = counters.tail_discarded
           /\ tp = truth.plain /\ dd = truth.dissected /\ tf = truth.forgotten
    BY <2>1, <2>2
  <2>4. o + (tp + plain) + td + dd + tf = c + tp + (td + l - c) + (dd + e) + (tf + g)
    BY <1>4, <1>7, <1>8, <2>3
  <2>5. old.tail[d] + truth'.plain + counters.tail_discarded + truth.dissected + truth.forgotten
          = new.tail[d] + truth.plain + counters'.tail_discarded + truth'.dissected + truth'.forgotten
    BY <1>10, <1>11, <1>12, <2>3, <2>4, Zenon
  <2> QED
    BY <1>12, <2>5 DEF PlaintextKept
<1> QED
  BY <1>1, <1>10, <1>11, <1>13 DEF old

\* drain_records takes one record, of the frame's direction, and counts it once.
LEMMA DrainStep ==
    ASSUME TypeOK, drain_records
    PROVE  \E k \in DOMAIN connections : \E d \in Direction : \E new \in Connection :
              /\ busy = <<k, d>> /\ busy' = busy
              /\ connections[k].ready[d] > 0
              /\ TakenFrom(connections[k], new, d)
              /\ connections' = Put(k, new)
              /\ RecordCounted
              /\ PlaintextKept(connections[k], new, d)
<1> DEFINE k == busy[1]
           d == busy[2]
           old == connections[k]
<1>1. /\ busy # None /\ old.ready[d] > 0 /\ busy' = busy
      /\ \/ DrainChangeCipherSpec(k, d)
         \/ DrainClientHello(k, d)
         \/ DrainServerHello(k, d)
         \/ DrainWithoutState(k, d)
         \/ DrainUndissected(k, d)
         \/ DrainApplicationData(k, d)
  BY DEF drain_records
<1>2. k \in DOMAIN connections /\ d \in Direction /\ busy = <<k, d>>
  BY <1>1 DEF TypeOK
<1>3. TakenFrom(old, Take(k, d), d) /\ Take(k, d).tail = old.tail
  BY <1>1, <1>2, TakeEffect DEF TypeOK
<1> HIDE DEF k, d
<1>a. \A new : TakenFrom(old, new, d) => new \in Connection
  BY DEF TakenFrom
<1> SUFFICES /\ RecordCounted
             /\ \E new : /\ TakenFrom(old, new, d)
                          /\ connections' = Put(k, new)
                          /\ PlaintextKept(old, new, d)
  <2>1. PICK new : TakenFrom(old, new, d) /\ connections' = Put(k, new) /\ PlaintextKept(old, new, d)
    OBVIOUS
  <2>2. new \in Connection
    BY <1>a, <2>1
  <2> QED
    BY <1>1, <1>2, <2>1, <2>2
<1>4. ASSUME NEW new, TakenFrom(old, new, d), new.tail = old.tail, connections' = Put(k, new),
             CountsOne(counters'), truth' = truth
      PROVE  /\ RecordCounted
             /\ \E x : /\ TakenFrom(old, x, d)
                        /\ connections' = Put(k, x)
                        /\ PlaintextKept(old, x, d)
  <2>1. RecordCounted
    BY <1>4 DEF RecordCounted, CountsOne
  <2>2. truth' \in Truth
    BY <1>4 DEF TypeOK
  <2>3. PlaintextKept(old, new, d)
    BY <1>4, <2>2 DEF PlaintextKept, CountsOne
  <2> QED
    BY <1>4, <2>1, <2>3
<1>5. counters \in Counters
  BY DEF TypeOK
<1>6. CASE DrainChangeCipherSpec(k, d)
  BY <1>3, <1>4, <1>5, <1>6, SeenCounts DEF DrainChangeCipherSpec
<1>7. CASE DrainClientHello(k, d)
  <2>1. PICK new : new = [Take(k, d) EXCEPT !.hello = TRUE]
    OBVIOUS
  <2>2. TakenFrom(old, new, d) /\ new.tail = old.tail
    BY <1>2, <1>3, <2>1, TakenThenFlag
  <2> QED
    BY <1>4, <1>5, <1>7, <2>1, <2>2, SeenCounts DEF DrainClientHello
<1>8. CASE DrainServerHello(k, d)
  <2>1. PICK new : new = [Take(k, d) EXCEPT !.server_random = TRUE]
    OBVIOUS
  <2>2. TakenFrom(old, new, d) /\ new.tail = old.tail
    BY <1>2, <1>3, <2>1, TakenThenFlag
  <2> QED
    BY <1>4, <1>5, <1>8, <2>1, <2>2, SeenCounts DEF DrainServerHello
<1>9. CASE DrainWithoutState(k, d)
  BY <1>3, <1>4, <1>5, <1>9, SeenCounts DEF DrainWithoutState
<1>10. CASE DrainUndissected(k, d)
  <2>1. PICK name \in {"nokey", "authfailed", "decrypted"} : counters' = Seen(name)
    BY <1>10 DEF DrainUndissected
  <2>2. CountsOne(counters')
    BY <1>5, <2>1, SeenCounts
  <2> QED
    BY <1>3, <1>4, <1>10, <2>2 DEF DrainUndissected
<1>11. CASE DrainApplicationData(k, d)
  <2>1. PICK plain \in 0 .. MaxPlain, consumed \in 0 .. MaxPlain + max_tail_bytes + 1 :
           dissect_and_emit(k, d, plain, consumed)
    BY <1>11 DEF DrainApplicationData
  <2>2. plain \in Nat /\ consumed \in Nat
    BY BoundsAssumption, TailAssumption
  <2> QED
    BY <1>1, <1>2, <2>1, <2>2, DissectEffect
<1> QED
  BY <1>1, <1>6, <1>7, <1>8, <1>9, <1>10, <1>11

-----------------------------------------------------------------------------
(* The connection table.                                                   *)

\* Put replaces or adds one entry.
LEMMA PutEntry ==
    ASSUME NEW k, NEW new
    PROVE  /\ DOMAIN Put(k, new) = DOMAIN connections \union {k}
           /\ Put(k, new)[k] = new
           /\ \A j \in DOMAIN connections \ {k} : Put(k, new)[j] = connections[j]
<1> QED
  BY DEF Put

\* A table of typed entries.
IsTable(t) == IsFiniteSet(DOMAIN t) /\ \A k \in DOMAIN t : t[k] \in Connection

\* What one entry adds to the sums over the table.
TailOf(conn) == conn.tail["c2s"] + conn.tail["s2c"]
DesyncOf(conn) == Cardinality({d \in Direction : conn.desynced[d]})

\* Both are natural numbers.
LEMMA EntryWeights ==
    ASSUME NEW conn \in Connection
    PROVE  TailOf(conn) \in Nat /\ DesyncOf(conn) \in Nat
<1>1. TailOf(conn) \in Nat
  BY TailAssumption DEF Connection, PerDirection, TailOf, Direction
<1>2. IsFiniteSet(Direction)
  <2>1. Direction = ({} \union {"c2s"}) \union {"s2c"}
    BY DEF Direction
  <2> QED
    BY <2>1, FS_EmptySet, FS_AddElement
<1>3. {d \in Direction : conn.desynced[d]} \in SUBSET Direction
  OBVIOUS
<1>4. DesyncOf(conn) \in Nat
  BY <1>2, <1>3, FS_Subset, FS_CardinalityType DEF DesyncOf
<1> QED
  BY <1>1, <1>4

\* Marking a direction desynced counts for one.
LEMMA DesyncOfMarked ==
    ASSUME NEW old \in Connection, NEW new \in Connection, NEW d \in Direction,
           ~old.desynced[d], new.desynced = [old.desynced EXCEPT ![d] = TRUE]
    PROVE  DesyncOf(new) = DesyncOf(old) + 1
<1> DEFINE S == {e \in Direction : old.desynced[e]}
           T == {e \in Direction : new.desynced[e]}
<1>1. old.desynced \in [Direction -> BOOLEAN]
  BY DEF Connection, PerDirection
<1>2. T = S \union {d} /\ d \notin S
  BY <1>1, Zenon
<1>3. IsFiniteSet(S)
  <2>1. Direction = ({} \union {"c2s"}) \union {"s2c"}
    BY DEF Direction
  <2>2. IsFiniteSet(Direction)
    BY <2>1, FS_EmptySet, FS_AddElement
  <2> QED
    BY <2>2, FS_Subset
<1>4. Cardinality(S \union {d}) = Cardinality(S) + 1
  <2> HIDE DEF S
  <2> QED
    BY <1>2, <1>3, FS_AddElement
<1> QED
  BY <1>2, <1>4 DEF DesyncOf

\* How the sums change when an entry is added or replaced.
LEMMA PutSums ==
    ASSUME IsTable(connections), NEW k, NEW new \in Connection,
           NEW table, table = Put(k, new)
    PROVE  /\ Tails(connections) \in Nat /\ Tails(table) \in Nat
           /\ Desynced(connections) \in Nat /\ Desynced(table) \in Nat
           /\ k \in DOMAIN connections =>
                 /\ Tails(table) + TailOf(connections[k]) = Tails(connections) + TailOf(new)
                 /\ Desynced(table) + DesyncOf(connections[k]) = Desynced(connections) + DesyncOf(new)
           /\ k \notin DOMAIN connections =>
                 /\ Tails(table) = Tails(connections) + TailOf(new)
                 /\ Desynced(table) = Desynced(connections) + DesyncOf(new)
<1>0. /\ DOMAIN table = DOMAIN connections \union {k} /\ table[k] = new
      /\ \A j \in DOMAIN connections \ {k} : table[j] = connections[j]
      /\ IsFiniteSet(DOMAIN connections)
      /\ \A j \in DOMAIN connections : connections[j] \in Connection
  BY DEF Put, IsTable
<1>1. PICK f, g : /\ f = [j \in DOMAIN connections |-> TailOf(connections[j])]
                  /\ g = [j \in DOMAIN table |-> TailOf(table[j])]
  OBVIOUS
<1>2. Tails(connections) = SumFunction(f) /\ Tails(table) = SumFunction(g)
  BY <1>1 DEF Tails, TailOf
<1>3. /\ DOMAIN f = DOMAIN connections /\ DOMAIN g = DOMAIN f \union {k}
      /\ g[k] = TailOf(new) /\ g[k] \in Nat
      /\ \A j \in DOMAIN f : f[j] = TailOf(connections[j]) /\ f[j] \in Nat
      /\ \A j \in DOMAIN f \ {k} : g[j] = f[j]
  BY <1>0, <1>1, EntryWeights
<1>4. /\ SumFunction(f) \in Nat /\ SumFunction(g) \in Nat
      /\ k \in DOMAIN f => SumFunction(g) + f[k] = SumFunction(f) + g[k]
      /\ k \notin DOMAIN f => SumFunction(g) = SumFunction(f) + g[k]
  BY <1>0, <1>3, SumUpdate
<1>5. PICK p, q : /\ p = [j \in DOMAIN connections |-> DesyncOf(connections[j])]
                  /\ q = [j \in DOMAIN table |-> DesyncOf(table[j])]
  OBVIOUS
<1>6. Desynced(connections) = SumFunction(p) /\ Desynced(table) = SumFunction(q)
  BY <1>5 DEF Desynced, DesyncOf
<1>7. /\ DOMAIN p = DOMAIN connections /\ DOMAIN q = DOMAIN p \union {k}
      /\ q[k] = DesyncOf(new) /\ q[k] \in Nat
      /\ \A j \in DOMAIN p : p[j] = DesyncOf(connections[j]) /\ p[j] \in Nat
      /\ \A j \in DOMAIN p \ {k} : q[j] = p[j]
  BY <1>0, <1>5, EntryWeights
<1>8. /\ SumFunction(p) \in Nat /\ SumFunction(q) \in Nat
      /\ k \in DOMAIN p => SumFunction(q) + p[k] = SumFunction(p) + q[k]
      /\ k \notin DOMAIN p => SumFunction(q) = SumFunction(p) + q[k]
  BY <1>0, <1>7, SumUpdate
<1> QED
  BY <1>2, <1>3, <1>4, <1>6, <1>7, <1>8

\* Evicting a part of the table cuts the sums in two.
LEMMA EvictSums ==
    ASSUME IsTable(connections), NEW S \in SUBSET DOMAIN connections,
           NEW out, out = Restrict(connections, S),
           NEW in, in = Restrict(connections, DOMAIN connections \ S)
    PROVE  /\ Tails(out) \in Nat /\ Tails(in) \in Nat
           /\ Tails(connections) = Tails(out) + Tails(in)
           /\ Desynced(out) \in Nat /\ Desynced(in) \in Nat
           /\ Desynced(connections) = Desynced(out) + Desynced(in)
<1>0. /\ DOMAIN out = S /\ DOMAIN in = DOMAIN connections \ S
      /\ \A j \in DOMAIN out : out[j] = connections[j]
      /\ \A j \in DOMAIN in : in[j] = connections[j]
      /\ IsFiniteSet(DOMAIN connections)
      /\ \A j \in DOMAIN connections : connections[j] \in Connection
  BY DEF Restrict, IsTable
<1>1. PICK f, g, h : /\ f = [j \in DOMAIN connections |-> TailOf(connections[j])]
                     /\ g = [j \in DOMAIN out |-> TailOf(out[j])]
                     /\ h = [j \in DOMAIN in |-> TailOf(in[j])]
  OBVIOUS
<1>2. /\ Tails(connections) = SumFunction(f)
      /\ Tails(out) = SumFunction(g) /\ Tails(in) = SumFunction(h)
  BY <1>1 DEF Tails, TailOf
<1>3. /\ IsFiniteSet(DOMAIN f) /\ \A j \in DOMAIN f : f[j] \in Nat
      /\ DOMAIN g = S /\ S \subseteq DOMAIN f /\ \A j \in S : g[j] = f[j]
      /\ DOMAIN h = DOMAIN f \ S /\ \A j \in DOMAIN f \ S : h[j] = f[j]
  BY <1>0, <1>1, EntryWeights
<1>4. /\ SumFunction(f) \in Nat /\ SumFunction(g) \in Nat /\ SumFunction(h) \in Nat
      /\ SumFunction(f) = SumFunction(g) + SumFunction(h)
  BY <1>3, SumParts
<1>5. PICK p, q, r : /\ p = [j \in DOMAIN connections |-> DesyncOf(connections[j])]
                     /\ q = [j \in DOMAIN out |-> DesyncOf(out[j])]
                     /\ r = [j \in DOMAIN in |-> DesyncOf(in[j])]
  OBVIOUS
<1>6. /\ Desynced(connections) = SumFunction(p)
      /\ Desynced(out) = SumFunction(q) /\ Desynced(in) = SumFunction(r)
  BY <1>5 DEF Desynced, DesyncOf
<1>7. /\ IsFiniteSet(DOMAIN p) /\ \A j \in DOMAIN p : p[j] \in Nat
      /\ DOMAIN q = S /\ S \subseteq DOMAIN p /\ \A j \in S : q[j] = p[j]
      /\ DOMAIN r = DOMAIN p \ S /\ \A j \in DOMAIN p \ S : r[j] = p[j]
  BY <1>0, <1>5, EntryWeights
<1>8. /\ SumFunction(p) \in Nat /\ SumFunction(q) \in Nat /\ SumFunction(r) \in Nat
      /\ SumFunction(p) = SumFunction(q) + SumFunction(r)
  BY <1>7, SumParts
<1> QED
  BY <1>2, <1>4, <1>6, <1>8

-----------------------------------------------------------------------------
(* The steps, as they are used below.                                      *)

\* Reached states: typed, finitely many entries, nothing left undrained.
Inv == TypeOK /\ ReadyWhileBusy /\ IsFiniteSet(DOMAIN connections)

\* They hold a table.
LEMMA InvTable ==
    ASSUME Inv
    PROVE  IsTable(connections)
<1> QED
  BY DEF Inv, IsTable, TypeOK

\* The entry a frame works on: the one in the table, or one that holds nothing.
IsEntry(k, old) ==
    /\ old \in Connection
    /\ \A d \in Direction : old.ready[d] = 0
    /\ k \in DOMAIN connections => old = connections[k]
    /\ k \notin DOMAIN connections =>
          /\ \A d \in Direction : ~old.desynced[d] /\ ~old.pending[d]
          /\ TailOf(old) = 0 /\ DesyncOf(old) = 0

FrameCounted(k) ==
    /\ truth' \in Truth
    /\ truth'.created = truth.created + (IF k \in DOMAIN connections THEN 0 ELSE 1)
    /\ truth'.gone_desynced = truth.gone_desynced /\ truth'.plain = truth.plain
    /\ truth'.dissected = truth.dissected /\ truth'.forgotten = truth.forgotten

\* A frame: one entry is found or made, and one direction of it is fed.
LEMMA FrameTaken ==
    ASSUME Inv, ProcessFrame
    PROVE  \E k \in Keys : \E d \in Direction : \E old, new \in Connection :
              /\ IsEntry(k, old)
              /\ FrameEffect(old, new, d)
              /\ connections' = Put(k, new)
              /\ busy = None /\ busy' = <<k, d>>
              /\ FrameCounted(k)
              /\ since_sweep' = since_sweep
              /\ frames < MaxFrames /\ frames' = frames + 1
<1>1. PICK k \in Keys, src \in Endpoint, flags \in FrameFlags, payload \in BOOLEAN :
         process_frame(k, src, flags, payload)
  BY DEF ProcessFrame
<1> DEFINE old == EntryFor(k, src)
<1>2. PICK d \in Direction, new \in Connection :
         connections' = Put(k, new) /\ busy' = <<k, d>> /\ FrameEffect(old, new, d)
  BY <1>1, FrameStep DEF Inv
<1>3. /\ busy = None /\ frames < MaxFrames /\ frames' = frames + 1 /\ since_sweep' = since_sweep
      /\ truth' = [truth EXCEPT !.created = @ + (IF k \in DOMAIN connections THEN 0 ELSE 1)]
  BY <1>1 DEF process_frame
<1>4. IsEntry(k, old)
  <2>1. old \in Connection /\ \A e \in Direction : old.ready[e] = 0
    BY <1>3, EntryType DEF Inv
  <2>2. k \in DOMAIN connections => old = connections[k]
    BY DEF EntryFor
  <2>3. ASSUME k \notin DOMAIN connections
        PROVE  /\ \A e \in Direction : ~old.desynced[e] /\ ~old.pending[e]
               /\ TailOf(old) = 0 /\ DesyncOf(old) = 0
    <3>1. old = NewConnection(src)
      BY <2>3 DEF EntryFor
    <3>2. \A e \in Direction : ~old.desynced[e] /\ ~old.pending[e]
      BY <3>1 DEF NewConnection
    <3>3. TailOf(old) = 0
      BY <3>1 DEF NewConnection, TailOf, Direction
    <3>4. {e \in Direction : old.desynced[e]} = {}
      BY <3>2
    <3>5. DesyncOf(old) = 0
      BY <3>4, FS_EmptySet DEF DesyncOf
    <3> QED
      BY <3>2, <3>3, <3>5
  <2> QED
    BY <2>1, <2>2, <2>3 DEF IsEntry
<1>5. FrameCounted(k)
  <2>1. truth \in Truth
    BY DEF Inv, TypeOK
  <2>2. PICK n \in Nat : n = truth.created + (IF k \in DOMAIN connections THEN 0 ELSE 1)
    BY <2>1 DEF Truth
  <2>3. truth' = [truth EXCEPT !.created = n]
    BY <1>3, <2>2
  <2> QED
    BY <2>1, <2>2, <2>3 DEF FrameCounted, Truth
<1>6. old \in Connection
  BY <1>4 DEF IsEntry
<1> HIDE DEF old
<1> QED
  BY <1>2, <1>3, <1>4, <1>5, <1>6

\* The end of a frame: some entries leave the table, and are counted.
LEMMA FrameFinished ==
    ASSUME Inv, FinishFrame
    PROVE  \E S \in SUBSET DOMAIN connections : \E out :
              /\ S = DOMAIN connections \ Retained(StillOpen(busy[1]))
              /\ out = Restrict(connections, S)
              /\ connections' = Restrict(connections, DOMAIN connections \ S)
              /\ counters' \in Counters
              /\ counters'.evicted = counters.evicted + Cardinality(S)
              /\ counters'.seen = counters.seen /\ Sorted(counters') = Sorted(counters)
              /\ counters'.desynced = counters.desynced
              /\ counters'.tail_discarded = counters.tail_discarded
              /\ truth' \in Truth
              /\ truth'.created = truth.created /\ truth'.plain = truth.plain
              /\ truth'.dissected = truth.dissected
              /\ truth'.gone_desynced = truth.gone_desynced + Desynced(out)
              /\ truth'.forgotten = truth.forgotten + Tails(out)
<1>1. PICK S : S = DOMAIN connections \ Retained(StillOpen(busy[1]))
  OBVIOUS
<1>2. S \in SUBSET DOMAIN connections
  BY <1>1
<1>3. PICK out : out = Restrict(connections, S)
  OBVIOUS
<1>4. /\ connections' = Restrict(connections, DOMAIN connections \ S)
      /\ counters' = [counters EXCEPT !.evicted = @ + Cardinality(S)]
      /\ truth' = [truth EXCEPT !.gone_desynced = @ + Desynced(out), !.forgotten = @ + Tails(out)]
  BY <1>1, <1>3 DEF FinishFrame, Evict, Lost
<1>5. Tails(out) \in Nat /\ Desynced(out) \in Nat
  BY <1>2, <1>3, InvTable, EvictSums
<1>6. Cardinality(S) \in Nat
  BY <1>2, FS_Subset, FS_CardinalityType DEF Inv
<1>7. /\ counters' \in Counters
      /\ counters'.evicted = counters.evicted + Cardinality(S)
      /\ counters'.seen = counters.seen /\ Sorted(counters') = Sorted(counters)
      /\ counters'.desynced = counters.desynced
      /\ counters'.tail_discarded = counters.tail_discarded
  <2>1. counters \in Counters
    BY DEF Inv, TypeOK
  <2>2. PICK n \in Nat : n = counters.evicted + Cardinality(S)
    BY <1>6, <2>1 DEF Counters
  <2>3. counters' = [counters EXCEPT !.evicted = n]
    BY <1>4, <2>2
  <2> QED
    BY <2>1, <2>2, <2>3 DEF Counters, Sorted
<1>8. /\ truth' \in Truth
      /\ truth'.created = truth.created /\ truth'.plain = truth.plain
      /\ truth'.dissected = truth.dissected
      /\ truth'.gone_desynced = truth.gone_desynced + Desynced(out)
      /\ truth'.forgotten = truth.forgotten + Tails(out)
  <2>1. truth \in Truth
    BY DEF Inv, TypeOK
  <2>2. PICK n \in Nat, m \in Nat :
           n = truth.gone_desynced + Desynced(out) /\ m = truth.forgotten + Tails(out)
    BY <1>5, <2>1 DEF Truth
  <2>3. truth' = [truth EXCEPT !.gone_desynced = n, !.forgotten = m]
    BY <1>4, <2>2
  <2> QED
    BY <2>1, <2>2, <2>3 DEF Truth
<1> QED
  BY <1>1, <1>2, <1>3, <1>4, <1>7, <1>8

-----------------------------------------------------------------------------
(* Type correctness.                                                       *)

\* What FrameEffect does to the counters.
LEMMA FrameCounters ==
    ASSUME counters \in Counters, NEW old, NEW new, NEW d, FrameEffect(old, new, d)
    PROVE  /\ counters' \in Counters
           /\ counters'.seen = counters.seen /\ Sorted(counters') = Sorted(counters)
           /\ counters'.evicted = counters.evicted
           /\ counters'.tail_discarded = counters.tail_discarded
           /\ \/ /\ counters'.desynced = counters.desynced + 1
                 /\ ~old.desynced[d] /\ new.desynced = [old.desynced EXCEPT ![d] = TRUE]
              \/ counters'.desynced = counters.desynced /\ new.desynced = old.desynced
<1>1. CASE /\ ~old.desynced[d] /\ new.desynced = [old.desynced EXCEPT ![d] = TRUE]
           /\ counters' = [counters EXCEPT !.gap_bytes = @ + 1, !.desynced = @ + 1]
  <2>1. PICK n \in Nat, m \in Nat : n = counters.gap_bytes + 1 /\ m = counters.desynced + 1
    BY DEF Counters
  <2>2. PICK c : c = counters'
    OBVIOUS
  <2>3. c = [counters EXCEPT !.gap_bytes = n, !.desynced = m]
    BY <1>1, <2>1, <2>2
  <2>4. /\ c \in Counters /\ c.desynced = m
        /\ c.seen = counters.seen /\ c.evicted = counters.evicted
        /\ c.tail_discarded = counters.tail_discarded
        /\ c.decrypted = counters.decrypted /\ c.nokey = counters.nokey
        /\ c.authfailed = counters.authfailed
        /\ c.no_client_hello = counters.no_client_hello
        /\ c.plaintext_handshake = counters.plaintext_handshake
    BY <2>3 DEF Counters
  <2> QED
    BY <1>1, <2>1, <2>2, <2>4 DEF Sorted
<1>2. CASE new.desynced = old.desynced /\ counters' = counters
  BY <1>2
<1> QED
  BY <1>1, <1>2 DEF FrameEffect

\* process_frame keeps the invariant: between frames no record is left, so what a
\* push completes is all there is.
LEMMA FrameKeepsInv ==
    ASSUME Inv, ProcessFrame
    PROVE  Inv'
<1>1. PICK k \in Keys, d \in Direction, old \in Connection, new \in Connection :
         /\ IsEntry(k, old)
         /\ FrameEffect(old, new, d)
         /\ connections' = Put(k, new)
         /\ busy = None /\ busy' = <<k, d>>
         /\ FrameCounted(k)
         /\ since_sweep' = since_sweep
         /\ frames < MaxFrames /\ frames' = frames + 1
  BY FrameTaken
<1>2. /\ DOMAIN connections' = DOMAIN connections \union {k}
      /\ connections'[k] = new
      /\ \A j \in DOMAIN connections \ {k} : connections'[j] = connections[j]
  BY <1>1 DEF Put
<1>3. IsFiniteSet(DOMAIN connections')
  BY <1>2, FS_AddElement DEF Inv
<1>4. TypeOK'
  <2>1. counters' \in Counters
    BY <1>1, FrameCounters DEF Inv, TypeOK
  <2>2. truth' \in Truth
    BY <1>1 DEF FrameCounted
  <2>3. frames' \in 0 .. MaxFrames
    BY <1>1, BoundsAssumption DEF Inv, TypeOK
  <2> QED
    BY <1>1, <1>2, <2>1, <2>2, <2>3 DEF Inv, TypeOK, Direction
<1>5. ReadyWhileBusy'
  <2>1. ASSUME NEW j \in DOMAIN connections', NEW e \in Direction, busy' # <<j, e>>
        PROVE  connections'[j].ready[e] = 0
    <3>1. CASE j = k
      <4>1. e # d
        BY <1>1, <2>1, <3>1
      <4>2. new.ready[e] = old.ready[e]
        BY <1>1, <4>1 DEF FrameEffect, SameElsewhere
      <4> QED
        BY <1>1, <1>2, <3>1, <4>2 DEF IsEntry
    <3>2. CASE j # k
      <4>1. j \in DOMAIN connections /\ connections'[j] = connections[j]
        BY <1>2, <3>2
      <4>2. busy # <<j, e>>
        BY <1>1, <4>1, KeysAssumption DEF Inv, TypeOK
      <4> QED
        BY <4>1, <4>2 DEF Inv, ReadyWhileBusy
    <3> QED
      BY <3>1, <3>2
  <2> QED
    BY <2>1 DEF ReadyWhileBusy
<1> QED
  BY <1>3, <1>4, <1>5 DEF Inv

\* So does one iteration of drain_records.
LEMMA DrainKeepsInv ==
    ASSUME Inv, drain_records
    PROVE  Inv'
<1>1. PICK k \in DOMAIN connections, d \in Direction, new \in Connection :
         /\ busy = <<k, d>> /\ busy' = busy
         /\ connections[k].ready[d] > 0
         /\ TakenFrom(connections[k], new, d)
         /\ connections' = Put(k, new)
         /\ RecordCounted
         /\ PlaintextKept(connections[k], new, d)
  BY DrainStep DEF Inv
<1>2. since_sweep' = since_sweep /\ frames' = frames
  BY DEF drain_records
<1>3. /\ DOMAIN connections' = DOMAIN connections
      /\ connections'[k] = new
      /\ \A j \in DOMAIN connections \ {k} : connections'[j] = connections[j]
  BY <1>1 DEF Put
<1>4. TypeOK'
  <2>1. new \in Connection
    BY <1>1 DEF TakenFrom
  <2>2. counters' \in Counters /\ truth' \in Truth
    BY <1>1 DEF RecordCounted, PlaintextKept
  <2> QED
    BY <1>1, <1>2, <1>3, <2>1, <2>2 DEF Inv, TypeOK
<1>5. ReadyWhileBusy'
  <2>1. \A e \in Direction \ {d} : new.ready[e] = connections[k].ready[e]
    BY <1>1 DEF TakenFrom, SameElsewhere
  <2> QED
    BY <1>1, <1>3, <2>1 DEF Inv, ReadyWhileBusy
<1> QED
  BY <1>3, <1>4, <1>5 DEF Inv

\* So does the end of a frame.
LEMMA FinishKeepsInv ==
    ASSUME Inv, FinishFrame
    PROVE  Inv'
<1>1. PICK S \in SUBSET DOMAIN connections :
         /\ connections' = Restrict(connections, DOMAIN connections \ S)
         /\ counters' \in Counters /\ truth' \in Truth
  BY FrameFinished
<1>2. /\ busy # None /\ busy' = None /\ frames' = frames
      /\ connections[busy[1]].ready[busy[2]] = 0
      /\ since_sweep' = IF SweepDue THEN 0 ELSE since_sweep
  BY DEF FinishFrame
<1>3. /\ DOMAIN connections' = DOMAIN connections \ S
      /\ \A j \in DOMAIN connections' : connections'[j] = connections[j]
  BY <1>1 DEF Restrict
<1>4. IsFiniteSet(DOMAIN connections')
  BY <1>3, FS_Difference DEF Inv
<1>5. since_sweep' \in 0 .. MaxAge
  BY <1>2, MaxAgeType DEF Inv, TypeOK
<1>6. TypeOK'
  BY <1>1, <1>2, <1>3, <1>5 DEF Inv, TypeOK
<1>7. ReadyWhileBusy'
  <2>1. busy \in Keys \X Direction
    BY <1>2 DEF Inv, TypeOK
  <2>2. \A j \in DOMAIN connections : \A e \in Direction : connections[j].ready[e] = 0
    BY <1>2, <2>1 DEF Inv, ReadyWhileBusy
  <2> QED
    BY <1>3, <2>2 DEF ReadyWhileBusy
<1> QED
  BY <1>4, <1>6, <1>7 DEF Inv

\* Growing older changes the age alone.
LEMMA OlderEntry ==
    ASSUME NEW conn \in Connection
    PROVE  LET older == [conn EXCEPT !.idle = Older(@)]
           IN  /\ older \in Connection
               /\ older.idle = Older(conn.idle)
               /\ older.ready = conn.ready /\ older.pending = conn.pending
               /\ older.desynced = conn.desynced /\ older.tail = conn.tail
               /\ older.fin = conn.fin
<1>1. conn.idle \in 0 .. MaxAge
  BY DEF Connection
<1>2. PICK n \in 0 .. MaxAge : n = Older(conn.idle)
  BY <1>1, MaxAgeType DEF Older
<1>3. PICK older : older = [conn EXCEPT !.idle = n]
  OBVIOUS
<1>4. /\ older \in Connection
      /\ older.idle = n
      /\ older.ready = conn.ready /\ older.pending = conn.pending
      /\ older.desynced = conn.desynced /\ older.tail = conn.tail
      /\ older.fin = conn.fin
  BY <1>3 DEF Connection
<1> QED
  BY <1>2, <1>3, <1>4

\* Time keeps the invariant.
LEMMA TickKeepsInv ==
    ASSUME Inv, Tick
    PROVE  Inv'
<1>1. /\ busy' = busy /\ frames' = frames /\ counters' = counters /\ truth' = truth
      /\ since_sweep' = Older(since_sweep)
      /\ DOMAIN connections' = DOMAIN connections
      /\ \A k \in DOMAIN connections : connections'[k] = [connections[k] EXCEPT !.idle = Older(@)]
  BY DEF Tick
<1>2. \A k \in DOMAIN connections :
         connections'[k] \in Connection /\ connections'[k].ready = connections[k].ready
  <2> SUFFICES ASSUME NEW k \in DOMAIN connections
               PROVE  connections'[k] \in Connection /\ connections'[k].ready = connections[k].ready
    OBVIOUS
  <2>1. PICK conn \in Connection : conn = connections[k]
    BY DEF Inv, TypeOK
  <2>2. PICK older : older = [conn EXCEPT !.idle = Older(@)]
    OBVIOUS
  <2>3. older \in Connection /\ older.ready = conn.ready
    BY <2>2, OlderEntry
  <2>4. connections'[k] = older
    BY <1>1, <2>1, <2>2
  <2> QED
    BY <2>1, <2>3, <2>4
<1>3. since_sweep' \in 0 .. MaxAge
  BY <1>1, MaxAgeType DEF Inv, TypeOK, Older
<1>4. TypeOK'
  BY <1>1, <1>2, <1>3 DEF Inv, TypeOK
<1>5. ReadyWhileBusy'
  BY <1>1, <1>2 DEF Inv, ReadyWhileBusy
<1> QED
  BY <1>1, <1>4, <1>5 DEF Inv

\* Inv is inductive.
THEOREM Invariance == Spec => []Inv
<1>1. Init => Inv
  <2> SUFFICES ASSUME Init PROVE Inv
    OBVIOUS
  <2>1. DOMAIN connections = {}
    BY DEF Init
  <2>2. counters \in Counters /\ truth \in Truth
    BY DEF Init, Counters, Truth
  <2>3. TypeOK
    BY <2>1, <2>2, MaxAgeType, BoundsAssumption DEF Init, TypeOK
  <2> QED
    BY <2>1, <2>3, FS_EmptySet DEF Inv, ReadyWhileBusy
<1>2. Inv /\ [Next]_vars => Inv'
  <2> SUFFICES ASSUME Inv, [Next]_vars PROVE Inv'
    OBVIOUS
  <2>1. CASE ProcessFrame
    BY <2>1, FrameKeepsInv
  <2>2. CASE drain_records
    BY <2>2, DrainKeepsInv
  <2>3. CASE FinishFrame
    BY <2>3, FinishKeepsInv
  <2>4. CASE Tick
    BY <2>4, TickKeepsInv
  <2>5. CASE UNCHANGED vars
    BY <2>5 DEF vars, Inv, TypeOK, ReadyWhileBusy
  <2> QED
    BY <2>1, <2>2, <2>3, <2>4, <2>5 DEF Next
<1> QED
  BY <1>1, <1>2, PTL DEF Spec

\* The connection table, the counters and the drain keep their types: in
\* particular no reassembler holds more records than one push completes, and no
\* tail exceeds max_tail_bytes.
THEOREM TypeCorrect == Spec => []TypeOK
<1>1. Inv => TypeOK
  BY DEF Inv
<1> QED
  BY <1>1, Invariance, PTL

-----------------------------------------------------------------------------
(* The counters.                                                           *)

\* Every record drain_records takes is counted as seen and under exactly one of
\* the five outcomes.
THEOREM RecordsSorted == Spec => []CountersSum
<1>1. Init => CountersSum
  BY DEF Init, CountersSum
<1>2. Inv /\ CountersSum /\ [Next]_vars => CountersSum'
  <2> SUFFICES ASSUME Inv, CountersSum, [Next]_vars PROVE CountersSum'
    OBVIOUS
  <2>0. counters \in Counters /\ counters.seen = Sorted(counters)
    BY DEF Inv, TypeOK, CountersSum, Sorted
  <2>1. CASE ProcessFrame
    <3>1. counters'.seen = counters.seen /\ Sorted(counters') = Sorted(counters)
      BY <2>0, <2>1, FrameTaken, FrameCounters
    <3> QED
      BY <2>0, <3>1 DEF CountersSum, Sorted
  <2>2. CASE drain_records
    <3>1. RecordCounted
      BY <2>2, DrainStep DEF Inv
    <3> QED
      BY <2>0, <3>1 DEF RecordCounted, CountersSum, Sorted
  <2>3. CASE FinishFrame
    <3>1. counters'.seen = counters.seen /\ Sorted(counters') = Sorted(counters)
      BY <2>3, FrameFinished
    <3> QED
      BY <2>0, <3>1 DEF CountersSum, Sorted
  <2>4. CASE Tick
    BY <2>4 DEF Tick, CountersSum
  <2>5. CASE UNCHANGED vars
    BY <2>5 DEF vars, CountersSum
  <2> QED
    BY <2>1, <2>2, <2>3, <2>4, <2>5 DEF Next
<1> QED
  BY <1>1, <1>2, Invariance, PTL DEF Spec

\* No entry leaves the table uncounted, and none is counted twice.
THEOREM NoEntryLost == Spec => []EvictionsAccounted
<1>1. Init => EvictionsAccounted
  BY FS_EmptySet DEF Init, EvictionsAccounted
<1>2. Inv /\ EvictionsAccounted /\ [Next]_vars => EvictionsAccounted'
  <2> SUFFICES ASSUME Inv, EvictionsAccounted, [Next]_vars PROVE EvictionsAccounted'
    OBVIOUS
  <2> DEFINE D == DOMAIN connections
  <2>0. /\ counters.evicted \in Nat /\ truth.created \in Nat /\ Cardinality(D) \in Nat
        /\ IsFiniteSet(D) /\ counters \in Counters
        /\ counters.evicted + Cardinality(D) = truth.created
    BY FS_CardinalityType DEF Inv, TypeOK, Counters, Truth, EvictionsAccounted
  <2>1. CASE ProcessFrame
    <3>1. PICK k \in Keys, d \in Direction, old \in Connection, new \in Connection :
             /\ FrameEffect(old, new, d)
             /\ connections' = Put(k, new)
             /\ FrameCounted(k)
      BY <2>1, FrameTaken
    <3>2. counters'.evicted = counters.evicted
      BY <2>0, <3>1, FrameCounters
    <3>3. DOMAIN connections' = D \union {k}
      BY <3>1 DEF Put
    <3>4. Cardinality(D \union {k}) = IF k \in D THEN Cardinality(D) ELSE Cardinality(D) + 1
      BY <2>0, FS_AddElement
    <3>5. truth'.created = truth.created + (IF k \in D THEN 0 ELSE 1)
      BY <3>1 DEF FrameCounted
    <3> QED
      BY <2>0, <3>2, <3>3, <3>4, <3>5 DEF EvictionsAccounted
  <2>2. CASE drain_records
    <3>1. PICK k \in D, d \in Direction, new \in Connection :
             connections' = Put(k, new) /\ RecordCounted /\ PlaintextKept(connections[k], new, d)
      BY <2>2, DrainStep DEF Inv
    <3>2. DOMAIN connections' = D
      BY <3>1 DEF Put
    <3> QED
      BY <2>0, <3>1, <3>2 DEF EvictionsAccounted, RecordCounted, PlaintextKept
  <2>3. CASE FinishFrame
    <3>1. PICK S \in SUBSET D :
             /\ connections' = Restrict(connections, D \ S)
             /\ counters'.evicted = counters.evicted + Cardinality(S)
             /\ truth'.created = truth.created
      BY <2>3, FrameFinished
    <3>2. DOMAIN connections' = D \ S
      BY <3>1 DEF Restrict
    <3>3. D \cap S = S
      BY <3>1
    <3>4. Cardinality(D \ S) = Cardinality(D) - Cardinality(S) /\ Cardinality(S) \in Nat
      <4> HIDE DEF D
      <4>1. IsFiniteSet(S)
        BY <2>0, FS_Subset
      <4>2. Cardinality(S) \in Nat
        BY <4>1, FS_CardinalityType
      <4>3. Cardinality(D \ S) = Cardinality(D) - Cardinality(D \cap S)
        BY <2>0, FS_Difference
      <4> QED
        BY <3>3, <4>2, <4>3
    <3> QED
      BY <2>0, <3>1, <3>2, <3>4 DEF EvictionsAccounted
  <2>4. CASE Tick
    <3>1. DOMAIN connections' = D /\ counters' = counters /\ truth' = truth
      BY <2>4 DEF Tick
    <3> QED
      BY <3>1 DEF EvictionsAccounted
  <2>5. CASE UNCHANGED vars
    BY <2>5 DEF vars, EvictionsAccounted
  <2> QED
    BY <2>1, <2>2, <2>3, <2>4, <2>5 DEF Next
<1> QED
  BY <1>1, <1>2, Invariance, PTL DEF Spec

\* A desynced direction stays empty: its reassembler is fresh and is never fed.
THEOREM DesyncedStaysEmpty == Spec => []DesyncedHoldsNothing
<1>1. Init => DesyncedHoldsNothing
  BY DEF Init, DesyncedHoldsNothing
<1>2. Inv /\ DesyncedHoldsNothing /\ [Next]_vars => DesyncedHoldsNothing'
  <2> SUFFICES ASSUME Inv, DesyncedHoldsNothing, [Next]_vars PROVE DesyncedHoldsNothing'
    OBVIOUS
  <2> DEFINE Empty(conn, e) == conn.desynced[e] => conn.ready[e] = 0 /\ ~conn.pending[e]
  <2>0. \A k \in DOMAIN connections : \A e \in Direction : Empty(connections[k], e)
    BY DEF DesyncedHoldsNothing
  <2>1. CASE ProcessFrame
    <3>1. PICK k \in Keys, d \in Direction, old \in Connection, new \in Connection :
             /\ IsEntry(k, old)
             /\ FrameEffect(old, new, d)
             /\ connections' = Put(k, new)
      BY <2>1, FrameTaken
    <3>2. \A e \in Direction : Empty(old, e)
      BY <2>0, <3>1 DEF IsEntry
    <3>3. ASSUME NEW e \in Direction
          PROVE  Empty(new, e)
      <4>1. CASE e # d
        BY <3>1, <3>2, <4>1 DEF FrameEffect, SameElsewhere
      <4>2. CASE e = d
        BY <3>1, <3>2, <4>2 DEF FrameEffect
      <4> QED
        BY <4>1, <4>2
    <3> QED
      BY <2>0, <3>1, <3>3 DEF Put, DesyncedHoldsNothing
  <2>2. CASE drain_records
    <3>1. PICK k \in DOMAIN connections, d \in Direction, new \in Connection :
             /\ connections[k].ready[d] > 0
             /\ TakenFrom(connections[k], new, d)
             /\ connections' = Put(k, new)
      BY <2>2, DrainStep DEF Inv
    <3>2. ~connections[k].desynced[d]
      BY <2>0, <3>1
    <3>3. \A e \in Direction : Empty(new, e)
      BY <2>0, <3>1, <3>2 DEF TakenFrom, SameElsewhere
    <3> QED
      BY <2>0, <3>1, <3>3 DEF Put, DesyncedHoldsNothing
  <2>3. CASE FinishFrame
    <3>1. PICK S \in SUBSET DOMAIN connections :
             connections' = Restrict(connections, DOMAIN connections \ S)
      BY <2>3, FrameFinished
    <3> QED
      BY <2>0, <3>1 DEF Restrict, DesyncedHoldsNothing
  <2>4. CASE Tick
    <3>1. DOMAIN connections' = DOMAIN connections
      BY <2>4 DEF Tick
    <3>2. \A k \in DOMAIN connections :
             /\ connections'[k].desynced = connections[k].desynced
             /\ connections'[k].ready = connections[k].ready
             /\ connections'[k].pending = connections[k].pending
      BY <2>4, OlderEntry DEF Tick, Inv, TypeOK
    <3> QED
      BY <2>0, <3>1, <3>2 DEF DesyncedHoldsNothing
  <2>5. CASE UNCHANGED vars
    BY <2>5 DEF vars, DesyncedHoldsNothing
  <2> QED
    BY <2>1, <2>2, <2>3, <2>4, <2>5 DEF Next
<1> QED
  BY <1>1, <1>2, Invariance, PTL DEF Spec

\* Two tables with the same entries but for their age hold the same.
LEMMA TickSums ==
    ASSUME Inv, Tick
    PROVE  Tails(connections)' = Tails(connections) /\ Desynced(connections)' = Desynced(connections)
<1>1. DOMAIN connections' = DOMAIN connections
  BY DEF Tick
<1>2. \A k \in DOMAIN connections :
         /\ connections'[k].desynced = connections[k].desynced
         /\ connections'[k].tail = connections[k].tail
  BY OlderEntry DEF Tick, Inv, TypeOK
<1>3. [k \in DOMAIN connections |-> TailOf(connections[k])]'
         = [k \in DOMAIN connections |-> TailOf(connections[k])]
  BY <1>1, <1>2 DEF TailOf
<1>4. [k \in DOMAIN connections |-> DesyncOf(connections[k])]'
         = [k \in DOMAIN connections |-> DesyncOf(connections[k])]
  BY <1>1, <1>2 DEF DesyncOf
<1>5. /\ Tails(connections) = SumFunction([k \in DOMAIN connections |-> TailOf(connections[k])])
      /\ Desynced(connections) = SumFunction([k \in DOMAIN connections |-> DesyncOf(connections[k])])
  BY DEF Tails, Desynced, TailOf, DesyncOf
<1>6. /\ Tails(connections)' = SumFunction([k \in DOMAIN connections |-> TailOf(connections[k])]')
      /\ Desynced(connections)' = SumFunction([k \in DOMAIN connections |-> DesyncOf(connections[k])]')
  BY DEF Tails, Desynced, TailOf, DesyncOf
<1> QED
  BY <1>3, <1>4, <1>5, <1>6

\* connections_desynced counts every direction given up once, and no other.
THEOREM DesyncsCounted == Spec => []DesyncCountedOnce
<1>1. Init => DesyncCountedOnce
  <2> SUFFICES ASSUME Init PROVE DesyncCountedOnce
    OBVIOUS
  <2>1. PICK f : f = [k \in DOMAIN connections |-> DesyncOf(connections[k])]
    OBVIOUS
  <2>2. Desynced(connections) = SumFunction(f) /\ DOMAIN f = {}
    BY <2>1 DEF Init, Desynced, DesyncOf
  <2>3. SumFunction(f) = 0
    BY <2>2, SumEmpty DEF SumFunction
  <2> QED
    BY <2>2, <2>3 DEF Init, DesyncCountedOnce
<1>2. Inv /\ DesyncCountedOnce /\ [Next]_vars => DesyncCountedOnce'
  <2> SUFFICES ASSUME Inv, DesyncCountedOnce, [Next]_vars PROVE DesyncCountedOnce'
    OBVIOUS
  <2>0. /\ counters \in Counters /\ counters.desynced \in Nat /\ truth.gone_desynced \in Nat
        /\ counters.desynced = truth.gone_desynced + Desynced(connections)
    BY DEF Inv, TypeOK, Counters, Truth, DesyncCountedOnce
  <2>1. CASE ProcessFrame
    <3>1. PICK k \in Keys, d \in Direction, old \in Connection, new \in Connection :
             /\ IsEntry(k, old)
             /\ FrameEffect(old, new, d)
             /\ connections' = Put(k, new)
             /\ FrameCounted(k)
      BY <2>1, FrameTaken
    <3>2. PICK table : table = connections'
      OBVIOUS
    <3>3. /\ Desynced(connections) \in Nat /\ Desynced(table) \in Nat
          /\ k \in DOMAIN connections =>
                Desynced(table) + DesyncOf(connections[k]) = Desynced(connections) + DesyncOf(new)
          /\ k \notin DOMAIN connections => Desynced(table) = Desynced(connections) + DesyncOf(new)
      BY <3>1, <3>2, InvTable, PutSums
    <3>4. DesyncOf(old) \in Nat /\ DesyncOf(new) \in Nat
      BY EntryWeights
    <3>5. Desynced(table) + DesyncOf(old) = Desynced(connections) + DesyncOf(new)
      BY <3>1, <3>3, <3>4 DEF IsEntry
    <3>6. \/ counters'.desynced = counters.desynced + 1 /\ DesyncOf(new) = DesyncOf(old) + 1
          \/ counters'.desynced = counters.desynced /\ DesyncOf(new) = DesyncOf(old)
      <4>1. CASE /\ counters'.desynced = counters.desynced + 1
                 /\ ~old.desynced[d] /\ new.desynced = [old.desynced EXCEPT ![d] = TRUE]
        BY <4>1, DesyncOfMarked
      <4>2. CASE counters'.desynced = counters.desynced /\ new.desynced = old.desynced
        BY <4>2 DEF DesyncOf
      <4> QED
        BY <2>0, <3>1, <4>1, <4>2, FrameCounters
    <3>7. truth'.gone_desynced = truth.gone_desynced
      BY <3>1 DEF FrameCounted
    <3>8. counters'.desynced = truth'.gone_desynced + Desynced(table)
      BY <2>0, <3>3, <3>4, <3>5, <3>6, <3>7
    <3> QED
      BY <3>2, <3>8 DEF DesyncCountedOnce
  <2>2. CASE drain_records
    <3>1. PICK k \in DOMAIN connections, d \in Direction, new \in Connection :
             /\ TakenFrom(connections[k], new, d)
             /\ connections' = Put(k, new)
             /\ RecordCounted
             /\ PlaintextKept(connections[k], new, d)
      BY <2>2, DrainStep DEF Inv
    <3>2. PICK table : table = connections'
      OBVIOUS
    <3>3. new \in Connection /\ DesyncOf(new) = DesyncOf(connections[k])
      BY <3>1 DEF TakenFrom, DesyncOf
    <3>4. /\ Desynced(connections) \in Nat /\ Desynced(table) \in Nat
          /\ Desynced(table) + DesyncOf(connections[k]) = Desynced(connections) + DesyncOf(new)
      BY <3>1, <3>2, <3>3, InvTable, PutSums
    <3>5. DesyncOf(new) \in Nat
      BY <3>3, EntryWeights
    <3>6. Desynced(table) = Desynced(connections)
      BY <3>3, <3>4, <3>5
    <3> QED
      BY <2>0, <3>1, <3>2, <3>6 DEF DesyncCountedOnce, RecordCounted, PlaintextKept
  <2>3. CASE FinishFrame
    <3>0. PICK S \in SUBSET DOMAIN connections : \E out :
             /\ out = Restrict(connections, S)
             /\ connections' = Restrict(connections, DOMAIN connections \ S)
             /\ counters'.desynced = counters.desynced
             /\ truth'.gone_desynced = truth.gone_desynced + Desynced(out)
      BY <2>3, FrameFinished
    <3>1. PICK out :
             /\ S \in SUBSET DOMAIN connections
             /\ out = Restrict(connections, S)
             /\ connections' = Restrict(connections, DOMAIN connections \ S)
             /\ counters'.desynced = counters.desynced
             /\ truth'.gone_desynced = truth.gone_desynced + Desynced(out)
      BY <3>0
    <3>2. PICK table : table = connections'
      OBVIOUS
    <3>3. /\ Desynced(out) \in Nat /\ Desynced(table) \in Nat
          /\ Desynced(connections) = Desynced(out) + Desynced(table)
      BY <3>1, <3>2, InvTable, EvictSums
    <3>4. counters'.desynced = truth'.gone_desynced + Desynced(table)
      BY <2>0, <3>1, <3>3
    <3> QED
      BY <3>2, <3>4 DEF DesyncCountedOnce
  <2>4. CASE Tick
    <3>1. counters' = counters /\ truth' = truth
      BY <2>4 DEF Tick
    <3> QED
      BY <2>0, <2>4, <3>1, TickSums DEF DesyncCountedOnce
  <2>5. CASE UNCHANGED vars
    BY <2>5 DEF vars, DesyncCountedOnce
  <2> QED
    BY <2>1, <2>2, <2>3, <2>4, <2>5 DEF Next
<1> QED
  BY <1>1, <1>2, Invariance, PTL DEF Spec

\* The tails of an entry, direction by direction.
LEMMA TailOfPair ==
    ASSUME NEW old, NEW new, NEW d \in Direction,
           old \in Connection, new \in Connection, SameElsewhere(old, new, d)
    PROVE  /\ old.tail[d] \in Nat /\ new.tail[d] \in Nat
           /\ TailOf(old) \in Nat /\ TailOf(new) \in Nat
           /\ TailOf(new) + old.tail[d] = TailOf(old) + new.tail[d]
<1>1. \A e \in Direction : old.tail[e] \in Nat /\ new.tail[e] \in Nat
  BY TailAssumption DEF Connection, PerDirection
<1>2. CASE d = "c2s"
  <2>1. new.tail["s2c"] = old.tail["s2c"]
    BY <1>2 DEF SameElsewhere, Direction
  <2> QED
    BY <1>1, <1>2, <2>1 DEF TailOf, Direction
<1>3. CASE d = "s2c"
  <2>1. new.tail["c2s"] = old.tail["c2s"]
    BY <1>3 DEF SameElsewhere, Direction
  <2> QED
    BY <1>1, <1>3, <2>1 DEF TailOf, Direction
<1> QED
  BY <1>2, <1>3 DEF Direction

\* No byte of decrypted application data disappears unreported: what no
\* dissector consumed waits in a tail, was counted in tail_bytes_discarded, or
\* went with its connection.
THEOREM NoPlaintextLost == Spec => []PlaintextAccounted
<1>1. Init => PlaintextAccounted
  <2> SUFFICES ASSUME Init PROVE PlaintextAccounted
    OBVIOUS
  <2>1. PICK f : f = [k \in DOMAIN connections |-> TailOf(connections[k])]
    OBVIOUS
  <2>2. Tails(connections) = SumFunction(f) /\ DOMAIN f = {}
    BY <2>1 DEF Init, Tails, TailOf
  <2>3. SumFunction(f) = 0
    BY <2>2, SumEmpty DEF SumFunction
  <2> QED
    BY <2>2, <2>3 DEF Init, PlaintextAccounted
<1>2. Inv /\ PlaintextAccounted /\ [Next]_vars => PlaintextAccounted'
  <2> SUFFICES ASSUME Inv, PlaintextAccounted, [Next]_vars PROVE PlaintextAccounted'
    OBVIOUS
  <2>0. /\ counters \in Counters /\ counters.tail_discarded \in Nat
        /\ truth.plain \in Nat /\ truth.dissected \in Nat /\ truth.forgotten \in Nat
        /\ truth.plain = truth.dissected + Tails(connections) + counters.tail_discarded + truth.forgotten
    BY DEF Inv, TypeOK, Counters, Truth, PlaintextAccounted
  <2>1. CASE ProcessFrame
    <3>1. PICK k \in Keys, d \in Direction, old \in Connection, new \in Connection :
             /\ IsEntry(k, old)
             /\ FrameEffect(old, new, d)
             /\ connections' = Put(k, new)
             /\ FrameCounted(k)
      BY <2>1, FrameTaken
    <3>2. PICK table : table = connections'
      OBVIOUS
    <3>3. /\ Tails(connections) \in Nat /\ Tails(table) \in Nat
          /\ k \in DOMAIN connections =>
                Tails(table) + TailOf(connections[k]) = Tails(connections) + TailOf(new)
          /\ k \notin DOMAIN connections => Tails(table) = Tails(connections) + TailOf(new)
      BY <3>1, <3>2, InvTable, PutSums
    <3>4. TailOf(old) \in Nat /\ TailOf(new) = TailOf(old)
      BY <3>1, EntryWeights DEF FrameEffect, TailOf
    <3>5. Tails(table) = Tails(connections)
      BY <3>1, <3>3, <3>4 DEF IsEntry
    <3>6. counters'.tail_discarded = counters.tail_discarded
      BY <2>0, <3>1, FrameCounters
    <3> QED
      BY <2>0, <3>1, <3>2, <3>5, <3>6 DEF PlaintextAccounted, FrameCounted
  <2>2. CASE drain_records
    <3>1. PICK k \in DOMAIN connections, d \in Direction, new \in Connection :
             /\ TakenFrom(connections[k], new, d)
             /\ connections' = Put(k, new)
             /\ RecordCounted
             /\ PlaintextKept(connections[k], new, d)
      BY <2>2, DrainStep DEF Inv
    <3> DEFINE old == connections[k]
    <3>2. PICK table : table = connections'
      OBVIOUS
    <3>3. old \in Connection /\ new \in Connection /\ SameElsewhere(old, new, d)
      BY <3>1 DEF TakenFrom, Inv, TypeOK
    <3>4. /\ Tails(connections) \in Nat /\ Tails(table) \in Nat
          /\ Tails(table) + TailOf(old) = Tails(connections) + TailOf(new)
      BY <3>1, <3>2, <3>3, InvTable, PutSums
    <3>5. /\ old.tail[d] \in Nat /\ new.tail[d] \in Nat
          /\ TailOf(old) \in Nat /\ TailOf(new) \in Nat
          /\ TailOf(new) + old.tail[d] = TailOf(old) + new.tail[d]
      BY <3>3, TailOfPair
    <3>6. /\ counters'.tail_discarded \in Nat
          /\ truth'.plain \in Nat /\ truth'.dissected \in Nat /\ truth'.forgotten \in Nat
      BY <3>1 DEF RecordCounted, PlaintextKept, Counters, Truth
    <3>7. old.tail[d] + truth'.plain + counters.tail_discarded + truth.dissected + truth.forgotten
            = new.tail[d] + truth.plain + counters'.tail_discarded + truth'.dissected + truth'.forgotten
      BY <3>1 DEF PlaintextKept
    <3> HIDE DEF old
    <3>8. truth'.plain = truth'.dissected + Tails(table) + counters'.tail_discarded + truth'.forgotten
      <4>1. PICK p \in Nat, q \in Nat, r \in Nat, s \in Nat, t \in Nat :
               /\ p = truth.plain /\ q = truth.dissected /\ r = truth.forgotten
               /\ s = counters.tail_discarded /\ t = Tails(connections)
        BY <2>0, <3>4
      <4>2. PICK pp \in Nat, qq \in Nat, rr \in Nat, ss \in Nat, tt \in Nat :
               /\ pp = truth'.plain /\ qq = truth'.dissected /\ rr = truth'.forgotten
               /\ ss = counters'.tail_discarded /\ tt = Tails(table)
        BY <3>4, <3>6
      <4>3. PICK u \in Nat, v \in Nat, x \in Nat, y \in Nat :
               u = old.tail[d] /\ v = new.tail[d] /\ x = TailOf(old) /\ y = TailOf(new)
        BY <3>5
      <4>4. p = q + t + s + r /\ tt + x = t + y /\ y + u = x + v
        BY <2>0, <3>4, <3>5, <4>1, <4>2, <4>3
      <4>5. u + pp + s + q + r = v + p + ss + qq + rr
        BY <3>7, <4>1, <4>2, <4>3
      <4>6. pp = qq + tt + ss + rr
        BY <4>4, <4>5
      <4> QED
        BY <4>2, <4>6
    <3> QED
      BY <3>2, <3>8 DEF PlaintextAccounted
  <2>3. CASE FinishFrame
    <3>0. PICK S \in SUBSET DOMAIN connections : \E out :
             /\ out = Restrict(connections, S)
             /\ connections' = Restrict(connections, DOMAIN connections \ S)
             /\ counters'.tail_discarded = counters.tail_discarded
             /\ truth'.plain = truth.plain /\ truth'.dissected = truth.dissected
             /\ truth'.forgotten = truth.forgotten + Tails(out)
      BY <2>3, FrameFinished
    <3>1. PICK out :
             /\ S \in SUBSET DOMAIN connections
             /\ out = Restrict(connections, S)
             /\ connections' = Restrict(connections, DOMAIN connections \ S)
             /\ counters'.tail_discarded = counters.tail_discarded
             /\ truth'.plain = truth.plain /\ truth'.dissected = truth.dissected
             /\ truth'.forgotten = truth.forgotten + Tails(out)
      BY <3>0
    <3>2. PICK table : table = connections'
      OBVIOUS
    <3>3. /\ Tails(out) \in Nat /\ Tails(table) \in Nat
          /\ Tails(connections) = Tails(out) + Tails(table)
      BY <3>1, <3>2, InvTable, EvictSums
    <3>4. truth'.plain = truth'.dissected + Tails(table) + counters'.tail_discarded + truth'.forgotten
      BY <2>0, <3>1, <3>3
    <3> QED
      BY <3>2, <3>4 DEF PlaintextAccounted
  <2>4. CASE Tick
    <3>1. counters' = counters /\ truth' = truth
      BY <2>4 DEF Tick
    <3> QED
      BY <2>0, <2>4, <3>1, TickSums DEF PlaintextAccounted
  <2>5. CASE UNCHANGED vars
    BY <2>5 DEF vars, PlaintextAccounted
  <2> QED
    BY <2>1, <2>2, <2>3, <2>4, <2>5 DEF Next
<1> QED
  BY <1>1, <1>2, Invariance, PTL DEF Spec

-----------------------------------------------------------------------------
(* What a step may never do.                                               *)

\* Nothing but a close or the configured silence evicts an entry.
THEOREM LiveEntriesStay == Spec => LiveIsKept
<1> DEFINE Kept == \A k \in DOMAIN connections \ DOMAIN connections' :
                      \/ is_closed(connections[k])
                      \/ idle_timeout # None /\ connections[k].idle >= idle_timeout
<1>1. Inv /\ [Next]_vars => [Kept]_vars
  <2> SUFFICES ASSUME Inv, [Next]_vars PROVE [Kept]_vars
    OBVIOUS
  <2>1. CASE ProcessFrame
    <3>1. PICK k \in Keys, new \in Connection : connections' = Put(k, new)
      BY <2>1, FrameTaken
    <3> QED
      BY <3>1 DEF Put
  <2>2. CASE drain_records
    <3>1. PICK k \in DOMAIN connections, new \in Connection : connections' = Put(k, new)
      BY <2>2, DrainStep DEF Inv
    <3> QED
      BY <3>1 DEF Put
  <2>3. CASE FinishFrame
    <3>1. PICK S \in SUBSET DOMAIN connections :
             /\ S = DOMAIN connections \ Retained(StillOpen(busy[1]))
             /\ connections' = Restrict(connections, DOMAIN connections \ S)
      BY <2>3, FrameFinished
    <3>2. DOMAIN connections \ DOMAIN connections' = S
      BY <3>1 DEF Restrict
    <3>3. ASSUME NEW k \in S
          PROVE  \/ is_closed(connections[k])
                 \/ idle_timeout # None /\ connections[k].idle >= idle_timeout
      <4>1. CASE k \notin StillOpen(busy[1])
        BY <3>1, <4>1 DEF StillOpen
      <4>2. CASE k \in StillOpen(busy[1])
        <5>1. SweepDue /\ ~(connections[k].idle < idle_timeout)
          BY <3>1, <4>2 DEF Retained
        <5>2. idle_timeout \in Nat
          BY <5>1, SweepAssumption DEF SweepDue
        <5>3. connections[k].idle \in Nat
          BY <3>1, MaxAgeType DEF Inv, TypeOK, Connection
        <5> QED
          BY <5>1, <5>2, <5>3 DEF SweepDue
      <4> QED
        BY <4>1, <4>2
    <3> QED
      BY <3>2, <3>3
  <2>4. CASE Tick
    BY <2>4 DEF Tick
  <2>5. CASE UNCHANGED vars
    BY <2>5
  <2> QED
    BY <2>1, <2>2, <2>3, <2>4, <2>5 DEF Next
<1> QED
  BY <1>1, Invariance, PTL DEF Spec, LiveIsKept

\* A frame of one direction leaves the other direction of its connection, and
\* every other connection, as it was.
THEOREM OtherDirectionUntouched == Spec => DirectionsIndependent
<1> DEFINE Same(old, new, d) ==
               /\ new.ready[d] = old.ready[d]
               /\ new.pending[d] = old.pending[d]
               /\ new.desynced[d] = old.desynced[d]
               /\ new.tail[d] = old.tail[d]
               /\ new.fin[d] = old.fin[d]
           Untouched == \A k \in DOMAIN connections \intersect DOMAIN connections' :
                           \A d \in Direction :
                               busy' # <<k, d>> => Same(connections[k], connections'[k], d)
<1>1. Inv /\ [Next]_vars => [Untouched]_vars
  <2> SUFFICES ASSUME Inv, [Next]_vars PROVE [Untouched]_vars
    OBVIOUS
  <2>1. CASE ProcessFrame
    <3>1. PICK k \in Keys, d \in Direction, old \in Connection, new \in Connection :
             /\ IsEntry(k, old)
             /\ FrameEffect(old, new, d)
             /\ connections' = Put(k, new)
             /\ busy' = <<k, d>>
      BY <2>1, FrameTaken
    <3>2. \A e \in Direction \ {d} : Same(old, new, e)
      BY <3>1 DEF FrameEffect, SameElsewhere
    <3>3. k \in DOMAIN connections => old = connections[k]
      BY <3>1 DEF IsEntry
    <3>4. connections'[k] = new /\ \A j \in DOMAIN connections \ {k} : connections'[j] = connections[j]
      BY <3>1 DEF Put
    <3> QED
      BY <3>1, <3>2, <3>3, <3>4
  <2>2. CASE drain_records
    <3>1. PICK k \in DOMAIN connections, d \in Direction, new \in Connection :
             /\ busy = <<k, d>> /\ busy' = busy
             /\ TakenFrom(connections[k], new, d)
             /\ connections' = Put(k, new)
      BY <2>2, DrainStep DEF Inv
    <3>2. \A e \in Direction \ {d} : Same(connections[k], new, e)
      BY <3>1 DEF TakenFrom, SameElsewhere
    <3>3. connections'[k] = new /\ \A j \in DOMAIN connections \ {k} : connections'[j] = connections[j]
      BY <3>1 DEF Put
    <3> QED
      BY <3>1, <3>2, <3>3
  <2>3. CASE FinishFrame
    <3>1. PICK S \in SUBSET DOMAIN connections :
             connections' = Restrict(connections, DOMAIN connections \ S)
      BY <2>3, FrameFinished
    <3> QED
      BY <3>1 DEF Restrict
  <2>4. CASE Tick
    <3>1. \A k \in DOMAIN connections : \A d \in Direction : Same(connections[k], connections'[k], d)
      BY <2>4, OlderEntry DEF Tick, Inv, TypeOK
    <3> QED
      BY <3>1
  <2>5. CASE UNCHANGED vars
    BY <2>5
  <2> QED
    BY <2>1, <2>2, <2>3, <2>4, <2>5 DEF Next
<1> QED
  BY <1>1, Invariance, PTL DEF Spec, DirectionsIndependent

\* An entry the last sweep kept was younger than the timeout then, and is older
\* now by no more than the time since.
IdleBehindSweep ==
    idle_timeout # None =>
        \A k \in DOMAIN connections : connections[k].idle + 1 <= idle_timeout + since_sweep

\* IdleBehindSweep is an invariant.
LEMMA IdleBehindSweepHolds == Spec => []IdleBehindSweep
<1>1. Init => IdleBehindSweep
  BY DEF Init, IdleBehindSweep
<1>2. Inv /\ IdleBehindSweep /\ [Next]_vars => IdleBehindSweep'
  <2> SUFFICES ASSUME Inv, IdleBehindSweep, [Next]_vars, idle_timeout # None,
                      NEW k \in DOMAIN connections'
               PROVE  connections'[k].idle + 1 <= idle_timeout + since_sweep'
    BY DEF IdleBehindSweep
  <2>0. /\ idle_timeout \in Nat /\ idle_timeout > 0
        /\ since_sweep \in 0 .. MaxAge /\ MaxAge \in Nat /\ MaxAge = idle_timeout + sweep_interval
        /\ \A j \in DOMAIN connections :
              /\ connections[j].idle \in 0 .. MaxAge
              /\ connections[j].idle + 1 <= idle_timeout + since_sweep
    BY SweepAssumption, MaxAgeType DEF Inv, TypeOK, Connection, IdleBehindSweep, MaxAge
  <2>1. CASE ProcessFrame
    <3>1. PICK j \in Keys, d \in Direction, old \in Connection, new \in Connection :
             FrameEffect(old, new, d) /\ connections' = Put(j, new) /\ since_sweep' = since_sweep
      BY <2>1, FrameTaken
    <3>2. new.idle = 0
      BY <3>1 DEF FrameEffect
    <3>3. \/ connections'[k] = new
          \/ k \in DOMAIN connections /\ (connections'[k] = connections[k])
      BY <3>1 DEF Put
    <3> QED
      BY <2>0, <3>1, <3>2, <3>3
  <2>2. CASE drain_records
    <3>1. PICK j \in DOMAIN connections, d \in Direction, new \in Connection :
             TakenFrom(connections[j], new, d) /\ connections' = Put(j, new)
      BY <2>2, DrainStep DEF Inv
    <3>2. since_sweep' = since_sweep
      BY <2>2 DEF drain_records
    <3>3. new.idle = connections[j].idle
      BY <3>1 DEF TakenFrom
    <3>4. k \in DOMAIN connections /\ connections'[k].idle = connections[k].idle
      BY <3>1, <3>3 DEF Put
    <3> QED
      BY <2>0, <3>2, <3>4
  <2>3. CASE FinishFrame
    <3>1. PICK S \in SUBSET DOMAIN connections :
             /\ S = DOMAIN connections \ Retained(StillOpen(busy[1]))
             /\ connections' = Restrict(connections, DOMAIN connections \ S)
      BY <2>3, FrameFinished
    <3>2. k \in Retained(StillOpen(busy[1])) /\ k \in DOMAIN connections
          /\ connections'[k] = connections[k]
      BY <3>1 DEF Restrict
    <3>3. CASE SweepDue
      <4>1. since_sweep' = 0 /\ connections[k].idle < idle_timeout
        BY <2>3, <3>2, <3>3 DEF FinishFrame, Retained
      <4> QED
        BY <2>0, <3>2, <4>1
    <3>4. CASE ~SweepDue
      BY <2>0, <2>3, <3>2, <3>4 DEF FinishFrame
    <3> QED
      BY <3>3, <3>4
  <2>4. CASE Tick
    <3>1. k \in DOMAIN connections /\ connections'[k].idle = Older(connections[k].idle)
      BY <2>4, OlderEntry DEF Tick, Inv, TypeOK
    <3>2. since_sweep' = Older(since_sweep)
      BY <2>4 DEF Tick
    <3> QED
      BY <2>0, <3>1, <3>2 DEF Older
  <2>5. CASE UNCHANGED vars
    BY <2>0, <2>5 DEF vars
  <2> QED
    BY <2>1, <2>2, <2>3, <2>4, <2>5 DEF Next
<1> QED
  BY <1>1, <1>2, Invariance, PTL DEF Spec

\* Although the sweep runs at most once per interval, no entry outlives its
\* timeout by more than the interval while frames arrive.
THEOREM SweepBounded == Spec => SweepIsPrompt
<1> DEFINE Prompt == idle_timeout # None /\ busy # None /\ busy' = None =>
                        \A k \in DOMAIN connections' :
                            connections'[k].idle + 1 < idle_timeout + sweep_interval
<1>1. Inv /\ IdleBehindSweep /\ [Next]_vars => [Prompt]_vars
  <2> SUFFICES ASSUME Inv, IdleBehindSweep, Next, idle_timeout # None, busy # None, busy' = None,
                      NEW k \in DOMAIN connections'
               PROVE  connections'[k].idle + 1 < idle_timeout + sweep_interval
    OBVIOUS
  <2>0. /\ idle_timeout \in Nat /\ sweep_interval \in Nat /\ sweep_interval > 0
        /\ since_sweep \in Nat
        /\ \A j \in DOMAIN connections :
              /\ connections[j].idle \in Nat
              /\ connections[j].idle + 1 <= idle_timeout + since_sweep
    BY SweepAssumption, MaxAgeType DEF Inv, TypeOK, Connection, IdleBehindSweep
  <2>1. FinishFrame
    BY FrameTaken DEF Next, drain_records, Tick
  <2>2. PICK S \in SUBSET DOMAIN connections :
           /\ S = DOMAIN connections \ Retained(StillOpen(busy[1]))
           /\ connections' = Restrict(connections, DOMAIN connections \ S)
    BY <2>1, FrameFinished
  <2>3. /\ k \in Retained(StillOpen(busy[1])) /\ k \in DOMAIN connections
        /\ connections'[k] = connections[k]
    BY <2>2 DEF Restrict
  <2>4. CASE SweepDue
    <3>1. connections[k].idle < idle_timeout
      BY <2>3, <2>4 DEF Retained
    <3> QED
      BY <2>0, <2>3, <3>1
  <2>5. CASE ~SweepDue
    <3>1. since_sweep < sweep_interval
      BY <2>0, <2>5 DEF SweepDue
    <3> QED
      BY <2>0, <2>3, <3>1
  <2> QED
    BY <2>4, <2>5
<1> QED
  BY <1>1, Invariance, IdleBehindSweepHolds, PTL DEF Spec, SweepIsPrompt
=============================================================================
