---------------------------- MODULE TcpTeardown ----------------------------
(***************************************************************************)
(* The orchestrator under the frames of orderly TCP connections, each one  *)
(* captured whole and in order, one after the other between the same pair  *)
(* of ports: SYN, SYN-ACK, data, a FIN from either side, the FIN of the    *)
(* other, and the ACK of that FIN.                                         *)
(***************************************************************************)
EXTENDS Orchestrator, Sequences

CONSTANT MaxLives    \* bound: connections made one after the other

VARIABLES
    life,      \* which connection the frames belong to
    closer,    \* the endpoint whose FIN comes first
    sent       \* frames of this connection captured so far

tcp == <<life, closer, sent>>

Frame(src, flags, payload) == [src |-> src, flags |-> flags, payload |-> payload]

Script ==
    << Frame("a", {"syn"}, FALSE), Frame("b", {"syn", "ack"}, FALSE),
       Frame("a", {"ack"}, TRUE),  Frame("b", {"ack"}, TRUE),
       Frame(closer, {"fin", "ack"}, FALSE), Frame(Other(closer), {"fin", "ack"}, FALSE),
       Frame(closer, {"ack"}, FALSE) >>

TeardownInit == Init /\ life = 1 /\ closer \in Endpoint /\ sent = 0

Capture(k) ==
    /\ sent < Len(Script)
    /\ LET f == Script[sent + 1] IN process_frame(k, f.src, f.flags, f.payload)
    /\ sent' = sent + 1
    /\ UNCHANGED <<life, closer>>

\* The same ports are used again.
Reconnect ==
    /\ busy = None
    /\ sent = Len(Script)
    /\ life < MaxLives
    /\ life' = life + 1
    /\ closer' \in Endpoint
    /\ sent' = 0
    /\ UNCHANGED vars

TeardownNext ==
    \/ \E k \in Keys : Capture(k)
    \/ (drain_records \/ FinishFrame) /\ UNCHANGED tcp
    \/ Reconnect

TeardownSpec == TeardownInit /\ [][TeardownNext]_<<vars, tcp>>

\* orchestrator.rs:51-54: the client is the initiator "from a genuine SYN"; the
\* fallback is for a connection whose SYN was not observed.
SynNamesClient ==
    sent >= 1 => \A k \in DOMAIN connections :
        sent < Len(Script) => connections[k].client = "a"
=============================================================================
