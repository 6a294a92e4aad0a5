--------------------------- MODULE TlsConnection ---------------------------
(***************************************************************************)
(* Decryption of one TLS connection, record by record: connection.rs, the  *)
(* classification at the head of orchestrator.rs::drain_records, and the   *)
(* keylog lookups of keylog.rs.                                            *)
(*                                                                         *)
(* A secret is its length in units of 16 bytes, 0 when the keylog snapshot *)
(* lacks it; a snapshot is a prefix of an append-only file, so the last    *)
(* secret in it may be cut short, until the writing process restarts the   *)
(* file and the secrets are gone.  An AEAD open succeeds exactly with the  *)
(* negotiated algorithm, the whole secret of the record's generation and   *)
(* the record's own sequence number.                                       *)
(***************************************************************************)
EXTENDS Integers, Sequences, FiniteSets, FiniteSetsExt

CONSTANTS
    MaxRecords,    \* application records each side sends
    Sessions,      \* the negotiated parameters considered
    None

Direction == {"c2s", "s2c"}
Generation == {"Handshake", "Application"}
TLS13_ALGORITHMS == <<"Aes128Gcm", "Aes256Gcm", "ChaCha20Poly1305">>
TLS12_ALGORITHMS == <<"Aes128Gcm", "Aes256Gcm">>
AeadAlgorithm == {TLS13_ALGORITHMS[i] : i \in 1 .. 3}

\* retry: the server sent a HelloRetryRequest; rekey: a KeyUpdate is sent.
Session ==
    [version : {"TLS13"}, suite : AeadAlgorithm, retry : BOOLEAN, rekey : BOOLEAN]
    \union [version : {"TLS12"}, suite : {"Aes128Gcm", "Aes256Gcm"},
            retry : {FALSE}, rekey : {FALSE}]

ASSUME RecordsAssumption == MaxRecords \in Nat \ {0}
ASSUME SessionsAssumption == Sessions \subseteq Session
ASSUME NoneAssumption == None \notin {"ClientHello", "ServerHello", "Lookalike"}

\* Secret lengths: SHA-256 and SHA-384 outputs, and the TLS 1.2 master secret.
HashLen(algorithm) == IF algorithm = "Aes256Gcm" THEN 3 ELSE 2
MasterLen == 3

VARIABLES
    session,        \* what the peers negotiated: version, suite, retry, rekey
    keylog,         \* how much of the keylog file the snapshot holds, or Restarted
    client_random,  \* None, "ClientHello", or "Lookalike": the connection's state
    server_random,  \* None, "ServerHello", or "Lookalike"
    seq,            \* next sequence number, per direction and generation
    keys,           \* derived keys cached per direction, generation, algorithm
    taken           \* history: what became of each record, per direction

vars == <<session, keylog, client_random, server_random, seq, keys, taken>>

-----------------------------------------------------------------------------
(* The records the peers send, and the keylog the endpoint writes.         *)

Plain(kind) == [kind |-> kind, gen |-> "none", n |-> 0, short |-> FALSE]
Short(kind) == [Plain(kind) EXCEPT !.short = TRUE]
Cipher(gen, n) == [kind |-> "Ciphertext", gen |-> gen, n |-> n, short |-> FALSE]
Ciphers(gen, from, upto) == [i \in 1 .. upto - from + 1 |-> Cipher(gen, from + i - 1)]

\* After a KeyUpdate the sequence number restarts under an unlogged secret.
AppData13 ==
    Ciphers("Application", 0, MaxRecords - 1)
        \o (IF session.rekey THEN <<Cipher("Updated", 0)>> ELSE << >>)

\* A HelloRetryRequest is a ServerHello, answered by a second ClientHello.
Sent(d) ==
    IF session.version = "TLS13"
    THEN IF d = "c2s"
         THEN <<Plain("ClientHello")>>
              \o (IF session.retry THEN <<Plain("ClientHello")>> ELSE << >>)
              \o <<Plain("ChangeCipherSpec"), Cipher("Handshake", 0)>> \o AppData13
         ELSE <<Plain("ServerHello")>>
              \o (IF session.retry THEN <<Plain("ServerHello")>> ELSE << >>)
              \o <<Plain("ChangeCipherSpec")>> \o <<Cipher("Handshake", 0)>> \o AppData13
    ELSE (IF d = "c2s"
          THEN <<Plain("ClientHello"), Plain("ClientKeyExchange")>>
          ELSE <<Plain("ServerHello"), Short("ServerHelloDone")>>)
         \o <<Plain("ChangeCipherSpec")>> \o Ciphers("Tls12", 0, MaxRecords)

WholeLen == IF session.version = "TLS13" THEN HashLen(session.suite) ELSE MasterLen

\* The order in which the endpoint logs the secrets of a handshake.
Logged ==
    IF session.version = "TLS13"
    THEN << <<"c2s", "Handshake">>, <<"s2c", "Handshake">>,
            <<"c2s", "Application">>, <<"s2c", "Application">> >>
    ELSE << <<"both", "Tls12">> >>

KeylogLen == Len(Logged) * WholeLen

\* The snapshot of a file begun again, without the secrets of this connection.
Restarted == -1

\* Keylog::parse, then secret_for: the length of the secret with this label.
secret_for(label) ==
    LET line == {i \in 1 .. Len(Logged) : Logged[i] = label}
    IN  IF client_random # "ClientHello" \/ line = {} THEN 0
        ELSE LET got == keylog - (Min(line) - 1) * WholeLen
             IN  Max({0, Min({got, WholeLen})})

-----------------------------------------------------------------------------
(* decrypt: the candidates (generation, algorithm) in the order probed.    *)

Candidates13 ==
    [i \in 1 .. 6 |->
        <<IF i <= 3 THEN "Handshake" ELSE "Application", TLS13_ALGORITHMS[((i - 1) % 3) + 1]>>]
Candidates12 == [i \in 1 .. 2 |-> <<"Tls12", TLS12_ALGORITHMS[i]>>]

LabelOf(d, gen) == IF gen = "Tls12" THEN <<"both", gen>> ELSE <<d, gen>>

\* RecordKeys::derive of TLS 1.3: HKDF takes no secret shorter than its hash.
derive(len, algorithm) == len >= HashLen(algorithm)

\* RecordKeys::derive of TLS 1.2: HMAC takes a master secret of any length.
derive_tls12(len) == len > 0

\* keys_for returns keys: the secret is looked up first, then the cache, and
\* what is not in it is derived now.
HasKeys(d, c) ==
    LET len == secret_for(LabelOf(d, c[1]))
    IN  /\ len > 0
        /\ \/ c \in DOMAIN keys[d]
           \/ IF c[1] = "Tls12" THEN derive_tls12(len) ELSE derive(len, c[2])

\* Mutant of KeysFor: cached per generation, whichever algorithm came first.
KeysForGeneration(d, c) ==
    IF \E a \in AeadAlgorithm : <<c[1], a>> \in DOMAIN keys[d] /\ a # c[2] THEN 0
    ELSE secret_for(LabelOf(d, c[1]))

KeysFor(d, c) == IF c \in DOMAIN keys[d] THEN keys[d][c] ELSE secret_for(LabelOf(d, c[1]))

\* decrypt_record authenticates.
Opens(d, c, rec) ==
    /\ HasKeys(d, c)
    /\ rec.gen = c[1]
    /\ c[2] = session.suite
    /\ KeysFor(d, c) = WholeLen
    /\ rec.n = seq[d][c[1]]
    /\ c[1] = "Tls12" => server_random = "ServerHello"

\* Where the probing of candidates cs stops: at the first that opens the
\* record, or, for a record too short to hold a tag, at the first with keys.
StopAt(d, cs, rec) ==
    LET stops == {i \in DOMAIN cs : IF rec.short THEN HasKeys(d, cs[i]) ELSE Opens(d, cs[i], rec)}
    IN  IF stops = {} THEN Len(cs) ELSE Min(stops)

\* Every candidate probed leaves its keys in the cache.
CacheUpTo(d, cs, last, old) ==
    LET tried == {cs[i] : i \in {j \in 1 .. last : HasKeys(d, cs[j])}}
    IN  [c \in DOMAIN old \union tried |-> IF c \in DOMAIN old THEN old[c] ELSE KeysFor(d, c)]

Opened(d, cs, rec) == ~rec.short /\ \E i \in DOMAIN cs : Opens(d, cs[i], rec)

\* Everything the keys of the record are derived from is known and whole.
Keyed(d, rec) ==
    /\ secret_for(LabelOf(d, rec.gen)) = WholeLen
    /\ rec.gen = "Tls12" => server_random = "ServerHello"

\* What happened to a record, and whether its keys could have been had.
Log(d, rec, result) ==
    taken' = [taken EXCEPT ![d] =
                 Append(@, [rec |-> rec, result |-> result, keyed |-> Keyed(d, rec)])]

\* Mutant of decrypt_tls13: next_seq always counts the handshake.
decrypt_tls13_one_counter(d, rec) ==
    /\ Opened(d, Candidates13, rec)
    /\ seq' = [seq EXCEPT ![d]["Handshake"] = @ + 1]
    /\ keys' = [keys EXCEPT ![d] = CacheUpTo(d, Candidates13, StopAt(d, Candidates13, rec), @)]
    /\ Log(d, rec, "Decrypted")

decrypt_tls13(d, rec) ==
    /\ Opened(d, Candidates13, rec)
    /\ seq' = [seq EXCEPT ![d][rec.gen] = @ + 1]
    /\ keys' = [keys EXCEPT ![d] = CacheUpTo(d, Candidates13, StopAt(d, Candidates13, rec), @)]
    /\ Log(d, rec, "Decrypted")

\* TLS 1.2 is tried when TLS 1.3 did not open the record.
NoTls12(d) == server_random = None \/ secret_for(LabelOf(d, "Tls12")) = 0

decrypt_tls12(d, rec) ==
    LET after13 == CacheUpTo(d, Candidates13, StopAt(d, Candidates13, rec), keys[d])
        after12 == CacheUpTo(d, Candidates12, StopAt(d, Candidates12, rec), after13)
    IN  /\ ~Opened(d, Candidates13, rec)
        /\ \/ /\ NoTls12(d)
              /\ keys' = [keys EXCEPT ![d] = after13]
              /\ Log(d, rec, "NoKey")
              /\ UNCHANGED seq
           \/ /\ ~NoTls12(d)
              /\ rec.short
              /\ keys' = [keys EXCEPT ![d] = after13]
              /\ Log(d, rec, "AuthFailed")
              /\ UNCHANGED seq
           \/ /\ ~NoTls12(d)
              /\ Opened(d, Candidates12, rec)
              /\ keys' = [keys EXCEPT ![d] = after12]
              /\ seq' = [seq EXCEPT ![d]["Tls12"] = @ + 1]
              /\ Log(d, rec, "Decrypted")
           \/ /\ ~NoTls12(d)
              /\ ~rec.short
              /\ ~Opened(d, Candidates12, rec)
              /\ keys' = [keys EXCEPT ![d] = after12]
              /\ Log(d, rec, "NoKey")
              /\ UNCHANGED seq

decrypt(d, rec) ==
    /\ decrypt_tls13(d, rec) \/ decrypt_tls12(d, rec)
    /\ UNCHANGED <<client_random, server_random>>

-----------------------------------------------------------------------------
(* drain_records: what a record is taken for.  Only its first body byte    *)
(* and its length tell a hello, so ciphertext may pass for one.            *)

LooksLike(rec, hello) ==
    IF rec.kind = "Ciphertext" THEN {TRUE, FALSE} ELSE {rec.kind = hello}

HelloOf(rec) == IF rec.kind = "Ciphertext" THEN "Lookalike" ELSE rec.kind

TakeChangeCipherSpec(d, rec) ==
    /\ rec.kind = "ChangeCipherSpec"
    /\ Log(d, rec, "PlaintextHandshake")
    /\ UNCHANGED <<client_random, server_random, seq, keys>>

TakeClientHello(d, rec, looks) ==
    /\ rec.kind # "ChangeCipherSpec"
    /\ d = "c2s" /\ client_random = None /\ looks
    /\ client_random' = HelloOf(rec)
    /\ Log(d, rec, "PlaintextHandshake")
    /\ UNCHANGED <<server_random, seq, keys>>

\* Mutant of TakeServerHello: set_server_random is TRUE of every call, not the first.
TakeServerHelloAgain(d, rec, looks) ==
    /\ rec.kind # "ChangeCipherSpec"
    /\ d = "s2c" /\ client_random # None /\ looks
    /\ server_random' = IF server_random = None THEN HelloOf(rec) ELSE server_random
    /\ Log(d, rec, "PlaintextHandshake")
    /\ UNCHANGED <<client_random, seq, keys>>

TakeServerHello(d, rec, looks) ==
    /\ rec.kind # "ChangeCipherSpec"
    /\ d = "s2c" /\ client_random # None /\ server_random = None /\ looks
    /\ server_random' = HelloOf(rec)
    /\ Log(d, rec, "PlaintextHandshake")
    /\ UNCHANGED <<client_random, seq, keys>>

TakeWithoutState(d, rec, looks) ==
    /\ rec.kind # "ChangeCipherSpec"
    /\ client_random = None
    /\ ~(d = "c2s" /\ looks)
    /\ Log(d, rec, "NoClientHello")
    /\ UNCHANGED <<client_random, server_random, seq, keys>>

TakeCiphertext(d, rec, looks) ==
    /\ rec.kind # "ChangeCipherSpec"
    /\ client_random # None
    /\ ~(d = "s2c" /\ server_random = None /\ looks)
    /\ decrypt(d, rec)

\* The next record of direction d.
TakeRecord(d) ==
    LET i == Len(taken[d]) + 1
    IN  /\ i <= Len(Sent(d))
        /\ LET rec == Sent(d)[i]
               hello == IF d = "c2s" THEN "ClientHello" ELSE "ServerHello"
           IN  \E looks \in LooksLike(rec, hello) :
                  \/ TakeChangeCipherSpec(d, rec)
                  \/ TakeClientHello(d, rec, looks)
                  \/ TakeServerHello(d, rec, looks)
                  \/ TakeWithoutState(d, rec, looks)
                  \/ TakeCiphertext(d, rec, looks)
        /\ UNCHANGED <<session, keylog>>

\* The keylog source rereads the file and finds it has grown.
Reload ==
    /\ keylog >= 0
    /\ keylog' \in keylog + 1 .. KeylogLen
    /\ UNCHANGED <<session, client_random, server_random, seq, keys, taken>>

\* The writing process was restarted and began the file again.
KeylogRestarts ==
    /\ keylog >= 0
    /\ keylog' = Restarted
    /\ UNCHANGED <<session, client_random, server_random, seq, keys, taken>>

Before(d, n) == [i \in 1 .. n |-> [rec |-> Sent(d)[i], result |-> "Missed", keyed |-> FALSE]]

\* The capture began before the connection, or after its hellos.
Init ==
    /\ session \in Sessions
    /\ keylog = 0
    /\ client_random = None
    /\ server_random = None
    /\ seq = [d \in Direction |-> [g \in Generation \union {"Tls12"} |-> 0]]
    /\ keys = [d \in Direction |-> [c \in {} |-> 0]]
    /\ \/ taken = [d \in Direction |-> << >>]
       \/ taken = [d \in Direction |-> Before(d, 3)]

Next == Reload \/ KeylogRestarts \/ \E d \in Direction : TakeRecord(d)

Spec == Init /\ [][Next]_vars
-----------------------------------------------------------------------------
(* Properties.                                                             *)

\* Records i and j of direction d are protected by the same secret.
SameSecret(d, i, j) ==
    /\ taken[d][i].rec.kind = "Ciphertext"
    /\ taken[d][j].rec.kind = "Ciphertext"
    /\ taken[d][i].rec.gen = taken[d][j].rec.gen

\* Record k, a ciphertext of the server, was taken for its ServerHello, after no
\* ServerHello was: each had been missed, or came before the ClientHello was known.
TakenForServerHello(d, k) ==
    /\ d = "s2c"
    /\ taken[d][k].rec.kind = "Ciphertext"
    /\ taken[d][k].result = "PlaintextHandshake"
    /\ \A h \in 1 .. k - 1 :
          taken[d][h].rec.kind = "ServerHello" => taken[d][h].result \in {"NoClientHello", "Missed"}

\* Once decrypt has opened one record under a secret it opens every later one for
\* as long as the keylog has the secret: no probing of another generation or
\* algorithm, no reload, no second ServerHello and no record of the other direction
\* makes its counter drift (next_seq).  The one loss is of s2c, when its
\* ServerHello was drained before the ClientHello and so not recorded: the first
\* ciphertext that looks like a ServerHello then is taken for it without being
\* counted, and the records of its secret from there on no longer open.
StaysInSync ==
    \A d \in Direction : \A i, j \in DOMAIN taken[d] :
        /\ i < j /\ SameSecret(d, i, j)
        /\ taken[d][i].result = "Decrypted"
        /\ taken[d][j].keyed
        => \/ taken[d][j].result = "Decrypted"
           \/ \E k \in i + 1 .. j : SameSecret(d, i, k) /\ TakenForServerHello(d, k)

FirstUnderSecret(d, j) ==
    /\ taken[d][j].rec.kind = "Ciphertext"
    /\ \A i \in 1 .. j - 1 : ~SameSecret(d, i, j)

\* TLS 1.2 derivation accepts a master secret cut short, and caches the result.
Poisoned(d) == \E c \in DOMAIN keys[d] : c[1] = "Tls12" /\ keys[d][c] < WholeLen

\* A secret that is whole in the keylog when its first record is taken opens
\* that record, whatever plaintext records were put through decrypt before it
\* and however much of the keylog was visible then.  There are two exceptions: TLS
\* 1.2 may have cached keys of a secret cut short, and the server's first record
\* may be taken for a ServerHello that was drained before the ClientHello.
FirstRecordOpens ==
    \A d \in Direction : \A j \in DOMAIN taken[d] :
        FirstUnderSecret(d, j) /\ taken[d][j].keyed =>
            \/ taken[d][j].result = "Decrypted"
            \/ session.version = "TLS12" /\ Poisoned(d)
            \/ TakenForServerHello(d, j)

\* A record the peers never encrypted is never passed off as decrypted, and a
\* record is opened only under its own place in its secret's sequence.
OpensOnlyInSequence ==
    \A d \in Direction : \A g \in DOMAIN seq[d] :
        {taken[d][i].rec.n : i \in {j \in DOMAIN taken[d] :
              taken[d][j].result = "Decrypted" /\ taken[d][j].rec.gen = g}}
            = 0 .. seq[d][g] - 1
=============================================================================
