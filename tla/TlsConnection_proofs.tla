------------------------ MODULE TlsConnection_proofs ------------------------
(***************************************************************************)
(* The decryption state, for every number of records: records open only in *)
(* sequence, a direction in step stays in step, and a secret that is whole *)
(* opens its first record, the last two up to a ciphertext taken for a     *)
(* ServerHello.  The argument rests on the shape of what a peer sends (under *)
(* each secret the numbers 0, 1, 2, ... in this order), on what the key    *)
(* cache may hold, and on the counter being ahead of 0 only where every    *)
(* record of the secret taken so far was opened.                           *)
(*                                                                         *)
(* At the end, the reloads of the keylog itself (KeylogSource).            *)
(***************************************************************************)
EXTENDS TlsConnection, KeylogSource, FoldLemmas, SequenceTheorems

-----------------------------------------------------------------------------
(* The invariant.                                                          *)

Counted == Generation \union {"Tls12"}
Candidate == Counted \X AeadAlgorithm

PlainKind == {"ClientHello", "ServerHello", "ClientKeyExchange", "ServerHelloDone",
              "ChangeCipherSpec"}
Record == [kind : PlainKind, gen : {"none"}, n : {0}, short : BOOLEAN]
          \union [kind : {"Ciphertext"}, gen : Counted \union {"Updated"}, n : Nat, short : {FALSE}]
Result == {"Missed", "PlaintextHandshake", "NoClientHello", "NoKey", "AuthFailed", "Decrypted"}
Taken == [rec : Record, result : Result, keyed : BOOLEAN]

Typed ==
    /\ session \in Session
    /\ keylog \in Int /\ keylog >= -1
    /\ client_random \in {None, "ClientHello", "Lookalike"}
    /\ server_random \in {None, "ServerHello", "Lookalike"}
    /\ seq \in [Direction -> [Counted -> Nat]]
    /\ keys \in [Direction -> UNION {[S -> Nat] : S \in SUBSET Candidate}]
    /\ taken \in [Direction -> Seq(Taken)]

\* The records taken are those sent, in order, and only ciphertext is opened.
TakenInOrder ==
    \A d \in Direction :
        /\ Len(taken[d]) <= Len(Sent(d))
        /\ \A i \in DOMAIN taken[d] :
              /\ taken[d][i].rec = Sent(d)[i]
              /\ taken[d][i].result = "Decrypted" =>
                    taken[d][i].rec.kind = "Ciphertext" /\ taken[d][i].rec.gen \in Counted

\* Cached keys are of a secret the keylog held and, until it is restarted, holds;
\* only TLS 1.2 may have derived keys of one cut short.
CacheSound ==
    \A d \in Direction : \A c \in DOMAIN keys[d] :
        /\ client_random = "ClientHello"
        /\ keys[d][c] > 0 /\ keys[d][c] <= WholeLen
        /\ keylog >= 0 => keys[d][c] <= secret_for(LabelOf(d, c[1]))
        /\ c[1] # "Tls12" /\ c[2] = session.suite => keys[d][c] = WholeLen

\* What has opened a record is in the cache, and is whole.
UsedIsCached ==
    \A d \in Direction : \A g \in Counted : seq[d][g] > 0 =>
        /\ <<g, session.suite>> \in DOMAIN keys[d]
        /\ keys[d][<<g, session.suite>>] = WholeLen
        /\ g = "Tls12" => server_random = "ServerHello"

\* While no ServerHello is known, all that were taken had been missed, or came
\* before the ClientHello.
HelloUnknown ==
    server_random = None =>
        \A h \in DOMAIN taken["s2c"] :
            taken["s2c"][h].rec.kind = "ServerHello" =>
                taken["s2c"][h].result \in {"NoClientHello", "Missed"}

\* A record of the secret of record j, at or before j, was taken for a ServerHello.
LostBy(d, j) == \E k \in 1 .. j : SameSecret(d, k, j) /\ TakenForServerHello(d, k)

\* A counter past 0 has counted every record of its secret taken so far, up to one
\* taken for a ServerHello.
InStep ==
    keylog >= 0 =>
        \A d \in Direction : \A g \in Counted : seq[d][g] > 0 =>
            \A j \in DOMAIN taken[d] :
                taken[d][j].rec.kind = "Ciphertext" /\ taken[d][j].rec.gen = g
                    => taken[d][j].result = "Decrypted" \/ LostBy(d, j)

Inv ==
    /\ Typed /\ TakenInOrder /\ CacheSound /\ UsedIsCached
    /\ OpensOnlyInSequence /\ HelloUnknown /\ InStep
    /\ StaysInSync /\ FirstRecordOpens
-----------------------------------------------------------------------------
(* What a peer sends.                                                      *)

\* Under every secret the records of s are numbered 0, 1, 2, ... in order.
Numbered(s) ==
    \A p \in 1 .. Len(s) : s[p].kind = "Ciphertext" =>
        /\ ~s[p].short
        /\ {s[q].n : q \in {r \in 1 .. p - 1 : s[r].kind = "Ciphertext" /\ s[r].gen = s[p].gen}}
              = 0 .. s[p].n - 1

\* A handshake of h - 1 plaintext records, under TLS 1.3 one record of the
\* handshake secret, MaxRecords of the application secret, and perhaps one of the
\* next secret.
Shape13(s, h) ==
    /\ h \in Nat /\ h >= 3
    /\ s \in Seq(Record) /\ Len(s) \in {h + MaxRecords, h + MaxRecords + 1}
    /\ \A p \in 1 .. h - 1 : s[p].kind # "Ciphertext"
    /\ s[h] = Cipher("Handshake", 0)
    /\ \A p \in h + 1 .. h + MaxRecords : s[p] = Cipher("Application", p - h - 1)
    /\ Len(s) = h + MaxRecords + 1 => s[h + MaxRecords + 1] = Cipher("Updated", 0)

\* Under TLS 1.2 one secret protects everything after three plaintext records.
Shape12(s) ==
    /\ s \in Seq(Record) /\ Len(s) = MaxRecords + 4
    /\ \A p \in 1 .. 3 : s[p].kind # "Ciphertext"
    /\ \A p \in 4 .. MaxRecords + 4 : s[p] = Cipher("Tls12", p - 4)

\* The fields of a ciphertext.
LEMMA CipherFields ==
    ASSUME NEW g \in Counted \union {"Updated"}, NEW k \in Nat
    PROVE  /\ Cipher(g, k) \in Record /\ Cipher(g, k).kind = "Ciphertext"
           /\ Cipher(g, k).gen = g /\ Cipher(g, k).n = k /\ ~Cipher(g, k).short
BY DEF Cipher, Record

\* A ciphertext is long enough to hold a tag.
LEMMA CiphertextIsLong ==
    ASSUME NEW rec \in Record, rec.kind = "Ciphertext"
    PROVE  ~rec.short /\ rec.gen \in Counted \union {"Updated"} /\ rec.n \in Nat
<1>1. rec \notin [kind : PlainKind, gen : {"none"}, n : {0}, short : BOOLEAN]
  BY DEF PlainKind
<1>2. rec \in [kind : {"Ciphertext"}, gen : Counted \union {"Updated"}, n : Nat, short : {FALSE}]
  BY <1>1 DEF Record
<1>3. rec.short = FALSE
  BY <1>2, Zenon
<1> QED
  BY <1>2, <1>3

\* The fields of a plaintext record.
LEMMA PlainFields ==
    ASSUME NEW k \in PlainKind
    PROVE  /\ Plain(k) \in Record /\ Plain(k).kind # "Ciphertext"
           /\ Short(k) \in Record /\ Short(k).kind # "Ciphertext"
<1> DEFINE P == [kind : PlainKind, gen : {"none"}, n : {0}, short : BOOLEAN]
<1>0. k # "Ciphertext"
  BY DEF PlainKind
<1>1. Plain(k) \in P /\ Plain(k).kind = k
  BY DEF Plain
<1>2. \A r \in P : [r EXCEPT !.short = TRUE] \in P /\ [r EXCEPT !.short = TRUE].kind = r.kind
  BY Zenon
<1>3. P \subseteq Record
  BY DEF Record
<1> HIDE DEF P
<1> QED
  BY <1>0, <1>1, <1>2, <1>3 DEF Short

\* Records from one secret, in order.
LEMMA CiphersAt ==
    ASSUME NEW g \in Counted, NEW k \in Nat
    PROVE  /\ Ciphers(g, 0, k - 1) \in Seq(Record) /\ Len(Ciphers(g, 0, k - 1)) = k
           /\ \A i \in 1 .. k : Ciphers(g, 0, k - 1)[i] = Cipher(g, i - 1)
<1>1. Ciphers(g, 0, k - 1) = [i \in 1 .. k |-> Cipher(g, i - 1)]
  BY DEF Ciphers
<1>2. \A i \in 1 .. k : Cipher(g, i - 1) \in Record
  BY CipherFields
<1> QED
  BY <1>1, <1>2

\* Each shape has its numbers in order.
LEMMA Shape13Numbered ==
    ASSUME NEW s, NEW h, Shape13(s, h)
    PROVE  Numbered(s)
<1>0. /\ h \in Nat /\ h >= 3 /\ MaxRecords \in Nat
      /\ Len(s) \in {h + MaxRecords, h + MaxRecords + 1}
  BY RecordsAssumption DEF Shape13
<1>1. /\ s[h].kind = "Ciphertext" /\ s[h].gen = "Handshake" /\ s[h].n = 0 /\ ~s[h].short
  BY CipherFields DEF Shape13, Counted, Generation
<1>2. \A p \in h + 1 .. h + MaxRecords :
         /\ s[p].kind = "Ciphertext" /\ s[p].gen = "Application" /\ s[p].n = p - h - 1
         /\ ~s[p].short
  <2> SUFFICES ASSUME NEW p \in h + 1 .. h + MaxRecords
               PROVE  /\ s[p].kind = "Ciphertext" /\ s[p].gen = "Application"
                      /\ s[p].n = p - h - 1 /\ ~s[p].short
    OBVIOUS
  <2>1. s[p] = Cipher("Application", p - h - 1)
    BY DEF Shape13
  <2>2. p - h - 1 \in Nat
    BY <1>0
  <2> QED
    BY <2>1, <2>2, CipherFields DEF Counted, Generation
<1>3. Len(s) = h + MaxRecords + 1 =>
         /\ s[h + MaxRecords + 1].kind = "Ciphertext" /\ s[h + MaxRecords + 1].gen = "Updated"
         /\ s[h + MaxRecords + 1].n = 0 /\ ~s[h + MaxRecords + 1].short
  BY CipherFields DEF Shape13
<1>4. \A p \in 1 .. h - 1 : s[p].kind # "Ciphertext"
  BY DEF Shape13
<1> SUFFICES ASSUME NEW p \in 1 .. Len(s), s[p].kind = "Ciphertext"
             PROVE  /\ ~s[p].short
                    /\ {s[q].n : q \in {r \in 1 .. p - 1 : s[r].kind = "Ciphertext" /\ s[r].gen = s[p].gen}}
                         = 0 .. s[p].n - 1
  BY DEF Numbered
<1> DEFINE Prior(b) == {r \in 1 .. b - 1 : s[r].kind = "Ciphertext" /\ s[r].gen = s[b].gen}
<1>5. p \in h .. Len(s)
  BY <1>0, <1>4
<1>6. CASE p = h
  <2>1. Prior(p) = {}
    BY <1>0, <1>4, <1>6
  <2> QED
    BY <1>1, <1>6, <2>1
<1>7. CASE p \in h + 1 .. h + MaxRecords
  <2>1. Prior(p) = h + 1 .. p - 1
    <3>1. ASSUME NEW r \in 1 .. p - 1
          PROVE  r \in h + 1 .. p - 1 <=> s[r].kind = "Ciphertext" /\ s[r].gen = "Application"
      <4>1. CASE r < h
        BY <1>0, <1>4, <4>1
      <4>2. CASE r = h
        BY <1>0, <1>1, <4>2
      <4>3. CASE r > h
        <5>1. r \in h + 1 .. h + MaxRecords /\ r \in h + 1 .. p - 1
          BY <1>0, <1>7, <4>3
        <5> QED
          BY <1>2, <5>1
      <4> QED
        BY <1>0, <4>1, <4>2, <4>3
    <3>2. \A r \in h + 1 .. p - 1 : r \in 1 .. p - 1
      BY <1>0, <1>7
    <3> QED
      BY <1>2, <1>7, <3>1, <3>2
  <2>2. s[p].n = p - h - 1 /\ \A q \in h + 1 .. p - 1 : s[q].n = q - h - 1
    BY <1>0, <1>2, <1>7
  <2>3. {q - h - 1 : q \in h + 1 .. p - 1} = 0 .. p - h - 2
    <3>1. \A m \in 0 .. p - h - 2 : m + h + 1 \in h + 1 .. p - 1 /\ m = (m + h + 1) - h - 1
      BY <1>0, <1>7
    <3>2. \A q \in h + 1 .. p - 1 : q - h - 1 \in 0 .. p - h - 2
      BY <1>0, <1>7
    <3> QED
      BY <3>1, <3>2
  <2>4. p - h - 1 - 1 = p - h - 2
    BY <1>0, <1>7
  <2> QED
    BY <1>2, <1>7, <2>1, <2>2, <2>3, <2>4
<1>8. CASE p = h + MaxRecords + 1
  <2>1. s[p].gen = "Updated" /\ s[p].n = 0 /\ ~s[p].short
    BY <1>0, <1>3, <1>8
  <2>2. Prior(p) = {}
    <3> SUFFICES ASSUME NEW r \in 1 .. p - 1, s[r].kind = "Ciphertext" PROVE s[r].gen # "Updated"
      BY <2>1
    <3>1. r = h \/ r \in h + 1 .. h + MaxRecords
      BY <1>0, <1>4, <1>8
    <3> QED
      BY <1>1, <1>2, <3>1
  <2> QED
    BY <2>1, <2>2
<1>9. p = h \/ p \in h + 1 .. h + MaxRecords \/ p = h + MaxRecords + 1
  BY <1>0, <1>5
<1> QED
  BY <1>6, <1>7, <1>8, <1>9
\* So has the other.
LEMMA Shape12Numbered ==
    ASSUME NEW s, Shape12(s)
    PROVE  Numbered(s)
<1>0. MaxRecords \in Nat /\ Len(s) = MaxRecords + 4
  BY RecordsAssumption DEF Shape12
<1>1. \A p \in 4 .. MaxRecords + 4 :
         /\ s[p].kind = "Ciphertext" /\ s[p].gen = "Tls12" /\ s[p].n = p - 4 /\ ~s[p].short
  <2> SUFFICES ASSUME NEW p \in 4 .. MaxRecords + 4
               PROVE  /\ s[p].kind = "Ciphertext" /\ s[p].gen = "Tls12"
                      /\ s[p].n = p - 4 /\ ~s[p].short
    OBVIOUS
  <2>1. s[p] = Cipher("Tls12", p - 4)
    BY DEF Shape12
  <2>2. p - 4 \in Nat
    BY <1>0
  <2> QED
    BY <2>1, <2>2, CipherFields DEF Counted
<1>2. \A p \in 1 .. 3 : s[p].kind # "Ciphertext"
  BY DEF Shape12
<1> SUFFICES ASSUME NEW p \in 1 .. Len(s), s[p].kind = "Ciphertext"
             PROVE  /\ ~s[p].short
                    /\ {s[q].n : q \in {r \in 1 .. p - 1 : s[r].kind = "Ciphertext" /\ s[r].gen = s[p].gen}}
                         = 0 .. s[p].n - 1
  BY DEF Numbered
<1>3. p \in 4 .. MaxRecords + 4
  BY <1>0, <1>2
<1>4. {r \in 1 .. p - 1 : s[r].kind = "Ciphertext" /\ s[r].gen = s[p].gen} = 4 .. p - 1
  <2>1. ASSUME NEW r \in 1 .. p - 1
        PROVE  r \in 4 .. p - 1 <=> s[r].kind = "Ciphertext" /\ s[r].gen = "Tls12"
    <3>1. CASE r \in 1 .. 3
      BY <1>0, <1>2, <3>1
    <3>2. CASE r \notin 1 .. 3
      <4>1. r \in 4 .. MaxRecords + 4 /\ r \in 4 .. p - 1
        BY <1>0, <1>3, <3>2
      <4> QED
        BY <1>1, <4>1
    <3> QED
      BY <3>1, <3>2
  <2>2. \A r \in 4 .. p - 1 : r \in 1 .. p - 1
    BY <1>0, <1>3
  <2> QED
    BY <1>1, <1>3, <2>1, <2>2
<1>5. s[p].n = p - 4 /\ \A q \in 4 .. p - 1 : s[q].n = q - 4
  BY <1>0, <1>1, <1>3
<1>6. {q - 4 : q \in 4 .. p - 1} = 0 .. p - 5
  <2>1. \A m \in 0 .. p - 5 : m + 4 \in 4 .. p - 1 /\ m = (m + 4) - 4
    BY <1>0, <1>3
  <2>2. \A q \in 4 .. p - 1 : q - 4 \in 0 .. p - 5
    BY <1>0, <1>3
  <2> QED
    BY <2>1, <2>2
<1>7. s[p].n - 1 = p - 5
  BY <1>0, <1>3, <1>5
<1>8. {s[q].n : q \in 4 .. p - 1} = {q - 4 : q \in 4 .. p - 1}
  BY <1>5
<1> QED
  BY <1>1, <1>3, <1>4, <1>6, <1>7, <1>8

\* AppData13: MaxRecords records of the application secret, and one after a
\* KeyUpdate.
LEMMA AppDataShape ==
    /\ AppData13 \in Seq(Record)
    /\ Len(AppData13) \in {MaxRecords, MaxRecords + 1}
    /\ \A i \in 1 .. MaxRecords : AppData13[i] = Cipher("Application", i - 1)
    /\ Len(AppData13) = MaxRecords + 1 => AppData13[MaxRecords + 1] = Cipher("Updated", 0)
<1> DEFINE a == Ciphers("Application", 0, MaxRecords - 1)
           u == Cipher("Updated", 0)
<1>0. MaxRecords \in Nat
  BY RecordsAssumption
<1>1. /\ a \in Seq(Record) /\ Len(a) = MaxRecords
      /\ \A i \in 1 .. MaxRecords : a[i] = Cipher("Application", i - 1)
  BY <1>0, CiphersAt DEF Counted, Generation
<1>2. u \in Record
  BY CipherFields
<1> HIDE DEF a, u
<1>3. CASE session.rekey
  <2>1. AppData13 = a \o <<u>>
    BY <1>3 DEF AppData13, a, u
  <2>2. /\ a \o <<u>> \in Seq(Record) /\ Len(a \o <<u>>) = MaxRecords + 1
        /\ \A i \in 1 .. MaxRecords : (a \o <<u>>)[i] = a[i]
        /\ (a \o <<u>>)[MaxRecords + 1] = u
    BY <1>0, <1>1, <1>2
  <2> QED
    BY <1>0, <1>1, <2>1, <2>2 DEF u
<1>4. CASE ~session.rekey
  <2>1. AppData13 = a \o << >>
    BY <1>4 DEF AppData13, a
  <2>2. a \o << >> = a
    BY <1>1
  <2> QED
    BY <1>0, <1>1, <2>1, <2>2
<1> QED
  BY <1>3, <1>4

\* A handshake followed by application data has the shape of TLS 1.3.
LEMMA Shape13Of ==
    ASSUME NEW t \in Seq(Record), NEW h \in Nat, h >= 3, Len(t) = h,
           \A p \in 1 .. h - 1 : t[p].kind # "Ciphertext", t[h] = Cipher("Handshake", 0)
    PROVE  Shape13(t \o AppData13, h)
<1> DEFINE a == AppData13
           s == t \o a
<1>0. MaxRecords \in Nat
  BY RecordsAssumption
<1>1. /\ a \in Seq(Record)
      /\ Len(a) \in {MaxRecords, MaxRecords + 1}
      /\ \A i \in 1 .. MaxRecords : a[i] = Cipher("Application", i - 1)
      /\ Len(a) = MaxRecords + 1 => a[MaxRecords + 1] = Cipher("Updated", 0)
  BY AppDataShape
<1> HIDE DEF a
<1>2. /\ s \in Seq(Record) /\ Len(s) = h + Len(a)
      /\ \A p \in 1 .. h : s[p] = t[p]
      /\ \A p \in h + 1 .. h + Len(a) : s[p] = a[p - h]
  BY <1>1
<1> HIDE DEF s
<1>3. \A p \in h + 1 .. h + MaxRecords : s[p] = Cipher("Application", p - h - 1)
  <2> SUFFICES ASSUME NEW p \in h + 1 .. h + MaxRecords PROVE s[p] = Cipher("Application", p - h - 1)
    OBVIOUS
  <2>1. p - h \in 1 .. MaxRecords /\ p \in h + 1 .. h + Len(a)
    BY <1>0, <1>1
  <2> QED
    BY <1>1, <1>2, <2>1
<1>4. Len(s) = h + MaxRecords + 1 => s[h + MaxRecords + 1] = Cipher("Updated", 0)
  <2> SUFFICES ASSUME Len(s) = h + MaxRecords + 1 PROVE s[h + MaxRecords + 1] = Cipher("Updated", 0)
    OBVIOUS
  <2>1. Len(a) = MaxRecords + 1 /\ h + MaxRecords + 1 \in h + 1 .. h + Len(a)
    BY <1>0, <1>1, <1>2
  <2>2. (h + MaxRecords + 1) - h = MaxRecords + 1
    BY <1>0
  <2> QED
    BY <1>1, <1>2, <2>1, <2>2
<1>5. \A p \in 1 .. h - 1 : s[p].kind # "Ciphertext"
  BY <1>2
<1>6. s[h] = Cipher("Handshake", 0)
  BY <1>2
<1>7. Len(s) \in {h + MaxRecords, h + MaxRecords + 1}
  <2>1. CASE Len(a) = MaxRecords
    BY <1>2, <2>1
  <2>2. CASE Len(a) = MaxRecords + 1
    BY <1>0, <1>2, <2>2
  <2> QED
    BY <1>1, <2>1, <2>2
<1>8. Shape13(s, h)
  BY <1>2, <1>3, <1>4, <1>5, <1>6, <1>7 DEF Shape13
<1> QED
  BY <1>8 DEF s, a
\* Two records, end to end.
LEMMA Join11 ==
    ASSUME NEW a \in Record, NEW b \in Record
    PROVE  <<a>> \o <<b>> = <<a, b>>
<1>1. <<a>> \in Seq(Record) /\ <<b>> \in Seq(Record) /\ <<a, b>> \in Seq(Record)
  OBVIOUS
<1>2. Len(<<a>> \o <<b>>) = 2 /\ Len(<<a, b>>) = 2 /\ <<a>> \o <<b>> \in Seq(Record)
  BY <1>1
<1>3. \A i \in 1 .. 2 : (<<a>> \o <<b>>)[i] = <<a, b>>[i]
  OBVIOUS
<1> QED
  BY <1>1, <1>2, <1>3, SeqEqual

\* Three.
LEMMA Join12 ==
    ASSUME NEW a \in Record, NEW b \in Record, NEW c \in Record
    PROVE  <<a>> \o <<b, c>> = <<a, b, c>>
<1>1. <<a>> \in Seq(Record) /\ <<b, c>> \in Seq(Record) /\ <<a, b, c>> \in Seq(Record)
  OBVIOUS
<1>2. Len(<<a>> \o <<b, c>>) = 3 /\ Len(<<a, b, c>>) = 3 /\ <<a>> \o <<b, c>> \in Seq(Record)
  BY <1>1
<1>3. \A i \in 1 .. 3 : (<<a>> \o <<b, c>>)[i] = <<a, b, c>>[i]
  OBVIOUS
<1> QED
  BY <1>1, <1>2, <1>3, SeqEqual

\* Three, the other way.
LEMMA Join21 ==
    ASSUME NEW a \in Record, NEW b \in Record, NEW c \in Record
    PROVE  <<a, b>> \o <<c>> = <<a, b, c>>
<1>1. <<a, b>> \in Seq(Record) /\ <<c>> \in Seq(Record) /\ <<a, b, c>> \in Seq(Record)
  OBVIOUS
<1>2. Len(<<a, b>> \o <<c>>) = 3 /\ Len(<<a, b, c>>) = 3 /\ <<a, b>> \o <<c>> \in Seq(Record)
  BY <1>1
<1>3. \A i \in 1 .. 3 : (<<a, b>> \o <<c>>)[i] = <<a, b, c>>[i]
  OBVIOUS
<1> QED
  BY <1>1, <1>2, <1>3, SeqEqual

\* Four.
LEMMA Join22 ==
    ASSUME NEW a \in Record, NEW b \in Record, NEW c \in Record, NEW e \in Record
    PROVE  <<a, b>> \o <<c, e>> = <<a, b, c, e>>
<1>1. <<a, b>> \in Seq(Record) /\ <<c, e>> \in Seq(Record) /\ <<a, b, c, e>> \in Seq(Record)
  OBVIOUS
<1>2. Len(<<a, b>> \o <<c, e>>) = 4 /\ Len(<<a, b, c, e>>) = 4 /\ <<a, b>> \o <<c, e>> \in Seq(Record)
  BY <1>1
<1>3. \A i \in 1 .. 4 : (<<a, b>> \o <<c, e>>)[i] = <<a, b, c, e>>[i]
  OBVIOUS
<1> QED
  BY <1>1, <1>2, <1>3, SeqEqual

\* Four, the other way.
LEMMA Join31 ==
    ASSUME NEW a \in Record, NEW b \in Record, NEW c \in Record, NEW e \in Record
    PROVE  <<a, b, c>> \o <<e>> = <<a, b, c, e>>
<1>1. <<a, b, c>> \in Seq(Record) /\ <<e>> \in Seq(Record) /\ <<a, b, c, e>> \in Seq(Record)
  OBVIOUS
<1>2. Len(<<a, b, c>> \o <<e>>) = 4 /\ Len(<<a, b, c, e>>) = 4 /\ <<a, b, c>> \o <<e>> \in Seq(Record)
  BY <1>1
<1>3. \A i \in 1 .. 4 : (<<a, b, c>> \o <<e>>)[i] = <<a, b, c, e>>[i]
  OBVIOUS
<1> QED
  BY <1>1, <1>2, <1>3, SeqEqual

\* A direction of a connection has the shape of its version.
LEMMA SentShape ==
    ASSUME NEW d \in Direction, session \in Session
    PROVE  /\ session.version = "TLS13" => \E h \in Nat : Shape13(Sent(d), h)
           /\ session.version = "TLS12" => Shape12(Sent(d))
<1> DEFINE C == Plain("ClientHello")
           S == Plain("ServerHello")
           K == Plain("ClientKeyExchange")
           D == Short("ServerHelloDone")
           X == Plain("ChangeCipherSpec")
           H == Cipher("Handshake", 0)
           A == AppData13
           T == Ciphers("Tls12", 0, MaxRecords)
<1>1. /\ C \in Record /\ C.kind # "Ciphertext" /\ S \in Record /\ S.kind # "Ciphertext"
      /\ K \in Record /\ K.kind # "Ciphertext" /\ D \in Record /\ D.kind # "Ciphertext"
      /\ X \in Record /\ X.kind # "Ciphertext" /\ H \in Record
  BY PlainFields, CipherFields DEF PlainKind, Counted, Generation
<1>2. /\ T \in Seq(Record) /\ Len(T) = MaxRecords + 1 /\ MaxRecords \in Nat
      /\ \A i \in 1 .. MaxRecords + 1 : T[i] = Cipher("Tls12", i - 1)
  <2>1. MaxRecords + 1 \in Nat /\ MaxRecords \in Nat /\ (MaxRecords + 1) - 1 = MaxRecords
    BY RecordsAssumption
  <2>2. PICK k \in Nat : k = MaxRecords + 1 /\ k - 1 = MaxRecords
    BY <2>1
  <2>3. /\ Ciphers("Tls12", 0, k - 1) \in Seq(Record) /\ Len(Ciphers("Tls12", 0, k - 1)) = k
        /\ \A i \in 1 .. k : Ciphers("Tls12", 0, k - 1)[i] = Cipher("Tls12", i - 1)
    BY CiphersAt DEF Counted
  <2> QED
    BY <2>1, <2>2, <2>3
<1>3. session.version = "TLS13" =>
         Sent(d) = IF d = "c2s" THEN <<C>> \o (IF session.retry THEN <<C>> ELSE << >>) \o <<X, H>> \o A
                   ELSE <<S>> \o (IF session.retry THEN <<S>> ELSE << >>) \o <<X>> \o <<H>> \o A
  BY DEF Sent
<1>4. session.version = "TLS12" =>
         Sent(d) = (IF d = "c2s" THEN <<C, K>> ELSE <<S, D>>) \o <<X>> \o T
  BY DEF Sent
<1> HIDE DEF C, S, K, D, X, A, T
<1>5. ASSUME NEW p \in Record, p.kind # "Ciphertext"
      PROVE  Shape13(<<p, X, H>> \o A, 3) /\ Shape13(<<p, p, X, H>> \o A, 4)
  <2>1. /\ <<p, X, H>> \in Seq(Record) /\ Len(<<p, X, H>>) = 3 /\ <<p, X, H>>[3] = H
        /\ \A i \in 1 .. 3 - 1 : <<p, X, H>>[i].kind # "Ciphertext"
    BY <1>1, <1>5
  <2>2. /\ <<p, p, X, H>> \in Seq(Record) /\ Len(<<p, p, X, H>>) = 4 /\ <<p, p, X, H>>[4] = H
        /\ \A i \in 1 .. 4 - 1 : <<p, p, X, H>>[i].kind # "Ciphertext"
    BY <1>1, <1>5
  <2>3. PICK t \in Seq(Record), u \in Seq(Record) : t = <<p, X, H>> /\ u = <<p, p, X, H>>
    BY <2>1, <2>2
  <2>4. /\ Len(t) = 3 /\ t[3] = H /\ \A i \in 1 .. 3 - 1 : t[i].kind # "Ciphertext"
        /\ Len(u) = 4 /\ u[4] = H /\ \A i \in 1 .. 4 - 1 : u[i].kind # "Ciphertext"
    BY <2>1, <2>2, <2>3
  <2>5. PICK h \in Nat, k \in Nat : h = 3 /\ k = 4
    OBVIOUS
  <2>6. Shape13(t \o AppData13, h)
    <3>1. Len(t) = h /\ t[h] = Cipher("Handshake", 0) /\ \A i \in 1 .. h - 1 : t[i].kind # "Ciphertext"
      BY <2>4, <2>5
    <3>2. h >= 3
      BY <2>5
    <3> QED
      BY <3>1, <3>2, Shape13Of
  <2>7. Shape13(u \o AppData13, k)
    <3>1. Len(u) = k /\ u[k] = Cipher("Handshake", 0) /\ \A i \in 1 .. k - 1 : u[i].kind # "Ciphertext"
      BY <2>4, <2>5
    <3>2. k >= 3
      BY <2>5
    <3> QED
      BY <3>1, <3>2, Shape13Of
  <2> QED
    BY <2>3, <2>5, <2>6, <2>7 DEF A
<1>6. ASSUME NEW p \in Record, p.kind # "Ciphertext", NEW q \in Record, q.kind # "Ciphertext"
      PROVE  Shape12(<<p, q, X>> \o T)
  <2> DEFINE s == <<p, q, X>> \o T
  <2>1. <<p, q, X>> \in Seq(Record)
    BY <1>1, <1>6
  <2>2. /\ s \in Seq(Record) /\ Len(s) = MaxRecords + 4
        /\ s[1] = p /\ s[2] = q /\ s[3] = X
        /\ \A i \in 4 .. MaxRecords + 4 : s[i] = T[i - 3]
    BY <1>1, <1>2, <2>1
  <2> HIDE DEF s
  <2>3. \A i \in 4 .. MaxRecords + 4 : s[i] = Cipher("Tls12", i - 4)
    <3> SUFFICES ASSUME NEW i \in 4 .. MaxRecords + 4 PROVE s[i] = Cipher("Tls12", i - 4)
      OBVIOUS
    <3>1. i - 3 \in 1 .. MaxRecords + 1 /\ (i - 3) - 1 = i - 4
      BY <1>2
    <3> QED
      BY <1>2, <2>2, <3>1
  <2>4. \A i \in 1 .. 3 : s[i].kind # "Ciphertext"
    BY <1>1, <1>6, <2>2
  <2> QED
    BY <2>2, <2>3, <2>4 DEF Shape12, s
<1>7. A \in Seq(Record)
  BY AppDataShape DEF A
<1>8. CASE session.version = "TLS13"
  <2>1. d = "c2s" => Sent(d) = (IF session.retry THEN <<C, C, X, H>> ELSE <<C, X, H>>) \o A
    <3>1. <<C>> \o <<C>> \o <<X, H>> = <<C, C, X, H>>
      <4>1. <<C>> \o <<C>> = <<C, C>>
        BY <1>1, Join11
      <4>2. <<C, C>> \o <<X, H>> = <<C, C, X, H>>
        BY <1>1, Join22
      <4> QED
        BY <4>1, <4>2, Zenon
    <3>2. <<C>> \o << >> \o <<X, H>> = <<C, X, H>>
      <4>1. <<C>> \o << >> = <<C>>
        BY <1>1
      <4> QED
        BY <1>1, <4>1, Join12
    <3> QED
      BY <1>3, <1>8, <3>1, <3>2
  <2>2. d # "c2s" => Sent(d) = (IF session.retry THEN <<S, S, X, H>> ELSE <<S, X, H>>) \o A
    <3>1. <<S>> \o <<S>> \o <<X>> \o <<H>> = <<S, S, X, H>>
      <4>1. <<S>> \o <<S>> = <<S, S>>
        BY <1>1, Join11
      <4>2. <<S, S>> \o <<X>> = <<S, S, X>>
        BY <1>1, Join21
      <4>3. <<S, S, X>> \o <<H>> = <<S, S, X, H>>
        BY <1>1, Join31
      <4> QED
        BY <4>1, <4>2, <4>3, Zenon
    <3>2. <<S>> \o << >> \o <<X>> \o <<H>> = <<S, X, H>>
      <4>1. <<S>> \o << >> = <<S>>
        BY <1>1
      <4>2. <<S>> \o <<X>> = <<S, X>>
        BY <1>1, Join11
      <4>3. <<S, X>> \o <<H>> = <<S, X, H>>
        BY <1>1, Join21
      <4> QED
        BY <4>1, <4>2, <4>3, Zenon
    <3> QED
      BY <1>3, <1>8, <3>1, <3>2
  <2> QED
    BY <1>1, <1>5, <1>8, <2>1, <2>2
<1>9. CASE session.version = "TLS12"
  <2>1. Sent(d) = (IF d = "c2s" THEN <<C, K, X>> ELSE <<S, D, X>>) \o T
    <3>1. <<C, K>> \o <<X>> = <<C, K, X>> /\ <<S, D>> \o <<X>> = <<S, D, X>>
      BY <1>1, Join21
    <3> QED
      BY <1>4, <1>9, <3>1
  <2> QED
    BY <1>1, <1>6, <1>9, <2>1
<1> QED
  BY <1>8, <1>9

\* Every direction is numbered under each of its secrets, its first three records
\* exist, and its secrets are those of its version.
LEMMA SentOrdered ==
    ASSUME NEW d \in Direction, session \in Session
    PROVE  /\ Sent(d) \in Seq(Record) /\ Len(Sent(d)) >= 3 /\ Numbered(Sent(d))
           /\ \A p \in 1 .. Len(Sent(d)) : Sent(d)[p].kind = "Ciphertext" =>
                 IF session.version = "TLS13" THEN Sent(d)[p].gen \in Generation \union {"Updated"}
                 ELSE Sent(d)[p].gen = "Tls12"
<1>1. session.version \in {"TLS13", "TLS12"}
  BY DEF Session
<1>2. CASE session.version = "TLS13"
  <2>1. PICK h \in Nat : Shape13(Sent(d), h)
    BY <1>2, SentShape
  <2> DEFINE s == Sent(d)
  <2> HIDE DEF s
  <2>2. h \in Nat /\ h >= 3 /\ MaxRecords \in Nat /\ Shape13(s, h) /\ s \in Seq(Record)
    BY <2>1, RecordsAssumption DEF Shape13, s
  <2>3. ASSUME NEW p \in 1 .. Len(s), s[p].kind = "Ciphertext"
        PROVE  s[p].gen \in Generation \union {"Updated"}
    <3>1. p = h \/ p \in h + 1 .. h + MaxRecords \/ (p = h + MaxRecords + 1 /\ p = Len(s))
      <4>1. p \in Nat /\ 1 <= p /\ p <= Len(s) /\ Len(s) \in Nat
        BY <2>2, <2>3
      <4>2. Len(s) <= h + MaxRecords + 1
        BY <2>2 DEF Shape13
      <4>3. ~(p \in 1 .. h - 1)
        BY <2>2, <2>3 DEF Shape13
      <4> QED
        BY <2>2, <4>1, <4>2, <4>3
    <3>2. CASE p = h
      BY <2>2, <3>2, CipherFields DEF Shape13, Counted, Generation
    <3>3. CASE p \in h + 1 .. h + MaxRecords
      <4>1. s[p] = Cipher("Application", p - h - 1) /\ p - h - 1 \in Nat
        BY <2>2, <3>3 DEF Shape13
      <4> QED
        BY <4>1, CipherFields DEF Counted, Generation
    <3>4. CASE p = h + MaxRecords + 1 /\ p = Len(s)
      <4>1. s[p] = Cipher("Updated", 0)
        BY <2>2, <3>4 DEF Shape13
      <4>2. Cipher("Updated", 0).gen = "Updated"
        BY CipherFields
      <4> QED
        BY <4>1, <4>2
    <3> QED
      BY <3>1, <3>2, <3>3, <3>4
  <2>4. Len(s) >= 3
    BY <2>2 DEF Shape13
  <2>5. Numbered(s)
    BY <2>2, Shape13Numbered
  <2> QED
    BY <1>2, <2>2, <2>3, <2>4, <2>5 DEF s
<1>3. CASE session.version = "TLS12"
  <2> DEFINE s == Sent(d)
  <2> HIDE DEF s
  <2>1. Shape12(s) /\ MaxRecords \in Nat
    BY <1>3, SentShape, RecordsAssumption DEF s
  <2>2. ASSUME NEW p \in 1 .. Len(s), s[p].kind = "Ciphertext"
        PROVE  s[p].gen = "Tls12"
    <3>1. p \in 4 .. MaxRecords + 4
      BY <2>1, <2>2 DEF Shape12
    <3>2. PICK k \in Nat : s[p] = Cipher("Tls12", k)
      BY <2>1, <3>1 DEF Shape12
    <3>3. "Tls12" \in Counted \union {"Updated"}
      BY DEF Counted
    <3>4. Cipher("Tls12", k).gen = "Tls12"
      BY <3>3, CipherFields
    <3> QED
      BY <3>2, <3>4, Zenon
  <2>3. s \in Seq(Record) /\ Len(s) >= 3 /\ Numbered(s)
    BY <2>1, Shape12Numbered DEF Shape12
  <2> QED
    BY <1>3, <2>2, <2>3 DEF s
<1> QED
  BY <1>1, <1>2, <1>3
-----------------------------------------------------------------------------
(* The secrets in a keylog snapshot.                                       *)

Clamp(x, w) == Max({0, Min({x, w})})
IsLogged(label) == \E i \in 1 .. Len(Logged) : Logged[i] = label
Offset(label) == (Min({i \in 1 .. Len(Logged) : Logged[i] = label}) - 1) * WholeLen

\* secret_for, once the ClientHello is known, at k units of the file.
SecretAt(label, k) == IF IsLogged(label) THEN Clamp(k - Offset(label), WholeLen) ELSE 0

\* What the clamping of secret_for computes.
LEMMA ClampValue ==
    ASSUME NEW x \in Int, NEW w \in Nat
    PROVE  Clamp(x, w) = IF x <= 0 THEN 0 ELSE IF x <= w THEN x ELSE w
<1>1. \A a, b \in Int : Min({a, b}) = IF a <= b THEN a ELSE b
  BY DEF Min
<1>2. \A a, b \in Int : Max({a, b}) = IF a <= b THEN b ELSE a
  BY DEF Max
<1>3. Min({x, w}) \in Int
  BY <1>1
<1>4. Clamp(x, w) = IF 0 <= Min({x, w}) THEN Min({x, w}) ELSE 0
  BY <1>2, <1>3 DEF Clamp
<1> QED
  BY <1>1, <1>4

\* A whole secret is two or three units long, under TLS 1.3 as long as the hash.
LEMMA WholeLenType ==
    ASSUME session \in Session
    PROVE  /\ WholeLen \in Nat /\ WholeLen \in {2, 3}
           /\ session.version \in {"TLS13", "TLS12"}
           /\ session.version = "TLS13" => WholeLen = HashLen(session.suite)
           /\ session.suite \in AeadAlgorithm
           /\ session.version = "TLS12" => session.suite \in {"Aes128Gcm", "Aes256Gcm"}
<1>1. /\ session.version \in {"TLS13", "TLS12"}
      /\ session.suite \in AeadAlgorithm
      /\ session.version = "TLS12" => session.suite \in {"Aes128Gcm", "Aes256Gcm"}
  <2>1. AeadAlgorithm = {"Aes128Gcm", "Aes256Gcm", "ChaCha20Poly1305"}
    BY DEF AeadAlgorithm, TLS13_ALGORITHMS
  <2> QED
    BY <2>1 DEF Session
<1> QED
  BY <1>1 DEF WholeLen, HashLen, MasterLen

\* The secrets the endpoint logs.
LEMMA LoggedLabels ==
    ASSUME session \in Session, NEW d \in Direction, NEW g \in Counted \union {"Updated", "none"},
           IsLogged(LabelOf(d, g))
    PROVE  \/ session.version = "TLS13" /\ g \in Generation
           \/ session.version = "TLS12" /\ g = "Tls12"
<1>1. CASE session.version = "TLS13"
  <2>1. \A i \in 1 .. 4 : Logged[i] \in Direction \X Generation
    BY <1>1 DEF Logged, Direction, Generation
  <2>2. Len(Logged) = 4
    BY <1>1 DEF Logged
  <2>3. LabelOf(d, g) \in Direction \X Generation
    BY <2>1, <2>2 DEF IsLogged
  <2> QED
    BY <1>1, <2>3 DEF LabelOf, Direction, Counted, Generation
<1>2. CASE session.version = "TLS12"
  <2>1. Len(Logged) = 1 /\ Logged[1] = <<"both", "Tls12">>
    BY <1>2 DEF Logged
  <2>2. LabelOf(d, g) = <<"both", "Tls12">>
    BY <2>1 DEF IsLogged
  <2> QED
    BY <1>2, <2>2 DEF LabelOf, Direction, Counted, Generation
<1> QED
  BY <1>1, <1>2, WholeLenType

\* Where a logged secret begins.
LEMMA OffsetType ==
    ASSUME session \in Session, NEW label, IsLogged(label)
    PROVE  Offset(label) \in Nat
<1> DEFINE line == {i \in 1 .. Len(Logged) : Logged[i] = label}
<1>1. Len(Logged) \in Nat
  BY DEF Logged
<1>2. line \in SUBSET Nat /\ line # {}
  BY <1>1 DEF IsLogged
<1>3. PICK m \in line : \A x \in line : m <= x
  BY <1>2, LeastNatural
<1>4. Min(line) \in line
  BY <1>3 DEF Min
<1>5. Min(line) - 1 \in Nat
  BY <1>1, <1>4
<1>6. Offset(label) = (Min(line) - 1) * WholeLen
  BY DEF Offset
<1> HIDE DEF line
<1>7. PICK b \in Nat : b = Min(line) - 1
  BY <1>5
<1>8. b * WholeLen \in Nat
  BY WholeLenType
<1> QED
  BY <1>6, <1>7, <1>8

\* The length of a secret grows with the snapshot and never exceeds the whole; a
\* file begun again has none.
LEMMA SecretAtValue ==
    ASSUME session \in Session, NEW label, NEW k \in Int, k >= -1
    PROVE  /\ SecretAt(label, k) \in Nat /\ SecretAt(label, k) <= WholeLen
           /\ k = -1 => SecretAt(label, k) = 0
           /\ SecretAt(label, k) > 0 => IsLogged(label)
           /\ \A j \in Int : k <= j => SecretAt(label, k) <= SecretAt(label, j)
<1>0. WholeLen \in Nat
  BY WholeLenType
<1>1. CASE ~IsLogged(label)
  BY <1>0, <1>1 DEF SecretAt
<1>2. CASE IsLogged(label)
  <2>1. PICK o \in Nat : o = Offset(label)
    BY <1>2, OffsetType
  <2>2. PICK w \in Nat : w = WholeLen
    BY <1>0
  <2>3. \A j \in Int : SecretAt(label, j) = Clamp(j - o, w)
    BY <1>2, <2>1, <2>2 DEF SecretAt
  <2>4. \A j \in Int : SecretAt(label, j) =
            IF j - o <= 0 THEN 0 ELSE IF j - o <= w THEN j - o ELSE w
    BY <2>3, ClampValue
  <2> QED
    BY <1>2, <2>2, <2>4
<1> QED
  BY <1>1, <1>2

\* secret_for looks at the snapshot only once it knows the ClientHello.
LEMMA SecretForIs ==
    ASSUME NEW label
    PROVE  secret_for(label) = IF client_random = "ClientHello" THEN SecretAt(label, keylog) ELSE 0
<1> DEFINE line == {i \in 1 .. Len(Logged) : Logged[i] = label}
<1>1. line = {} <=> ~IsLogged(label)
  BY DEF IsLogged
<1>2. secret_for(label) = IF client_random # "ClientHello" \/ line = {} THEN 0
                          ELSE Max({0, Min({keylog - (Min(line) - 1) * WholeLen, WholeLen})})
  BY DEF secret_for
<1>3. SecretAt(label, keylog) = IF IsLogged(label)
         THEN Max({0, Min({keylog - (Min(line) - 1) * WholeLen, WholeLen})}) ELSE 0
  BY DEF SecretAt, Clamp, Offset
<1> HIDE DEF line
<1> QED
  BY <1>1, <1>2, <1>3, Zenon

\* A secret that is there at all: its length, and what is known with it.
LEMMA SecretForValue ==
    ASSUME Typed, NEW d \in Direction, NEW g \in Counted \union {"Updated", "none"}
    PROVE  /\ secret_for(LabelOf(d, g)) \in Nat /\ secret_for(LabelOf(d, g)) <= WholeLen
           /\ secret_for(LabelOf(d, g)) > 0 =>
                 /\ client_random = "ClientHello" /\ keylog >= 0 /\ g \in Counted
                 /\ \/ session.version = "TLS13" /\ g \in Generation
                    \/ session.version = "TLS12" /\ g = "Tls12"
<1>1. session \in Session /\ keylog \in Int /\ keylog >= -1
  BY DEF Typed
<1>2. PICK label : label = LabelOf(d, g)
  OBVIOUS
<1>3. /\ SecretAt(label, keylog) \in Nat /\ SecretAt(label, keylog) <= WholeLen
      /\ keylog = -1 => SecretAt(label, keylog) = 0
      /\ SecretAt(label, keylog) > 0 => IsLogged(label)
  BY <1>1, SecretAtValue
<1>4. secret_for(label) = IF client_random = "ClientHello" THEN SecretAt(label, keylog) ELSE 0
  BY SecretForIs
<1>5. IsLogged(label) => \/ session.version = "TLS13" /\ g \in Generation
                         \/ session.version = "TLS12" /\ g = "Tls12"
  BY <1>1, <1>2, LoggedLabels
<1> QED
  BY <1>1, <1>2, <1>3, <1>4, <1>5, WholeLenType DEF Counted

\* While the file only grows a secret of a connection only gets longer.
LEMMA SecretGrows ==
    ASSUME session \in Session, session' = session, keylog \in Int, keylog >= -1, keylog' \in Int,
           keylog <= keylog', client_random = "ClientHello" => client_random' = "ClientHello",
           NEW label
    PROVE  secret_for(label) <= secret_for(label)' /\ secret_for(label)' \in Nat
<1>1. secret_for(label) = IF client_random = "ClientHello" THEN SecretAt(label, keylog) ELSE 0
  BY SecretForIs
<1>2. secret_for(label)' = IF client_random' = "ClientHello" THEN SecretAt(label, keylog') ELSE 0
  <2> DEFINE line == {i \in 1 .. Len(Logged) : Logged[i] = label}
  <2>1. line = {} <=> ~IsLogged(label)
    BY DEF IsLogged
  <2>2. line' = line /\ WholeLen' = WholeLen
    BY DEF Logged, WholeLen
  <2>3. secret_for(label)' = IF client_random' # "ClientHello" \/ line' = {} THEN 0
                        ELSE Max({0, Min({keylog' - (Min(line') - 1) * WholeLen', WholeLen'})})
    BY DEF secret_for
  <2>4. SecretAt(label, keylog') = IF IsLogged(label)
           THEN Max({0, Min({keylog' - (Min(line) - 1) * WholeLen, WholeLen})}) ELSE 0
    BY DEF SecretAt, Clamp, Offset
  <2> HIDE DEF line
  <2> QED
    BY <2>1, <2>2, <2>3, <2>4, Zenon
<1>3. SecretAt(label, keylog) <= SecretAt(label, keylog') /\ SecretAt(label, keylog') \in Nat
  <2>1. PICK k \in Int : k = keylog' /\ k >= -1 /\ keylog <= k
    OBVIOUS
  <2> QED
    BY <2>1, SecretAtValue
<1> QED
  BY <1>1, <1>2, <1>3
-----------------------------------------------------------------------------
(* Probing candidates, and the cache they leave behind.                    *)

Caches == UNION {[S -> Nat] : S \in SUBSET Candidate}

\* A cache the probing of one record can leave: it keeps what was there and adds
\* only keys that could be had.
Good(d, K) ==
    /\ K \in Caches
    /\ DOMAIN keys[d] \subseteq DOMAIN K
    /\ \A c \in DOMAIN K : K[c] = KeysFor(d, c) /\ (c \in DOMAIN keys[d] \/ HasKeys(d, c))

\* A list of candidates: at least one, of the program's generations and algorithms.
Probes(cs, n) ==
    /\ n \in Nat /\ n >= 1 /\ DOMAIN cs = 1 .. n /\ Len(cs) = n
    /\ \A i \in 1 .. n : cs[i] \in Candidate

\* The keys of a candidate, cached or derived now.
LEMMA KeysForType ==
    ASSUME Typed, NEW d \in Direction, NEW c \in Candidate
    PROVE  KeysFor(d, c) \in Nat
<1>1. c[1] \in Counted
  BY DEF Candidate
<1>2. secret_for(LabelOf(d, c[1])) \in Nat
  BY <1>1, SecretForValue
<1>3. keys[d] \in Caches
  BY DEF Typed, Caches
<1> QED
  BY <1>2, <1>3 DEF KeysFor, Caches

\* The cache as it is.
LEMMA GoodStart ==
    ASSUME Typed, NEW d \in Direction
    PROVE  Good(d, keys[d])
<1>1. keys[d] \in Caches
  BY DEF Typed, Caches
<1> QED
  BY <1>1 DEF Good, KeysFor

\* CacheUpTo: it keeps a cache good, and holds what was probed with keys.
LEMMA GoodCache ==
    ASSUME Typed, NEW d \in Direction, NEW K, Good(d, K), NEW cs, NEW n, Probes(cs, n),
           NEW last \in 1 .. n
    PROVE  /\ Good(d, CacheUpTo(d, cs, last, K))
           /\ \A i \in 1 .. last : HasKeys(d, cs[i]) => cs[i] \in DOMAIN CacheUpTo(d, cs, last, K)
<1> DEFINE tried == {cs[i] : i \in {j \in 1 .. last : HasKeys(d, cs[j])}}
           N == [c \in DOMAIN K \union tried |-> IF c \in DOMAIN K THEN K[c] ELSE KeysFor(d, c)]
<1>1. CacheUpTo(d, cs, last, K) = N
  BY DEF CacheUpTo
<1>2. \A c \in tried : c \in Candidate /\ HasKeys(d, c)
  BY DEF Probes
<1>3. DOMAIN K \subseteq Candidate /\ \A c \in DOMAIN K : K[c] = KeysFor(d, c) /\ c \in Candidate
  BY DEF Good, Caches
<1>4. DOMAIN N = DOMAIN K \union tried /\ \A c \in DOMAIN N : N[c] = KeysFor(d, c)
  BY <1>3
<1>5. \A c \in DOMAIN N : c \in Candidate /\ N[c] \in Nat
  BY <1>2, <1>3, <1>4, KeysForType
<1>6. N \in Caches
  <2>1. N \in [DOMAIN N -> Nat]
    BY <1>5
  <2>2. DOMAIN N \in SUBSET Candidate
    BY <1>5
  <2> HIDE DEF N
  <2> QED
    BY <2>1, <2>2 DEF Caches
<1>7. \A c \in DOMAIN N : c \in DOMAIN keys[d] \/ HasKeys(d, c)
  BY <1>2, <1>4 DEF Good
<1>8. DOMAIN keys[d] \subseteq DOMAIN N
  BY <1>4 DEF Good
<1>9. \A i \in 1 .. last : HasKeys(d, cs[i]) => cs[i] \in DOMAIN N
  BY <1>4
<1> HIDE DEF N
<1> QED
  BY <1>1, <1>4, <1>6, <1>7, <1>8, <1>9 DEF Good

\* The candidates of decrypt_tls13 are every pair of generation and algorithm.
LEMMA Probes13 ==
    /\ Probes(Candidates13, 6)
    /\ \A i \in 1 .. 6 : Candidates13[i][1] \in Generation
    /\ \A g \in Generation, a \in AeadAlgorithm : \E i \in 1 .. 6 : Candidates13[i] = <<g, a>>
<1>1. Candidates13 = [i \in 1 .. 6 |->
        <<IF i <= 3 THEN "Handshake" ELSE "Application", TLS13_ALGORITHMS[((i - 1) % 3) + 1]>>]
  BY DEF Candidates13
<1>2. \A i \in 1 .. 6 : ((i - 1) % 3) + 1 \in 1 .. 3
  OBVIOUS
<1>3. \A j \in 1 .. 3 : TLS13_ALGORITHMS[j] \in AeadAlgorithm
  BY DEF AeadAlgorithm
<1>4. \A i \in 1 .. 6 : Candidates13[i] \in Candidate /\ Candidates13[i][1] \in Generation
  BY <1>1, <1>2, <1>3 DEF Candidate, Counted, Generation
<1>5. DOMAIN Candidates13 = 1 .. 6 /\ Len(Candidates13) = 6
  BY <1>1
<1>6. ASSUME NEW g \in Generation, NEW a \in AeadAlgorithm
      PROVE  \E i \in 1 .. 6 : Candidates13[i] = <<g, a>>
  <2>1. PICK j \in 1 .. 3 : a = TLS13_ALGORITHMS[j]
    BY DEF AeadAlgorithm
  <2>2. \A k \in 1 .. 3 : ((k - 1) % 3) + 1 = k /\ ((k + 3 - 1) % 3) + 1 = k
    OBVIOUS
  <2>3. CASE g = "Handshake"
    <3>1. j \in 1 .. 6 /\ j <= 3 /\ ((j - 1) % 3) + 1 = j
      BY <2>2
    <3> QED
      BY <1>1, <2>1, <2>3, <3>1
  <2>4. CASE g = "Application"
    <3>1. j + 3 \in 1 .. 6 /\ ~(j + 3 <= 3) /\ ((j + 3 - 1) % 3) + 1 = j
      BY <2>2
    <3> QED
      BY <1>1, <2>1, <2>4, <3>1
  <2> QED
    BY <2>3, <2>4 DEF Generation
<1> QED
  BY <1>4, <1>5, <1>6 DEF Probes

\* The candidates of decrypt_tls12.
LEMMA Probes12 ==
    /\ Probes(Candidates12, 2)
    /\ \A i \in 1 .. 2 : Candidates12[i][1] = "Tls12"
    /\ \A a \in {"Aes128Gcm", "Aes256Gcm"} : \E i \in 1 .. 2 : Candidates12[i] = <<"Tls12", a>>
<1>1. Candidates12 = [i \in 1 .. 2 |-> <<"Tls12", TLS12_ALGORITHMS[i]>>]
  BY DEF Candidates12
<1>2. TLS12_ALGORITHMS[1] = "Aes128Gcm" /\ TLS12_ALGORITHMS[2] = "Aes256Gcm"
  BY DEF TLS12_ALGORITHMS
<1>3. "Aes128Gcm" \in AeadAlgorithm /\ "Aes256Gcm" \in AeadAlgorithm
  BY DEF AeadAlgorithm, TLS13_ALGORITHMS
<1>4. DOMAIN Candidates12 = 1 .. 2 /\ Len(Candidates12) = 2
  BY <1>1
<1>5. /\ Candidates12[1] = <<"Tls12", "Aes128Gcm">> /\ Candidates12[2] = <<"Tls12", "Aes256Gcm">>
  BY <1>1, <1>2
<1>6. \A i \in 1 .. 2 : Candidates12[i] \in Candidate /\ Candidates12[i][1] = "Tls12"
  <2>1. \A i \in 1 .. 2 : i = 1 \/ i = 2
    OBVIOUS
  <2> QED
    BY <1>3, <1>5, <2>1 DEF Candidate, Counted
<1> QED
  BY <1>4, <1>5, <1>6 DEF Probes

\* Probing stops at a candidate, and at one that opens the record if there is one.
LEMMA StopsAtOpener ==
    ASSUME NEW d, NEW cs, NEW n, Probes(cs, n), NEW rec
    PROVE  /\ StopAt(d, cs, rec) \in 1 .. n
           /\ Opened(d, cs, rec) => Opens(d, cs[StopAt(d, cs, rec)], rec)
<1> DEFINE stops == {i \in DOMAIN cs : IF rec.short THEN HasKeys(d, cs[i]) ELSE Opens(d, cs[i], rec)}
<1>1. StopAt(d, cs, rec) = IF stops = {} THEN Len(cs) ELSE Min(stops)
  BY DEF StopAt
<1>2. DOMAIN cs = 1 .. n /\ Len(cs) = n /\ n \in Nat /\ n >= 1
  BY DEF Probes
<1>3. stops \subseteq 1 .. n /\ stops \in SUBSET Nat
  BY <1>2
<1>4. Opened(d, cs, rec) => ~rec.short /\ stops # {}
  BY DEF Opened
<1>5. ~rec.short => \A i \in stops : Opens(d, cs[i], rec)
  OBVIOUS
<1> HIDE DEF stops
<1>6. stops # {} => Min(stops) \in stops
  <2> SUFFICES ASSUME stops # {} PROVE Min(stops) \in stops
    OBVIOUS
  <2>1. PICK m \in stops : \A x \in stops : m <= x
    BY <1>3, LeastNatural
  <2> QED
    BY <2>1 DEF Min
<1>7. StopAt(d, cs, rec) \in 1 .. n
  <2>1. CASE stops = {}
    BY <1>1, <1>2, <2>1
  <2>2. CASE stops # {}
    BY <1>1, <1>3, <1>6, <2>2, Zenon
  <2> QED
    BY <2>1, <2>2
<1>8. Opened(d, cs, rec) => StopAt(d, cs, rec) \in stops /\ ~rec.short
  BY <1>1, <1>4, <1>6, Zenon
<1>9. Opened(d, cs, rec) => Opens(d, cs[StopAt(d, cs, rec)], rec)
  BY <1>5, <1>8, Zenon
<1> QED
  BY <1>7, <1>9

\* What opens a record is the record's own generation and the negotiated suite.
LEMMA OpenerIs ==
    ASSUME NEW d, NEW c \in Candidate, NEW rec, Opens(d, c, rec)
    PROVE  c = <<rec.gen, session.suite>> /\ rec.gen \in Counted /\ HasKeys(d, c)
<1>1. c[1] = rec.gen /\ c[2] = session.suite /\ HasKeys(d, c)
  BY DEF Opens
<1>2. c = <<c[1], c[2]>> /\ c[1] \in Counted
  BY DEF Candidate
<1> QED
  BY <1>1, <1>2
-----------------------------------------------------------------------------
(* What a step does to the state.                                          *)

\* The pair of generation and algorithm that protects a record.
Own(rec) == <<rec.gen, session.suite>>

\* A record was opened: with its own keys, which are now cached.
Opening(d, rec, K) ==
    /\ Good(d, K) /\ keys' = [keys EXCEPT ![d] = K]
    /\ rec.gen \in Counted /\ Opens(d, Own(rec), rec) /\ Own(rec) \in DOMAIN K
    /\ seq' = [seq EXCEPT ![d][rec.gen] = @ + 1]
    /\ Log(d, rec, "Decrypted")
    /\ UNCHANGED <<client_random, server_random>>

\* Decryption was tried and nothing opened the record.
Refusing(d, rec, K, result) ==
    /\ Good(d, K) /\ keys' = [keys EXCEPT ![d] = K]
    /\ result \in {"NoKey", "AuthFailed"}
    /\ rec.kind = "Ciphertext" /\ rec.gen \in Counted => ~Opens(d, Own(rec), rec)
    /\ Log(d, rec, result)
    /\ UNCHANGED <<seq, client_random, server_random>>

\* A ServerHello gets to decrypt only when one has been recorded.
HelloFirst(d, rec) == d = "s2c" /\ rec.kind = "ServerHello" => server_random # None

\* The record was not put through decrypt.
Passing(d, rec, result) ==
    /\ result \in {"PlaintextHandshake", "NoClientHello"}
    /\ client_random' = client_random
          \/ (client_random = None /\ client_random' \in {"ClientHello", "Lookalike"})
    /\ server_random' = server_random
          \/ (server_random = None /\ server_random' \in {"ServerHello", "Lookalike"})
    /\ rec.kind = "Ciphertext" =>
          \/ client_random = None
          \/ d = "s2c" /\ server_random = None /\ result = "PlaintextHandshake"
    /\ d = "s2c" /\ rec.kind = "ServerHello" => result = "NoClientHello" \/ server_random' # None
    /\ Log(d, rec, result)
    /\ UNCHANGED <<seq, keys>>

\* Every way through decrypt opens the record or refuses it.
LEMMA DecryptEffect ==
    ASSUME Typed, NEW d \in Direction, NEW rec \in Record, decrypt(d, rec)
    PROVE  \/ \E K \in Caches : Opening(d, rec, K)
           \/ \E K \in Caches, result \in {"NoKey", "AuthFailed"} : Refusing(d, rec, K, result)
<1> DEFINE s13 == StopAt(d, Candidates13, rec)
           s12 == StopAt(d, Candidates12, rec)
           after13 == CacheUpTo(d, Candidates13, s13, keys[d])
           after12 == CacheUpTo(d, Candidates12, s12, after13)
<1>1. /\ Probes(Candidates13, 6) /\ Probes(Candidates12, 2)
      /\ \A i \in 1 .. 6 : Candidates13[i] \in Candidate /\ Candidates13[i][1] \in Generation
      /\ \A i \in 1 .. 2 : Candidates12[i] \in Candidate /\ Candidates12[i][1] = "Tls12"
      /\ DOMAIN Candidates13 = 1 .. 6 /\ DOMAIN Candidates12 = 1 .. 2
  BY Probes13, Probes12 DEF Probes
<1>2. /\ s13 \in 1 .. 6 /\ s12 \in 1 .. 2
      /\ Opened(d, Candidates13, rec) => Opens(d, Candidates13[s13], rec)
      /\ Opened(d, Candidates12, rec) => Opens(d, Candidates12[s12], rec)
  BY <1>1, StopsAtOpener
<1> HIDE DEF s13, s12
<1>3. /\ Good(d, after13)
      /\ \A i \in 1 .. s13 : HasKeys(d, Candidates13[i]) => Candidates13[i] \in DOMAIN after13
  <2>1. Good(d, keys[d])
    BY GoodStart
  <2> QED
    BY <1>1, <1>2, <2>1, GoodCache
<1> HIDE DEF after13
<1>4. /\ Good(d, after12)
      /\ \A i \in 1 .. s12 : HasKeys(d, Candidates12[i]) => Candidates12[i] \in DOMAIN after12
  BY <1>1, <1>2, <1>3, GoodCache
<1> HIDE DEF after12
<1>5. after13 \in Caches /\ after12 \in Caches
  BY <1>3, <1>4 DEF Good
<1>6. UNCHANGED <<client_random, server_random>>
  BY DEF decrypt
<1>7. Opened(d, Candidates13, rec) =>
         /\ Candidates13[s13] = Own(rec) /\ rec.gen \in Generation /\ Opens(d, Own(rec), rec)
         /\ Own(rec) \in DOMAIN after13
  <2> SUFFICES ASSUME Opened(d, Candidates13, rec)
               PROVE  /\ Candidates13[s13] = Own(rec) /\ rec.gen \in Generation
                      /\ Opens(d, Own(rec), rec) /\ Own(rec) \in DOMAIN after13
    OBVIOUS
  <2>1. PICK c \in Candidate : c = Candidates13[s13] /\ c[1] \in Generation
    BY <1>1, <1>2
  <2>2. Opens(d, c, rec)
    BY <1>2, <2>1
  <2>3. c = Own(rec) /\ HasKeys(d, c)
    BY <2>2, OpenerIs DEF Own
  <2>4. s13 \in 1 .. s13
    BY <1>2
  <2>5. rec.gen = c[1]
    BY <2>2 DEF Opens
  <2> QED
    BY <1>3, <2>1, <2>2, <2>3, <2>4, <2>5
<1>8. Opened(d, Candidates12, rec) =>
         /\ Candidates12[s12] = Own(rec) /\ rec.gen = "Tls12" /\ Opens(d, Own(rec), rec)
         /\ Own(rec) \in DOMAIN after12
  <2> SUFFICES ASSUME Opened(d, Candidates12, rec)
               PROVE  /\ Candidates12[s12] = Own(rec) /\ rec.gen = "Tls12"
                      /\ Opens(d, Own(rec), rec) /\ Own(rec) \in DOMAIN after12
    OBVIOUS
  <2>1. PICK c \in Candidate : c = Candidates12[s12] /\ c[1] = "Tls12"
    BY <1>1, <1>2
  <2>2. Opens(d, c, rec)
    BY <1>2, <2>1
  <2>3. c = Own(rec) /\ HasKeys(d, c)
    BY <2>2, OpenerIs DEF Own
  <2>4. s12 \in 1 .. s12
    BY <1>2
  <2>5. rec.gen = c[1]
    BY <2>2 DEF Opens
  <2> QED
    BY <1>4, <2>1, <2>2, <2>3, <2>4, <2>5
<1>9. session \in Session /\ session.suite \in AeadAlgorithm
  BY WholeLenType DEF Typed
<1>10. ~Opened(d, Candidates13, rec) /\ rec.kind = "Ciphertext" /\ rec.gen \in Generation
         => ~Opens(d, Own(rec), rec)
  <2>1. rec.kind = "Ciphertext" => ~rec.short
    BY CiphertextIsLong
  <2>2. rec.gen \in Generation => \E i \in 1 .. 6 : Candidates13[i] = Own(rec)
    BY <1>9, Probes13 DEF Own
  <2> QED
    BY <1>1, <2>1, <2>2 DEF Opened
<1>11. ~Opened(d, Candidates12, rec) /\ rec.kind = "Ciphertext" /\ rec.gen = "Tls12"
         => ~Opens(d, Own(rec), rec)
  <2> SUFFICES ASSUME ~Opened(d, Candidates12, rec), rec.kind = "Ciphertext", rec.gen = "Tls12",
                      Opens(d, Own(rec), rec)
               PROVE  FALSE
    OBVIOUS
  <2>1. ~rec.short
    BY CiphertextIsLong
  <2>2. secret_for(LabelOf(d, "Tls12")) > 0
    <3>1. HasKeys(d, Own(rec)) /\ Own(rec)[1] = "Tls12"
      BY DEF Opens, Own
    <3> QED
      BY <3>1 DEF HasKeys
  <2>3. session.version = "TLS12"
    BY <2>2, SecretForValue DEF Counted, Generation
  <2>4. \E i \in 1 .. 2 : Candidates12[i] = Own(rec)
    BY <1>9, <2>3, WholeLenType, Probes12 DEF Own
  <2> QED
    BY <1>1, <2>1, <2>4 DEF Opened
<1>12. NoTls12(d) /\ rec.gen = "Tls12" => ~Opens(d, Own(rec), rec)
  <2>1. rec.gen = "Tls12" => Own(rec)[1] = "Tls12"
    BY DEF Own
  <2>2. secret_for(LabelOf(d, "Tls12")) = 0 /\ rec.gen = "Tls12" => ~HasKeys(d, Own(rec))
    BY <2>1 DEF HasKeys
  <2>3. server_random = None => server_random # "ServerHello"
    BY NoneAssumption
  <2> QED
    BY <2>1, <2>2, <2>3 DEF NoTls12, Opens
<1>13. Counted = Generation \union {"Tls12"}
  BY DEF Counted
<1>14. CASE decrypt_tls13(d, rec)
  <2>1. Opened(d, Candidates13, rec) /\ Log(d, rec, "Decrypted")
        /\ seq' = [seq EXCEPT ![d][rec.gen] = @ + 1] /\ keys' = [keys EXCEPT ![d] = after13]
    BY <1>14 DEF decrypt_tls13, after13, s13
  <2>2. Opening(d, rec, after13)
    BY <1>3, <1>6, <1>7, <1>13, <2>1 DEF Opening
  <2> QED
    BY <1>5, <2>2
<1>15. CASE decrypt_tls12(d, rec)
  <2>1. /\ ~Opened(d, Candidates13, rec)
        /\ \/ /\ NoTls12(d)
              /\ keys' = [keys EXCEPT ![d] = after13]
              /\ Log(d, rec, "NoKey")
              /\ UNCHANGED seq
           \/ /\ ~NoTls12(d)
              /\ rec.short
              /\ keys' = [keys EXCEPT ![d] = after13]
              /\ Log(d, rec, "AuthFailed")
              /\ UNCHANGED seq
           \/ /\ ~NoTls12(d)
              /\ Opened(d, Candidates12, rec)
              /\ keys' = [keys EXCEPT ![d] = after12]
              /\ seq' = [seq EXCEPT ![d]["Tls12"] = @ + 1]
              /\ Log(d, rec, "Decrypted")
           \/ /\ ~NoTls12(d)
              /\ ~rec.short
              /\ ~Opened(d, Candidates12, rec)
              /\ keys' = [keys EXCEPT ![d] = after12]
              /\ Log(d, rec, "NoKey")
              /\ UNCHANGED seq
    BY <1>15 DEF decrypt_tls12, after12, after13, s12, s13
  <2>2. CASE NoTls12(d) /\ keys' = [keys EXCEPT ![d] = after13] /\ Log(d, rec, "NoKey") /\ UNCHANGED seq
    <3>1. Refusing(d, rec, after13, "NoKey")
      BY <1>3, <1>6, <1>10, <1>12, <1>13, <2>1, <2>2 DEF Refusing
    <3> QED
      BY <1>5, <3>1
  <2>3. CASE rec.short /\ keys' = [keys EXCEPT ![d] = after13] /\ Log(d, rec, "AuthFailed") /\ UNCHANGED seq
    <3>1. rec.kind # "Ciphertext"
      BY <2>3, CiphertextIsLong
    <3>2. Refusing(d, rec, after13, "AuthFailed")
      BY <1>3, <1>6, <2>3, <3>1 DEF Refusing
    <3> QED
      BY <1>5, <3>2
  <2>4. CASE /\ Opened(d, Candidates12, rec) /\ keys' = [keys EXCEPT ![d] = after12]
             /\ seq' = [seq EXCEPT ![d]["Tls12"] = @ + 1] /\ Log(d, rec, "Decrypted")
    <3>1. Opening(d, rec, after12)
      BY <1>4, <1>6, <1>8, <1>13, <2>4 DEF Opening
    <3> QED
      BY <1>5, <3>1
  <2>5. CASE /\ ~Opened(d, Candidates12, rec) /\ keys' = [keys EXCEPT ![d] = after12]
             /\ Log(d, rec, "NoKey") /\ UNCHANGED seq
    <3>1. Refusing(d, rec, after12, "NoKey")
      BY <1>4, <1>6, <1>10, <1>11, <1>13, <2>1, <2>5 DEF Refusing
    <3> QED
      BY <1>5, <3>1
  <2> QED
    BY <2>1, <2>2, <2>3, <2>4, <2>5
<1> QED
  BY <1>14, <1>15 DEF decrypt

\* The records a step takes are the next ones of their direction.
LEMMA TakeEffect ==
    ASSUME Typed, NEW d \in Direction, TakeRecord(d)
    PROVE  /\ session' = session /\ keylog' = keylog
           /\ Len(taken[d]) + 1 <= Len(Sent(d))
           /\ \E rec \in Record :
                 /\ rec = Sent(d)[Len(taken[d]) + 1]
                 /\ \/ \E K \in Caches : Opening(d, rec, K)
                    \/ /\ HelloFirst(d, rec)
                       /\ \E K \in Caches, result \in {"NoKey", "AuthFailed"} : Refusing(d, rec, K, result)
                    \/ \E result \in {"PlaintextHandshake", "NoClientHello"} : Passing(d, rec, result)
<1>1. /\ session' = session /\ keylog' = keylog
      /\ Len(taken[d]) + 1 <= Len(Sent(d))
  BY DEF TakeRecord
<1> DEFINE hello == IF d = "c2s" THEN "ClientHello" ELSE "ServerHello"
<1>2. PICK rec : /\ rec = Sent(d)[Len(taken[d]) + 1]
                 /\ \E looks \in LooksLike(rec, hello) :
                       \/ TakeChangeCipherSpec(d, rec)
                       \/ TakeClientHello(d, rec, looks)
                       \/ TakeServerHello(d, rec, looks)
                       \/ TakeWithoutState(d, rec, looks)
                       \/ TakeCiphertext(d, rec, looks)
  BY DEF TakeRecord
<1>3. PICK looks \in LooksLike(rec, hello) :
         \/ TakeChangeCipherSpec(d, rec)
         \/ TakeClientHello(d, rec, looks)
         \/ TakeServerHello(d, rec, looks)
         \/ TakeWithoutState(d, rec, looks)
         \/ TakeCiphertext(d, rec, looks)
  BY <1>2
<1>4. rec \in Record
  <2>1. Sent(d) \in Seq(Record)
    BY SentOrdered DEF Typed
  <2>2. Len(taken[d]) \in Nat
    BY DEF Typed
  <2> QED
    BY <1>1, <1>2, <2>1, <2>2
<1>5. looks => rec.kind \in {"Ciphertext", hello}
  BY <1>3 DEF LooksLike
<1>6. CASE TakeChangeCipherSpec(d, rec)
  <2>1. Passing(d, rec, "PlaintextHandshake")
    BY <1>6 DEF TakeChangeCipherSpec, Passing
  <2> QED
    BY <1>1, <1>2, <1>4, <2>1
<1>7. CASE TakeClientHello(d, rec, looks)
  <2>1. HelloOf(rec) \in {"ClientHello", "Lookalike"}
    BY <1>5, <1>7 DEF TakeClientHello, HelloOf
  <2>2. Passing(d, rec, "PlaintextHandshake")
    BY <1>7, <2>1 DEF TakeClientHello, Passing
  <2> QED
    BY <1>1, <1>2, <1>4, <2>2
<1>8. CASE TakeServerHello(d, rec, looks)
  <2>1. HelloOf(rec) \in {"ServerHello", "Lookalike"}
    BY <1>5, <1>8 DEF TakeServerHello, HelloOf
  <2>2. server_random' # None
    BY <1>8, <2>1, NoneAssumption DEF TakeServerHello
  <2>3. Passing(d, rec, "PlaintextHandshake")
    BY <1>8, <2>1, <2>2 DEF TakeServerHello, Passing
  <2> QED
    BY <1>1, <1>2, <1>4, <2>3
<1>9. CASE TakeWithoutState(d, rec, looks)
  <2>1. Passing(d, rec, "NoClientHello")
    BY <1>9 DEF TakeWithoutState, Passing
  <2> QED
    BY <1>1, <1>2, <1>4, <2>1
<1>10. CASE TakeCiphertext(d, rec, looks)
  <2>1. decrypt(d, rec)
    BY <1>10 DEF TakeCiphertext
  <2>2. HelloFirst(d, rec)
    <3>1. d = "s2c" /\ rec.kind = "ServerHello" => looks
      BY <1>3 DEF LooksLike
    <3> QED
      BY <1>10, <3>1 DEF TakeCiphertext, HelloFirst
  <2> QED
    BY <1>1, <1>2, <1>4, <2>1, <2>2, DecryptEffect
<1> QED
  BY <1>3, <1>6, <1>7, <1>8, <1>9, <1>10
-----------------------------------------------------------------------------
(* What the invariant says of the record taken next.                       *)

\* A record of direction d is taken, with this result.
Taking(d, rec, result) ==
    /\ session' = session /\ keylog' = keylog
    /\ Len(taken[d]) + 1 <= Len(Sent(d)) /\ rec = Sent(d)[Len(taken[d]) + 1]
    /\ Log(d, rec, result)
    /\ \/ result = "Decrypted" /\ \E K \in Caches : Opening(d, rec, K)
       \/ HelloFirst(d, rec) /\ \E K \in Caches : Refusing(d, rec, K, result)
       \/ Passing(d, rec, result)

\* The next entry of taken.
Added(d, rec, result) ==
    /\ taken' \in [Direction -> Seq(Taken)]
    /\ \A x \in Direction : x # d => taken'[x] = taken[x]
    /\ DOMAIN taken[d] = 1 .. Len(taken[d]) /\ DOMAIN taken'[d] = 1 .. Len(taken[d]) + 1
    /\ Len(taken[d]) \in Nat /\ Len(taken'[d]) = Len(taken[d]) + 1
    /\ \A j \in 1 .. Len(taken[d]) : taken'[d][j] = taken[d][j]
    /\ taken'[d][Len(taken[d]) + 1].rec = rec
    /\ taken'[d][Len(taken[d]) + 1].result = result
    /\ taken'[d][Len(taken[d]) + 1].keyed <=> Keyed(d, rec)

\* The earlier records of direction d under generation g.
Earlier(d, g) ==
    {r \in 1 .. Len(taken[d]) : taken[d][r].rec.kind = "Ciphertext" /\ taken[d][r].rec.gen = g}

\* A step that takes a record is one of the three kinds.
LEMMA TakingOf ==
    ASSUME Typed, NEW d \in Direction, TakeRecord(d)
    PROVE  \E rec \in Record, result \in Result : Taking(d, rec, result)
<1>1. /\ session' = session /\ keylog' = keylog /\ Len(taken[d]) + 1 <= Len(Sent(d))
  BY TakeEffect
<1>2. PICK rec \in Record :
         /\ rec = Sent(d)[Len(taken[d]) + 1]
         /\ \/ \E K \in Caches : Opening(d, rec, K)
            \/ /\ HelloFirst(d, rec)
               /\ \E K \in Caches, result \in {"NoKey", "AuthFailed"} : Refusing(d, rec, K, result)
            \/ \E result \in {"PlaintextHandshake", "NoClientHello"} : Passing(d, rec, result)
  BY TakeEffect
<1>3. CASE \E K \in Caches : Opening(d, rec, K)
  <2>1. Log(d, rec, "Decrypted")
    BY <1>3 DEF Opening
  <2> QED
    BY <1>1, <1>2, <1>3, <2>1 DEF Taking, Result
<1>4. CASE /\ HelloFirst(d, rec)
           /\ \E K \in Caches, result \in {"NoKey", "AuthFailed"} : Refusing(d, rec, K, result)
  <2>1. PICK result \in {"NoKey", "AuthFailed"} : \E K \in Caches : Refusing(d, rec, K, result)
    BY <1>4
  <2>2. Log(d, rec, result)
    BY <2>1 DEF Refusing
  <2>3. Taking(d, rec, result)
    BY <1>1, <1>2, <1>4, <2>1, <2>2 DEF Taking
  <2> QED
    BY <2>1, <2>3 DEF Result
<1>5. CASE \E result \in {"PlaintextHandshake", "NoClientHello"} : Passing(d, rec, result)
  <2>1. PICK result \in {"PlaintextHandshake", "NoClientHello"} : Passing(d, rec, result)
    BY <1>5
  <2>2. Log(d, rec, result)
    BY <2>1 DEF Passing
  <2>3. Taking(d, rec, result)
    BY <1>1, <1>2, <2>1, <2>2 DEF Taking
  <2> QED
    BY <2>1, <2>3 DEF Result
<1> QED
  BY <1>2, <1>3, <1>4, <1>5

\* The entry it appends.
LEMMA AddedBy ==
    ASSUME Typed, NEW d \in Direction, NEW rec \in Record, NEW result \in Result,
           Log(d, rec, result)
    PROVE  Added(d, rec, result)
<1> DEFINE e == [rec |-> rec, result |-> result, keyed |-> Keyed(d, rec)]
<1>1. taken \in [Direction -> Seq(Taken)] /\ taken' = [taken EXCEPT ![d] = Append(@, e)]
  BY DEF Typed, Log
<1>2. Keyed(d, rec) \in BOOLEAN
  BY DEF Keyed
<1>3. /\ e \in Taken /\ e.rec = rec /\ e.result = result /\ (e.keyed <=> Keyed(d, rec))
  BY <1>2, Zenon DEF Taken
<1> HIDE DEF e
<1>4. PICK f \in Taken : f = e
  BY <1>3
<1>5. /\ taken[d] \in Seq(Taken) /\ Len(taken[d]) \in Nat /\ taken'[d] = Append(taken[d], f)
      /\ \A x \in Direction : x # d => taken'[x] = taken[x]
  BY <1>1, <1>4
<1>6. taken' \in [Direction -> Seq(Taken)]
  BY <1>1, <1>4
<1>7. /\ Len(taken'[d]) = Len(taken[d]) + 1
      /\ \A j \in 1 .. Len(taken[d]) : taken'[d][j] = taken[d][j]
      /\ taken'[d][Len(taken[d]) + 1] = f
      /\ DOMAIN taken[d] = 1 .. Len(taken[d]) /\ DOMAIN taken'[d] = 1 .. Len(taken[d]) + 1
  BY <1>5
<1> QED
  BY <1>3, <1>4, <1>5, <1>6, <1>7, Zenon DEF Added

\* The number of the next record counts the earlier ones of its secret.
LEMMA NumberOfNext ==
    ASSUME Typed, TakenInOrder, NEW d \in Direction, NEW rec \in Record,
           Len(taken[d]) + 1 <= Len(Sent(d)), rec = Sent(d)[Len(taken[d]) + 1],
           rec.kind = "Ciphertext"
    PROVE  {taken[d][q].rec.n : q \in Earlier(d, rec.gen)} = 0 .. rec.n - 1
<1> DEFINE p == Len(taken[d]) + 1
           s == Sent(d)
           E == {r \in 1 .. p - 1 : s[r].kind = "Ciphertext" /\ s[r].gen = s[p].gen}
<1>1. s \in Seq(Record) /\ Numbered(s)
  BY SentOrdered DEF Typed
<1>2. taken[d] \in Seq(Taken) /\ Len(taken[d]) \in Nat
  BY DEF Typed
<1>3. p \in 1 .. Len(s) /\ p - 1 = Len(taken[d])
  BY <1>1, <1>2
<1>4. {s[q].n : q \in E} = 0 .. rec.n - 1
  BY <1>1, <1>3 DEF Numbered
<1>5. \A r \in 1 .. Len(taken[d]) : taken[d][r].rec = s[r]
  BY <1>2 DEF TakenInOrder
<1>6. E = Earlier(d, rec.gen)
  BY <1>3, <1>5 DEF Earlier
<1> HIDE DEF s, p
<1>7. \A q \in E : taken[d][q].rec.n = s[q].n
  BY <1>3, <1>5
<1> HIDE DEF E
<1> QED
  BY <1>4, <1>6, <1>7

\* Only an empty range ends before it begins, and ranges from 0 differ.
LEMMA RangesDiffer ==
    ASSUME NEW a \in Nat, NEW b \in Nat, 0 .. a - 1 = 0 .. b - 1
    PROVE  a = b
<1>1. CASE a < b
  <2>1. a \in 0 .. b - 1 /\ a \notin 0 .. a - 1
    BY <1>1
  <2> QED
    BY <2>1
<1>2. CASE b < a
  <2>1. b \in 0 .. a - 1 /\ b \notin 0 .. b - 1
    BY <1>2
  <2> QED
    BY <2>1
<1> QED
  BY <1>1, <1>2

\* Where a counter has counted all earlier records it is at the next one.
LEMMA CounterAtNext ==
    ASSUME Typed, TakenInOrder, OpensOnlyInSequence, NEW d \in Direction, NEW rec \in Record,
           Len(taken[d]) + 1 <= Len(Sent(d)), rec = Sent(d)[Len(taken[d]) + 1],
           rec.kind = "Ciphertext", rec.gen \in Counted,
           \A j \in Earlier(d, rec.gen) : taken[d][j].result = "Decrypted"
    PROVE  rec.n = seq[d][rec.gen]
<1> DEFINE D == {j \in DOMAIN taken[d] : taken[d][j].result = "Decrypted" /\ taken[d][j].rec.gen = rec.gen}
<1>1. {taken[d][q].rec.n : q \in Earlier(d, rec.gen)} = 0 .. rec.n - 1
  BY NumberOfNext
<1>2. DOMAIN seq[d] = Counted /\ seq[d][rec.gen] \in Nat /\ DOMAIN taken[d] = 1 .. Len(taken[d])
  BY DEF Typed
<1>3. {taken[d][i].rec.n : i \in D} = 0 .. seq[d][rec.gen] - 1
  BY <1>2 DEF OpensOnlyInSequence
<1>4. D = Earlier(d, rec.gen)
  <2>1. \A j \in D : j \in Earlier(d, rec.gen)
    BY <1>2 DEF TakenInOrder, Earlier
  <2>2. \A j \in Earlier(d, rec.gen) : j \in D
    BY <1>2 DEF Earlier
  <2> QED
    BY <2>1, <2>2
<1> HIDE DEF D
<1>5. rec.n \in Nat
  BY CiphertextIsLong
<1> QED
  BY <1>1, <1>2, <1>3, <1>4, <1>5, RangesDiffer

\* A direction in step opens its next record while the keylog has the secret,
\* unless an earlier one was taken for a ServerHello.
LEMMA InStepOpens ==
    ASSUME Typed, TakenInOrder, OpensOnlyInSequence, CacheSound, UsedIsCached, InStep,
           NEW d \in Direction, NEW rec \in Record,
           Len(taken[d]) + 1 <= Len(Sent(d)), rec = Sent(d)[Len(taken[d]) + 1],
           rec.kind = "Ciphertext", rec.gen \in Counted, seq[d][rec.gen] > 0, keylog >= 0
    PROVE  Opens(d, Own(rec), rec) \/ \E k \in Earlier(d, rec.gen) : TakenForServerHello(d, k)
<1> SUFFICES ASSUME \A k \in Earlier(d, rec.gen) : ~TakenForServerHello(d, k)
             PROVE  Opens(d, Own(rec), rec)
  OBVIOUS
<1>1. /\ Own(rec) \in DOMAIN keys[d] /\ keys[d][Own(rec)] = WholeLen
      /\ rec.gen = "Tls12" => server_random = "ServerHello"
  BY DEF UsedIsCached, Own
<1>2. WholeLen > 0 /\ WholeLen \in Nat
  BY WholeLenType DEF Typed
<1>3. Own(rec)[1] = rec.gen /\ Own(rec)[2] = session.suite
  BY DEF Own
<1>4. secret_for(LabelOf(d, rec.gen)) >= WholeLen
  BY <1>1, <1>3 DEF CacheSound
<1>5. secret_for(LabelOf(d, rec.gen)) \in Nat
  BY SecretForValue
<1>6. HasKeys(d, Own(rec))
  BY <1>1, <1>2, <1>3, <1>4, <1>5 DEF HasKeys
<1>7. KeysFor(d, Own(rec)) = WholeLen
  BY <1>1 DEF KeysFor
<1>8. ASSUME NEW j \in Earlier(d, rec.gen) PROVE taken[d][j].result = "Decrypted"
  <2>1. /\ j \in 1 .. Len(taken[d]) /\ Len(taken[d]) \in Nat /\ DOMAIN taken[d] = 1 .. Len(taken[d])
        /\ taken[d][j].rec.kind = "Ciphertext" /\ taken[d][j].rec.gen = rec.gen
    BY <1>8 DEF Earlier, Typed
  <2>2. ~LostBy(d, j)
    BY <2>1 DEF LostBy, SameSecret, Earlier
  <2> QED
    BY <2>1, <2>2 DEF InStep
<1>9. rec.n = seq[d][rec.gen]
  BY <1>8, CounterAtNext
<1> QED
  BY <1>1, <1>3, <1>6, <1>7, <1>9 DEF Opens

\* Records open in order: those before one that opened were opened.
LEMMA OpenedInOrder ==
    ASSUME Typed, TakenInOrder, OpensOnlyInSequence, NEW d \in Direction,
           NEW i \in DOMAIN taken[d], NEW k \in DOMAIN taken[d], k < i, SameSecret(d, k, i),
           taken[d][i].result = "Decrypted"
    PROVE  taken[d][k].result = "Decrypted"
<1> DEFINE s == Sent(d)
           g == taken[d][i].rec.gen
           D == {j \in DOMAIN taken[d] : taken[d][j].result = "Decrypted" /\ taken[d][j].rec.gen = g}
<1>1. s \in Seq(Record) /\ Numbered(s)
  BY SentOrdered DEF Typed
<1>2. /\ taken[d] \in Seq(Taken) /\ Len(taken[d]) \in Nat /\ DOMAIN taken[d] = 1 .. Len(taken[d])
      /\ Len(taken[d]) <= Len(s)
  BY DEF Typed, TakenInOrder
<1>3. \A j \in DOMAIN taken[d] : /\ taken[d][j].rec = s[j] /\ j \in 1 .. Len(s)
                                 /\ s[j].kind = "Ciphertext" => s[j].n \in Nat
  <2>1. ASSUME NEW j \in DOMAIN taken[d] PROVE taken[d][j].rec = s[j] /\ j \in 1 .. Len(s)
    BY <1>1, <1>2 DEF TakenInOrder
  <2>2. \A r \in Record : r.kind = "Ciphertext" => r.n \in Nat
    BY CiphertextIsLong
  <2> QED
    BY <1>1, <2>1, <2>2
<1>4. s[k].kind = "Ciphertext" /\ s[i].kind = "Ciphertext" /\ s[k].gen = g /\ s[i].gen = g /\ g \in Counted
  BY <1>3 DEF SameSecret, TakenInOrder
<1>5. ASSUME NEW a \in DOMAIN taken[d], NEW b \in DOMAIN taken[d], a < b,
             s[a].kind = "Ciphertext", s[b].kind = "Ciphertext", s[a].gen = s[b].gen
      PROVE  s[a].n < s[b].n
  <2>1. a \in {r \in 1 .. b - 1 : s[r].kind = "Ciphertext" /\ s[r].gen = s[b].gen}
    BY <1>2, <1>5
  <2>2. s[a].n \in 0 .. s[b].n - 1
    BY <1>1, <1>3, <1>5, <2>1 DEF Numbered
  <2> QED
    BY <1>3, <1>5, <2>2
<1>6. DOMAIN seq[d] = Counted /\ seq[d][g] \in Nat
  BY <1>4 DEF Typed
<1>7. {taken[d][j].rec.n : j \in D} = 0 .. seq[d][g] - 1
  BY <1>4, <1>6 DEF OpensOnlyInSequence
<1>8. s[i].n \in 0 .. seq[d][g] - 1 /\ s[k].n < s[i].n
  BY <1>3, <1>4, <1>5, <1>7
<1> HIDE DEF s, g, D
<1>9. s[k].n \in 0 .. seq[d][g] - 1
  <2>1. s[k].n \in Nat /\ s[i].n \in Nat
    BY <1>3, <1>4
  <2> QED
    BY <1>6, <1>8, <2>1
<1>10. PICK m \in D : taken[d][m].rec.n = s[k].n
  BY <1>7, <1>9
<1> USE DEF D
<1>11. /\ m \in DOMAIN taken[d] /\ s[m].n = s[k].n /\ s[m].gen = g /\ s[m].kind = "Ciphertext"
       /\ taken[d][m].result = "Decrypted"
  BY <1>3, <1>10 DEF TakenInOrder
<1>12. ~(m < k) /\ ~(k < m)
  BY <1>3, <1>4, <1>5, <1>11
<1>13. m = k
  BY <1>2, <1>11, <1>12
<1> QED
  BY <1>11, <1>13

\* The first record of a secret opens with the whole secret, unless TLS 1.2 cached
\* keys of a part of it.
LEMMA FirstOpens ==
    ASSUME Typed, TakenInOrder, OpensOnlyInSequence, CacheSound,
           NEW d \in Direction, NEW rec \in Record,
           Len(taken[d]) + 1 <= Len(Sent(d)), rec = Sent(d)[Len(taken[d]) + 1],
           rec.kind = "Ciphertext", Earlier(d, rec.gen) = {}, Keyed(d, rec),
           rec.gen \in Counted => ~Opens(d, Own(rec), rec)
    PROVE  session.version = "TLS12" /\ Poisoned(d)
<1>1. rec.gen \in Counted \union {"Updated", "none"}
  BY CiphertextIsLong
<1>2. WholeLen > 0 /\ WholeLen \in Nat /\ session.suite \in AeadAlgorithm
  BY WholeLenType DEF Typed
<1>3. /\ secret_for(LabelOf(d, rec.gen)) = WholeLen
      /\ rec.gen = "Tls12" => server_random = "ServerHello"
  BY DEF Keyed
<1>4. /\ rec.gen \in Counted
      /\ \/ session.version = "TLS13" /\ rec.gen \in Generation
         \/ session.version = "TLS12" /\ rec.gen = "Tls12"
  BY <1>1, <1>2, <1>3, SecretForValue
<1>5. Own(rec)[1] = rec.gen /\ Own(rec)[2] = session.suite /\ Own(rec) \in Candidate
  BY <1>2, <1>4 DEF Own, Candidate
<1>6. rec.n = seq[d][rec.gen]
  BY <1>4, CounterAtNext
<1>7. HasKeys(d, Own(rec))
  <2>1. CASE session.version = "TLS13" /\ rec.gen \in Generation
    <3>1. WholeLen = HashLen(session.suite)
      BY <2>1, WholeLenType DEF Typed
    <3>2. derive(secret_for(LabelOf(d, rec.gen)), Own(rec)[2]) /\ rec.gen # "Tls12"
      BY <1>2, <1>3, <1>5, <2>1, <3>1 DEF derive, Generation
    <3> QED
      BY <1>2, <1>3, <1>5, <3>2 DEF HasKeys
  <2>2. CASE rec.gen = "Tls12"
    BY <1>2, <1>3, <1>5, <2>2 DEF HasKeys, derive_tls12
  <2> QED
    BY <1>4, <2>1, <2>2
<1>8. KeysFor(d, Own(rec)) # WholeLen
  BY <1>3, <1>4, <1>5, <1>6, <1>7 DEF Opens
<1>9. Own(rec) \in DOMAIN keys[d] /\ keys[d][Own(rec)] # WholeLen
  BY <1>3, <1>5, <1>8 DEF KeysFor
<1>10. rec.gen = "Tls12"
  BY <1>5, <1>9 DEF CacheSound
<1>11. keys[d][Own(rec)] < WholeLen
  <2>1. keys[d][Own(rec)] \in Nat
    <3>1. keys[d] \in Caches
      BY DEF Typed, Caches
    <3> QED
      BY <1>9, <3>1 DEF Caches
  <2>2. keys[d][Own(rec)] <= WholeLen
    BY <1>9 DEF CacheSound
  <2> QED
    BY <1>2, <1>9, <2>1, <2>2
<1>12. Poisoned(d)
  BY <1>5, <1>9, <1>10, <1>11 DEF Poisoned
<1>13. session.version = "TLS12"
  BY <1>4, <1>10 DEF Generation
<1> QED
  BY <1>12, <1>13
-----------------------------------------------------------------------------
(* A record taken keeps the invariant, part by part.                       *)

\* What is sent and how long a whole secret is depend on the session alone.
LEMMA SessionFixed ==
    ASSUME session' = session
    PROVE  WholeLen' = WholeLen /\ \A d \in Direction : Sent(d)' = Sent(d)
<1>1. WholeLen' = WholeLen
  BY DEF WholeLen
<1>2. ASSUME NEW d \in Direction PROVE Sent(d)' = Sent(d)
  <2>1. AppData13' = AppData13
    BY DEF AppData13
  <2> QED
    BY <2>1 DEF Sent
<1> QED
  BY <1>1, <1>2

\* The hellos: known once, never changed.
LEMMA RandomsKept ==
    ASSUME Typed, NEW d \in Direction, NEW rec \in Record, NEW result \in Result,
           Taking(d, rec, result)
    PROVE  /\ client_random' \in {None, "ClientHello", "Lookalike"}
           /\ server_random' \in {None, "ServerHello", "Lookalike"}
           /\ client_random # None => client_random' = client_random
           /\ server_random # None => server_random' = server_random
<1>1. /\ client_random \in {None, "ClientHello", "Lookalike"}
      /\ server_random \in {None, "ServerHello", "Lookalike"}
  BY DEF Typed
<1>2. CASE \E K \in Caches : Opening(d, rec, K)
  BY <1>1, <1>2 DEF Opening
<1>3. CASE \E K \in Caches : Refusing(d, rec, K, result)
  BY <1>1, <1>3 DEF Refusing
<1>4. CASE Passing(d, rec, result)
  BY <1>1, <1>4 DEF Passing
<1> QED
  BY <1>2, <1>3, <1>4 DEF Taking

\* The caches of both directions after the step.
LEMMA CachesAfter ==
    ASSUME Typed, NEW d \in Direction, NEW rec \in Record, NEW result \in Result,
           Taking(d, rec, result)
    PROVE  /\ keys' \in [Direction -> Caches]
           /\ \A x \in Direction : Good(x, keys'[x])
<1>0. keys \in [Direction -> Caches]
  BY DEF Typed, Caches
<1>1. PICK K \in Caches : Good(d, K) /\ keys' = [keys EXCEPT ![d] = K]
  <2>1. CASE \E K \in Caches : Opening(d, rec, K)
    BY <2>1 DEF Opening
  <2>2. CASE \E K \in Caches : Refusing(d, rec, K, result)
    BY <2>2 DEF Refusing
  <2>3. CASE Passing(d, rec, result)
    <3>1. keys' = [keys EXCEPT ![d] = keys[d]]
      BY <1>0, <2>3 DEF Passing
    <3>2. keys[d] \in Caches
      BY <1>0
    <3> QED
      BY <3>1, <3>2, GoodStart
  <2> QED
    BY <2>1, <2>2, <2>3 DEF Taking
<1>2. ASSUME NEW x \in Direction PROVE Good(x, keys'[x])
  <2>1. CASE x = d
    BY <1>0, <1>1, <2>1
  <2>2. CASE x # d
    <3>1. keys'[x] = keys[x]
      BY <1>0, <1>1, <2>2
    <3> QED
      BY <3>1, GoodStart
  <2> QED
    BY <2>1, <2>2
<1> QED
  BY <1>0, <1>1, <1>2

\* The counters after the step.
LEMMA CountersAfter ==
    ASSUME Typed, NEW d \in Direction, NEW rec \in Record, NEW result \in Result,
           Taking(d, rec, result)
    PROVE  /\ seq' \in [Direction -> [Counted -> Nat]]
           /\ \/ seq' = seq /\ result # "Decrypted"
              \/ /\ result = "Decrypted" /\ rec.gen \in Counted /\ Opens(d, Own(rec), rec)
                 /\ Own(rec) \in DOMAIN keys'[d]
                 /\ UNCHANGED <<client_random, server_random>>
                 /\ seq'[d][rec.gen] = seq[d][rec.gen] + 1
                 /\ \A g \in Counted : g # rec.gen => seq'[d][g] = seq[d][g]
                 /\ \A x \in Direction : x # d => seq'[x] = seq[x]
<1>0. seq \in [Direction -> [Counted -> Nat]] /\ keys \in [Direction -> Caches]
  BY DEF Typed, Caches
<1>1. CASE result = "Decrypted" /\ \E K \in Caches : Opening(d, rec, K)
  <2>1. PICK K \in Caches : Opening(d, rec, K)
    BY <1>1
  <2>2. rec.gen \in Counted /\ seq' = [seq EXCEPT ![d][rec.gen] = @ + 1]
        /\ keys'[d] = K /\ Own(rec) \in DOMAIN K
    BY <1>0, <2>1 DEF Opening
  <2>3. PICK g \in Counted : g = rec.gen
    BY <2>2
  <2>4. seq[d] \in [Counted -> Nat] /\ seq[d][g] + 1 \in Nat
    BY <1>0
  <2>5. PICK m \in Nat : m = seq[d][g] + 1
    BY <2>4
  <2>6. seq' = [seq EXCEPT ![d] = [seq[d] EXCEPT ![g] = m]]
    BY <1>0, <2>2, <2>3, <2>5
  <2>7. /\ seq' \in [Direction -> [Counted -> Nat]] /\ seq'[d][g] = m
        /\ \A h \in Counted : h # g => seq'[d][h] = seq[d][h]
        /\ \A x \in Direction : x # d => seq'[x] = seq[x]
    BY <1>0, <2>4, <2>6
  <2> QED
    BY <1>1, <2>1, <2>2, <2>3, <2>5, <2>7 DEF Opening
<1>2. CASE \E K \in Caches : Refusing(d, rec, K, result)
  BY <1>0, <1>2 DEF Refusing
<1>3. CASE Passing(d, rec, result)
  BY <1>0, <1>3 DEF Passing
<1> QED
  BY <1>1, <1>2, <1>3 DEF Taking

\* Typed and TakenInOrder.
LEMMA TypedKept ==
    ASSUME Typed, TakenInOrder, NEW d \in Direction, NEW rec \in Record, NEW result \in Result,
           Taking(d, rec, result)
    PROVE  Typed' /\ TakenInOrder'
<1>1. Added(d, rec, result)
  BY AddedBy DEF Taking
<1>2. /\ session' = session /\ keylog' = keylog
      /\ Len(taken[d]) + 1 <= Len(Sent(d)) /\ rec = Sent(d)[Len(taken[d]) + 1]
  BY DEF Taking
<1>3. Typed'
  <2>1. keys' \in [Direction -> Caches]
    BY CachesAfter
  <2>2. seq' \in [Direction -> [Counted -> Nat]]
    BY CountersAfter
  <2> QED
    BY <1>1, <1>2, <2>1, <2>2, RandomsKept DEF Typed, Caches, Added
<1>4. TakenInOrder'
  <2> SUFFICES ASSUME NEW x \in Direction
               PROVE  /\ Len(taken'[x]) <= Len(Sent(x)')
                      /\ \A i \in DOMAIN taken'[x] :
                            /\ taken'[x][i].rec = Sent(x)'[i]
                            /\ taken'[x][i].result = "Decrypted" =>
                                  /\ taken'[x][i].rec.kind = "Ciphertext"
                                  /\ taken'[x][i].rec.gen \in Counted
    BY DEF TakenInOrder
  <2>1. Sent(x)' = Sent(x)
    BY <1>2, SessionFixed
  <2>2. CASE x # d
    BY <1>1, <2>1, <2>2 DEF TakenInOrder, Added
  <2>3. CASE x = d
    <3>1. Len(taken'[d]) <= Len(Sent(d))
      BY <1>1, <1>2 DEF Added
    <3>2. ASSUME NEW i \in 1 .. Len(taken[d])
          PROVE  /\ taken'[d][i].rec = Sent(d)[i]
                 /\ taken'[d][i].result = "Decrypted" =>
                       taken'[d][i].rec.kind = "Ciphertext" /\ taken'[d][i].rec.gen \in Counted
      <4>1. taken'[d][i] = taken[d][i] /\ i \in DOMAIN taken[d]
        BY <1>1 DEF Added
      <4> QED
        BY <4>1 DEF TakenInOrder
    <3>3. result = "Decrypted" => rec.kind = "Ciphertext" /\ rec.gen \in Counted
      <4>1. result = "Decrypted" => rec.gen \in Counted
        BY CountersAfter
      <4>2. rec.gen \in Counted => rec.kind = "Ciphertext"
        BY DEF Record, Counted, Generation
      <4> QED
        BY <4>1, <4>2
    <3>4. \A i \in DOMAIN taken'[d] : i \in 1 .. Len(taken[d]) \/ i = Len(taken[d]) + 1
      BY <1>1 DEF Added
    <3>5. /\ taken'[d][Len(taken[d]) + 1].rec = Sent(d)[Len(taken[d]) + 1]
          /\ taken'[d][Len(taken[d]) + 1].rec = rec
          /\ taken'[d][Len(taken[d]) + 1].result = result
      BY <1>1, <1>2 DEF Added
    <3> QED
      BY <2>1, <2>3, <3>1, <3>2, <3>3, <3>4, <3>5
  <2> QED
    BY <2>2, <2>3
<1> QED
  BY <1>3, <1>4

\* Keys in a good cache are of a secret the snapshot has.
LEMMA GoodSound ==
    ASSUME Typed, CacheSound, NEW d \in Direction, NEW K, Good(d, K), NEW c \in DOMAIN K
    PROVE  /\ client_random = "ClientHello"
           /\ K[c] > 0 /\ K[c] <= WholeLen
           /\ keylog >= 0 => K[c] <= secret_for(LabelOf(d, c[1]))
           /\ c[1] # "Tls12" /\ c[2] = session.suite => K[c] = WholeLen
<1>1. K[c] = KeysFor(d, c) /\ c \in Candidate /\ (c \in DOMAIN keys[d] \/ HasKeys(d, c))
  BY DEF Good, Caches
<1>2. CASE c \in DOMAIN keys[d]
  BY <1>1, <1>2 DEF CacheSound, KeysFor
<1>3. CASE c \notin DOMAIN keys[d]
  <2>1. K[c] = secret_for(LabelOf(d, c[1])) /\ c[1] \in Counted
    BY <1>1, <1>3 DEF KeysFor, Candidate
  <2>2. K[c] > 0 /\ (c[1] # "Tls12" => K[c] >= HashLen(c[2]))
    BY <1>1, <1>3, <2>1 DEF HasKeys, derive
  <2>3. /\ K[c] \in Nat /\ K[c] <= WholeLen
        /\ client_random = "ClientHello"
        /\ c[1] # "Tls12" => session.version = "TLS13"
    BY <2>1, <2>2, SecretForValue
  <2>4. c[1] # "Tls12" /\ c[2] = session.suite => WholeLen = HashLen(c[2])
    BY <2>3, WholeLenType DEF Typed
  <2>5. WholeLen \in Nat
    BY WholeLenType DEF Typed
  <2> QED
    BY <2>1, <2>2, <2>3, <2>4, <2>5
<1> QED
  BY <1>2, <1>3

\* CacheSound and UsedIsCached.
LEMMA CacheKept ==
    ASSUME Typed, CacheSound, UsedIsCached, NEW d \in Direction, NEW rec \in Record,
           NEW result \in Result, Taking(d, rec, result)
    PROVE  CacheSound' /\ UsedIsCached'
<1>1. session' = session /\ keylog' = keylog /\ WholeLen' = WholeLen
  BY SessionFixed DEF Taking
<1>2. keys' \in [Direction -> Caches] /\ \A x \in Direction : Good(x, keys'[x])
  BY CachesAfter
<1>3. /\ client_random # None => client_random' = client_random
      /\ server_random # None => server_random' = server_random
  BY RandomsKept
<1>4. CacheSound'
  <2> SUFFICES ASSUME NEW x \in Direction, NEW c \in DOMAIN keys'[x]
               PROVE  /\ client_random' = "ClientHello"
                      /\ keys'[x][c] > 0 /\ keys'[x][c] <= WholeLen'
                      /\ keylog' >= 0 => keys'[x][c] <= secret_for(LabelOf(x, c[1]))'
                      /\ c[1] # "Tls12" /\ c[2] = session'.suite => keys'[x][c] = WholeLen'
    BY DEF CacheSound
  <2>1. PICK K : K = keys'[x] /\ Good(x, K) /\ c \in DOMAIN K
    BY <1>2
  <2>2. /\ client_random = "ClientHello"
        /\ K[c] > 0 /\ K[c] <= WholeLen
        /\ keylog >= 0 => K[c] <= secret_for(LabelOf(x, c[1]))
        /\ c[1] # "Tls12" /\ c[2] = session.suite => K[c] = WholeLen
    BY <2>1, GoodSound
  <2>3. client_random' = "ClientHello"
    BY <1>3, <2>2, NoneAssumption
  <2>4. /\ K[c] \in Nat /\ c[1] \in Counted
    BY <2>1 DEF Good, Caches, Candidate
  <2>5. PICK label : label = LabelOf(x, c[1])
    OBVIOUS
  <2>7. session \in Session /\ keylog \in Int /\ keylog >= -1
    BY DEF Typed
  <2>8. secret_for(label) <= secret_for(label)' /\ secret_for(label)' \in Nat
    BY <1>1, <2>3, <2>7, SecretGrows
  <2>9. secret_for(label) \in Nat
    BY <2>4, <2>5, SecretForValue
  <2>10. secret_for(LabelOf(x, c[1]))' = secret_for(label)'
    BY <2>5 DEF LabelOf
  <2>12. keylog' >= 0 => keys'[x][c] <= secret_for(LabelOf(x, c[1]))'
    BY <1>1, <2>1, <2>2, <2>4, <2>5, <2>8, <2>9, <2>10
  <2> QED
    BY <1>1, <2>1, <2>2, <2>3, <2>12
<1>5. UsedIsCached'
  <2> SUFFICES ASSUME NEW x \in Direction, NEW g \in Counted, seq'[x][g] > 0
               PROVE  /\ <<g, session.suite>> \in DOMAIN keys'[x]
                      /\ keys'[x][<<g, session.suite>>] = WholeLen
                      /\ g = "Tls12" => server_random' = "ServerHello"
    BY <1>1 DEF UsedIsCached
  <2>1. CASE seq[x][g] > 0
    <3>1. /\ <<g, session.suite>> \in DOMAIN keys[x]
          /\ keys[x][<<g, session.suite>>] = WholeLen
          /\ g = "Tls12" => server_random = "ServerHello"
      BY <2>1 DEF UsedIsCached
    <3>2. PICK K : K = keys'[x] /\ Good(x, K)
      BY <1>2
    <3>3. /\ <<g, session.suite>> \in DOMAIN K /\ K[<<g, session.suite>>] = WholeLen
      BY <3>1, <3>2 DEF Good, KeysFor
    <3> QED
      BY <1>3, <3>1, <3>2, <3>3, NoneAssumption
  <2>2. CASE ~(seq[x][g] > 0)
    <3>1. seq'[x][g] # seq[x][g]
      BY <2>2
    <3>2. /\ x = d /\ rec.gen = g /\ Opens(d, Own(rec), rec) /\ Own(rec) \in DOMAIN keys'[d]
          /\ server_random' = server_random
      BY <3>1, CountersAfter
    <3>3. Own(rec) = <<g, session.suite>>
      BY <3>2 DEF Own
    <3>4. KeysFor(d, Own(rec)) = WholeLen /\ (g = "Tls12" => server_random = "ServerHello")
      BY <3>2, <3>3 DEF Opens
    <3>5. keys'[d][Own(rec)] = KeysFor(d, Own(rec))
      BY <1>2, <3>2 DEF Good
    <3> QED
      BY <3>2, <3>3, <3>4, <3>5
  <2> QED
    BY <2>1, <2>2
<1> QED
  BY <1>4, <1>5

\* OpensOnlyInSequence.
LEMMA SequenceKept ==
    ASSUME Typed, OpensOnlyInSequence, NEW d \in Direction, NEW rec \in Record,
           NEW result \in Result, Taking(d, rec, result)
    PROVE  OpensOnlyInSequence'
<1>1. Added(d, rec, result)
  BY AddedBy DEF Taking
<1>2. seq \in [Direction -> [Counted -> Nat]] /\ seq' \in [Direction -> [Counted -> Nat]]
  BY CountersAfter DEF Typed
<1> SUFFICES ASSUME NEW x \in Direction, NEW g \in Counted
             PROVE  {taken'[x][i].rec.n : i \in {j \in DOMAIN taken'[x] :
                          taken'[x][j].result = "Decrypted" /\ taken'[x][j].rec.gen = g}}
                      = 0 .. seq'[x][g] - 1
  BY <1>2 DEF OpensOnlyInSequence
<1> DEFINE D == {j \in DOMAIN taken[x] : taken[x][j].result = "Decrypted" /\ taken[x][j].rec.gen = g}
           E == {j \in DOMAIN taken'[x] : taken'[x][j].result = "Decrypted" /\ taken'[x][j].rec.gen = g}
<1>3. {taken[x][i].rec.n : i \in D} = 0 .. seq[x][g] - 1
  BY <1>2 DEF OpensOnlyInSequence
<1>4. CASE x # d
  <2>1. taken'[x] = taken[x]
    BY <1>1, <1>4 DEF Added
  <2>2. seq'[x][g] = seq[x][g]
    BY <1>4, CountersAfter
  <2>3. E = D
    BY <2>1, Zenon
  <2> QED
    BY <1>3, <2>1, <2>2, <2>3
<1>5. CASE x = d
  <2> DEFINE p == Len(taken[d]) + 1
  <2>1. /\ DOMAIN taken[d] = 1 .. p - 1 /\ DOMAIN taken'[d] = 1 .. p /\ p \in Nat \ {0}
        /\ \A j \in 1 .. p - 1 : taken'[d][j] = taken[d][j]
        /\ taken'[d][p].rec = rec /\ taken'[d][p].result = result
    BY <1>1 DEF Added
  <2> HIDE DEF p
  <2>2. D \subseteq 1 .. p - 1 /\ \A i \in D : taken'[x][i].rec.n = taken[x][i].rec.n
    BY <1>5, <2>1
  <2>3. CASE result = "Decrypted" /\ rec.gen = g
    <3>1. Opens(d, Own(rec), rec) /\ seq'[d][g] = seq[d][g] + 1
      BY <2>3, CountersAfter
    <3>2. rec.n = seq[d][g]
      BY <2>3, <3>1 DEF Opens, Own
    <3>3. E = D \union {p}
      <4>1. \A j \in E : j \in D \/ j = p
        BY <1>5, <2>1
      <4>2. \A j \in D : j \in E
        BY <1>5, <2>1
      <4>3. p \in E
        BY <1>5, <2>1, <2>3
      <4> HIDE DEF D, E
      <4> QED
        BY <4>1, <4>2, <4>3
    <3>4. {taken'[x][i].rec.n : i \in E} = {taken[x][i].rec.n : i \in D} \union {rec.n}
      <4>1. \A i \in E : i \in D \/ i = p
        BY <3>3
      <4>2. taken'[x][p].rec.n = rec.n /\ p \in E /\ \A i \in D : i \in E
        BY <1>5, <2>1, <3>3
      <4> HIDE DEF D, E
      <4> QED
        BY <2>2, <4>1, <4>2
    <3>5. 0 .. (seq[d][g] + 1) - 1 = (0 .. seq[d][g] - 1) \union {seq[d][g]}
      <4>1. seq[d][g] \in Nat
        BY <1>2
      <4> QED
        BY <4>1
    <3> HIDE DEF D, E
    <3>6. {taken'[x][i].rec.n : i \in E} = 0 .. seq'[x][g] - 1
      BY <1>3, <1>5, <3>1, <3>2, <3>4, <3>5
    <3> QED
      BY <3>6 DEF E
  <2>4. CASE ~(result = "Decrypted" /\ rec.gen = g)
    <3>1. seq'[d][g] = seq[d][g]
      BY <2>4, CountersAfter
    <3>2. E = D
      BY <1>5, <2>1, <2>4
    <3> HIDE DEF D, E
    <3>3. {taken'[x][i].rec.n : i \in E} = {taken[x][i].rec.n : i \in D}
      BY <2>2, <3>2
    <3>4. {taken'[x][i].rec.n : i \in E} = 0 .. seq'[x][g] - 1
      BY <1>3, <1>5, <3>1, <3>3
    <3> QED
      BY <3>4 DEF E
  <2> QED
    BY <2>3, <2>4
<1> QED
  BY <1>4, <1>5

\* What was taken for a ServerHello stays so.
LEMMA LossKept ==
    ASSUME NEW d \in Direction, NEW rec, NEW result, Added(d, rec, result),
           NEW x \in Direction, NEW k \in DOMAIN taken[x], TakenForServerHello(x, k)
    PROVE  TakenForServerHello(x, k)'
<1>1. taken[x] = taken'[x] \/ (x = d /\ k \in 1 .. Len(taken[d]) /\ Len(taken[d]) \in Nat)
  BY DEF Added
<1>2. taken'[x][k] = taken[x][k] /\ \A h \in 1 .. k - 1 : taken'[x][h] = taken[x][h]
  BY <1>1 DEF Added
<1> QED
  BY <1>2 DEF TakenForServerHello

\* A ciphertext that is not put through decrypt, with the ClientHello known, is
\* taken for the ServerHello.
LEMMA LossBegins ==
    ASSUME Typed, HelloUnknown, NEW d \in Direction, NEW rec \in Record, NEW result \in Result,
           Added(d, rec, result), Passing(d, rec, result), rec.kind = "Ciphertext",
           client_random # None, NEW p \in Nat, p = Len(taken[d]) + 1
    PROVE  TakenForServerHello(d, p)'
<1>1. d = "s2c" /\ server_random = None /\ result = "PlaintextHandshake"
  BY DEF Passing
<1>2. /\ taken'[d][p].rec = rec /\ taken'[d][p].result = result
      /\ \A h \in 1 .. p - 1 : h \in DOMAIN taken[d] /\ taken'[d][h] = taken[d][h]
  BY DEF Added
<1>3. \A h \in 1 .. p - 1 : taken'[d][h].rec.kind = "ServerHello" =>
                               taken'[d][h].result \in {"NoClientHello", "Missed"}
  BY <1>1, <1>2 DEF HelloUnknown
<1> QED
  BY <1>1, <1>2, <1>3 DEF TakenForServerHello

\* HelloUnknown.
LEMMA HelloKept ==
    ASSUME Typed, HelloUnknown, NEW d \in Direction, NEW rec \in Record, NEW result \in Result,
           Taking(d, rec, result)
    PROVE  HelloUnknown'
<1>1. Added(d, rec, result)
  BY AddedBy DEF Taking
<1> SUFFICES ASSUME server_random' = None, NEW h \in DOMAIN taken'["s2c"],
                    taken'["s2c"][h].rec.kind = "ServerHello"
             PROVE  taken'["s2c"][h].result \in {"NoClientHello", "Missed"}
  BY DEF HelloUnknown
<1>2. server_random = None
  BY RandomsKept
<1>3. CASE d # "s2c"
  <2>1. taken'["s2c"] = taken["s2c"]
    BY <1>1, <1>3 DEF Added, Direction
  <2> QED
    BY <1>2, <2>1 DEF HelloUnknown
<1>4. CASE d = "s2c" /\ h \in 1 .. Len(taken[d])
  <2>1. taken'["s2c"][h] = taken["s2c"][h] /\ h \in DOMAIN taken["s2c"]
    BY <1>1, <1>4 DEF Added
  <2> QED
    BY <1>2, <2>1 DEF HelloUnknown
<1>5. CASE d = "s2c" /\ h = Len(taken[d]) + 1
  <2>1. rec.kind = "ServerHello" /\ taken'["s2c"][h].result = result
    BY <1>1, <1>5 DEF Added
  <2>2. ~HelloFirst(d, rec)
    BY <1>2, <1>5, <2>1 DEF HelloFirst
  <2>3. ~\E K \in Caches : Opening(d, rec, K)
    BY <2>1 DEF Opening, Record, Counted, Generation
  <2>4. Passing(d, rec, result)
    BY <2>2, <2>3 DEF Taking
  <2> QED
    BY <1>5, <2>1, <2>4 DEF Passing
<1>6. d = "s2c" => h \in 1 .. Len(taken[d]) \/ h = Len(taken[d]) + 1
  <2>1. d = "s2c" => h \in 1 .. Len(taken[d]) + 1 /\ Len(taken[d]) \in Nat
    BY <1>1, Zenon DEF Added
  <2> QED
    BY <2>1
<1> QED
  BY <1>3, <1>4, <1>5, <1>6

\* A ciphertext of a secret whose counter has begun is opened, if the keylog has
\* not been begun again, or a ciphertext was taken for the ServerHello.
LEMMA CountedIsOpened ==
    ASSUME Typed, TakenInOrder, CacheSound, UsedIsCached, OpensOnlyInSequence, HelloUnknown, InStep,
           NEW d \in Direction, NEW rec \in Record, NEW result \in Result,
           Taking(d, rec, result), rec.kind = "Ciphertext", rec.gen \in Counted,
           seq[d][rec.gen] > 0, keylog >= 0, NEW p \in Nat, p = Len(taken[d]) + 1
    PROVE  \/ result = "Decrypted"
           \/ TakenForServerHello(d, p)'
           \/ \E k \in Earlier(d, rec.gen) : TakenForServerHello(d, k)
<1> SUFFICES ASSUME \A k \in Earlier(d, rec.gen) : ~TakenForServerHello(d, k)
             PROVE  result = "Decrypted" \/ TakenForServerHello(d, p)'
  OBVIOUS
<1>1. Len(taken[d]) + 1 <= Len(Sent(d)) /\ rec = Sent(d)[Len(taken[d]) + 1]
  BY DEF Taking
<1>2. Opens(d, Own(rec), rec)
  BY <1>1, InStepOpens
<1>3. client_random = "ClientHello"
  <2>1. HasKeys(d, Own(rec)) /\ Own(rec)[1] = rec.gen
    BY <1>2 DEF Opens, Own
  <2>2. secret_for(LabelOf(d, rec.gen)) > 0
    BY <2>1 DEF HasKeys
  <2> QED
    BY <2>2, SecretForValue
<1>4. ~\E K \in Caches : Refusing(d, rec, K, result)
  BY <1>2 DEF Refusing
<1>5. CASE Passing(d, rec, result)
  <2>1. Added(d, rec, result) /\ client_random # None
    BY <1>3, AddedBy, NoneAssumption DEF Taking
  <2> QED
    BY <1>5, <2>1, LossBegins
<1> QED
  BY <1>4, <1>5 DEF Taking

\* InStep.
LEMMA InStepKept ==
    ASSUME Typed, TakenInOrder, CacheSound, UsedIsCached, OpensOnlyInSequence, HelloUnknown, InStep,
           NEW d \in Direction, NEW rec \in Record, NEW result \in Result,
           Taking(d, rec, result)
    PROVE  InStep'
<1>1. Added(d, rec, result) /\ keylog' = keylog
  BY AddedBy DEF Taking
<1> SUFFICES ASSUME keylog >= 0,
                    NEW x \in Direction, NEW g \in Counted, seq'[x][g] > 0,
                    NEW j \in DOMAIN taken'[x],
                    taken'[x][j].rec.kind = "Ciphertext", taken'[x][j].rec.gen = g
             PROVE  taken'[x][j].result = "Decrypted" \/ LostBy(x, j)'
  BY <1>1 DEF InStep
<1>2. seq \in [Direction -> [Counted -> Nat]]
  BY DEF Typed
<1>3. ASSUME NEW k \in DOMAIN taken'[x], k \in 1 .. j, TakenForServerHello(x, k)',
             taken'[x][k].rec.gen = g
      PROVE  LostBy(x, j)'
  <2>1. taken'[x][k].rec.kind = "Ciphertext"
    BY <1>3 DEF TakenForServerHello
  <2> QED
    BY <1>3, <2>1 DEF LostBy, SameSecret
<1>4. ASSUME j \in DOMAIN taken[x], taken'[x][j] = taken[x][j], seq[x][g] > 0
      PROVE  taken'[x][j].result = "Decrypted" \/ LostBy(x, j)'
  <2>1. taken[x][j].result = "Decrypted" \/ LostBy(x, j)
    BY <1>4 DEF InStep
  <2>2. CASE LostBy(x, j)
    <3>1. PICK k \in 1 .. j : SameSecret(x, k, j) /\ TakenForServerHello(x, k)
      BY <2>2 DEF LostBy
    <3>2. k \in DOMAIN taken[x] /\ k \in DOMAIN taken'[x] /\ taken'[x][k] = taken[x][k]
      <4>1. taken[x] \in Seq(Taken) /\ k \in DOMAIN taken[x]
        BY <1>4 DEF Typed
      <4>2. x # d => taken'[x] = taken[x]
        BY <1>1 DEF Added
      <4>3. x = d => k \in 1 .. Len(taken[d]) /\ k \in DOMAIN taken'[d] /\ taken'[d][k] = taken[d][k]
        BY <1>1, <4>1 DEF Added
      <4> QED
        BY <4>1, <4>2, <4>3
    <3>3. TakenForServerHello(x, k)'
      BY <1>1, <3>1, <3>2, LossKept
    <3>4. taken'[x][k].rec.gen = g
      BY <1>4, <3>1, <3>2 DEF SameSecret
    <3> QED
      BY <1>3, <3>2, <3>3, <3>4
  <2> QED
    BY <1>4, <2>1, <2>2
<1>5. CASE x # d
  <2>1. taken'[x] = taken[x] /\ seq'[x][g] = seq[x][g]
    BY <1>1, <1>5, CountersAfter DEF Added
  <2> QED
    BY <1>4, <2>1
<1>6. CASE x = d /\ j \in 1 .. Len(taken[d])
  <2>1. taken'[x][j] = taken[x][j] /\ j \in DOMAIN taken[x]
    BY <1>1, <1>6 DEF Added
  <2>2. CASE seq[x][g] > 0
    BY <1>4, <2>1, <2>2
  <2>3. CASE ~(seq[x][g] > 0)
    <3>1. seq[x][g] = 0 /\ seq'[x][g] # seq[x][g]
      BY <1>2, <2>3
    <3>2. rec.gen = g /\ Opens(d, Own(rec), rec)
      BY <1>6, <3>1, CountersAfter
    <3>3. rec.n = 0
      BY <1>6, <3>1, <3>2 DEF Opens, Own
    <3>4. rec.kind = "Ciphertext"
      BY <3>2 DEF Record, Counted, Generation
    <3>5. {taken[d][q].rec.n : q \in Earlier(d, rec.gen)} = 0 .. rec.n - 1
      BY <3>4, NumberOfNext DEF Taking
    <3>6. 0 .. rec.n - 1 = {}
      BY <3>3
    <3>7. j \in Earlier(d, rec.gen)
      BY <1>6, <2>1, <3>2 DEF Earlier
    <3> QED
      BY <3>5, <3>6, <3>7
  <2> QED
    BY <2>2, <2>3
<1>7. CASE x = d /\ j = Len(taken[d]) + 1
  <2>1. taken'[x][j].rec = rec /\ taken'[x][j].result = result /\ j \in Nat
    BY <1>1, <1>7 DEF Added
  <2>2. CASE seq[x][g] > 0
    <3>1. \/ result = "Decrypted"
          \/ TakenForServerHello(d, j)'
          \/ \E k \in Earlier(d, rec.gen) : TakenForServerHello(d, k)
      BY <1>7, <2>1, <2>2, CountedIsOpened
    <3>2. CASE TakenForServerHello(d, j)'
      BY <1>3, <1>7, <2>1, <3>2
    <3>3. ASSUME NEW k \in Earlier(d, rec.gen), TakenForServerHello(d, k) PROVE LostBy(x, j)'
      <4>1. /\ k \in DOMAIN taken[d] /\ k \in DOMAIN taken'[d] /\ taken'[d][k] = taken[d][k]
            /\ k \in 1 .. j /\ taken[d][k].rec.gen = g
        BY <1>1, <1>7, <2>1, <3>3 DEF Earlier, Added
      <4>2. TakenForServerHello(d, k)'
        BY <1>1, <3>3, <4>1, LossKept
      <4> QED
        BY <1>3, <1>7, <4>1, <4>2
    <3> QED
      BY <2>1, <3>1, <3>2, <3>3
  <2>3. CASE ~(seq[x][g] > 0)
    <3>1. seq'[x][g] # seq[x][g]
      BY <2>3
    <3> QED
      BY <2>1, <3>1, CountersAfter
  <2> QED
    BY <2>2, <2>3
<1>8. x = d => j \in 1 .. Len(taken[d]) \/ j = Len(taken[d]) + 1
  BY <1>1 DEF Added
<1> QED
  BY <1>5, <1>6, <1>7, <1>8

\* StaysInSync.
LEMMA SyncStays ==
    ASSUME Typed, TakenInOrder, CacheSound, UsedIsCached, OpensOnlyInSequence, HelloUnknown, InStep,
           StaysInSync, NEW d \in Direction, NEW rec \in Record, NEW result \in Result,
           Taking(d, rec, result)
    PROVE  StaysInSync'
<1>1. Added(d, rec, result)
  BY AddedBy DEF Taking
<1> SUFFICES ASSUME NEW x \in Direction,
                    NEW i \in DOMAIN taken'[x], NEW j \in DOMAIN taken'[x],
                    i < j, SameSecret(x, i, j)',
                    taken'[x][i].result = "Decrypted", taken'[x][j].keyed
             PROVE  \/ taken'[x][j].result = "Decrypted"
                    \/ \E k \in i + 1 .. j : SameSecret(x, i, k)' /\ TakenForServerHello(x, k)'
  BY DEF StaysInSync
<1>2. /\ taken'[x][i].rec.kind = "Ciphertext" /\ taken'[x][j].rec.kind = "Ciphertext"
      /\ taken'[x][i].rec.gen = taken'[x][j].rec.gen
  BY DEF SameSecret
<1>3. ASSUME i \in DOMAIN taken[x], j \in DOMAIN taken[x],
             taken'[x][i] = taken[x][i], taken'[x][j] = taken[x][j],
             taken[x][j].result # "Decrypted"
      PROVE  \E k \in i + 1 .. j : SameSecret(x, i, k)' /\ TakenForServerHello(x, k)'
  <2>1. SameSecret(x, i, j)
    BY <1>2, <1>3 DEF SameSecret
  <2>2. PICK k \in i + 1 .. j : SameSecret(x, i, k) /\ TakenForServerHello(x, k)
    BY <1>3, <2>1 DEF StaysInSync
  <2>3. k \in DOMAIN taken[x] /\ taken'[x][k] = taken[x][k]
    <3>1. taken[x] \in Seq(Taken) /\ k \in DOMAIN taken[x]
      BY <1>3, <2>2 DEF Typed
    <3> QED
      BY <1>1, <3>1 DEF Added
  <2>4. SameSecret(x, i, k)'
    BY <1>3, <2>2, <2>3 DEF SameSecret
  <2>5. TakenForServerHello(x, k)'
    BY <1>1, <2>2, <2>3, LossKept
  <2> QED
    BY <2>2, <2>4, <2>5
<1>4. CASE x # d
  <2>1. taken'[x] = taken[x]
    BY <1>1, <1>4 DEF Added
  <2> QED
    BY <1>3, <2>1
<1>5. CASE x = d /\ j \in 1 .. Len(taken[d])
  <2>1. i \in 1 .. Len(taken[d])
    BY <1>1, <1>5 DEF Added
  <2>2. /\ taken'[x][j] = taken[x][j] /\ j \in DOMAIN taken[x]
        /\ taken'[x][i] = taken[x][i] /\ i \in DOMAIN taken[x]
    BY <1>1, <1>5, <2>1 DEF Added
  <2> QED
    BY <1>3, <2>2
<1>6. CASE x = d /\ j = Len(taken[d]) + 1
  <2>1. /\ taken'[d][j].rec = rec /\ taken'[d][j].result = result
        /\ taken'[d][j].keyed <=> Keyed(d, rec)
        /\ i \in 1 .. Len(taken[d]) /\ j \in Nat
    BY <1>1, <1>6 DEF Added
  <2>2. taken'[d][i] = taken[d][i] /\ i \in DOMAIN taken[d]
    BY <1>1, <2>1 DEF Added
  <2>3. Keyed(d, rec)
    BY <1>6, <2>1
  <2>4. rec.gen \in Counted /\ rec.kind = "Ciphertext" /\ taken[d][i].rec.gen = rec.gen
    BY <1>2, <1>6, <2>1, <2>2 DEF TakenInOrder
  <2>5. secret_for(LabelOf(d, rec.gen)) > 0
    BY <2>3, WholeLenType DEF Keyed, Typed
  <2>6. keylog >= 0
    BY <2>4, <2>5, SecretForValue
  <2>7. seq[d][rec.gen] > 0
    <3>1. DOMAIN seq[d] = Counted /\ seq[d][rec.gen] \in Nat
      BY <2>4 DEF Typed
    <3>2. taken[d][i].rec.n \in 0 .. seq[d][rec.gen] - 1
      BY <1>6, <2>2, <2>4, <3>1 DEF OpensOnlyInSequence
    <3> QED
      BY <3>1, <3>2
  <2>8. \/ result = "Decrypted"
        \/ TakenForServerHello(d, j)'
        \/ \E k \in Earlier(d, rec.gen) : TakenForServerHello(d, k)
    BY <1>6, <2>1, <2>4, <2>6, <2>7, CountedIsOpened
  <2>9. CASE TakenForServerHello(d, j)'
    <3>1. j \in i + 1 .. j
      BY <1>6, <2>1
    <3> QED
      BY <1>6, <2>9, <3>1
  <2>10. ASSUME NEW k \in Earlier(d, rec.gen), TakenForServerHello(d, k)
         PROVE  k \in i + 1 .. j /\ SameSecret(d, i, k)' /\ TakenForServerHello(d, k)'
    <3>1. /\ k \in DOMAIN taken[d] /\ taken'[d][k] = taken[d][k]
          /\ k \in 1 .. Len(taken[d]) /\ Len(taken[d]) \in Nat
          /\ taken[d][k].rec.gen = rec.gen /\ taken[d][k].rec.kind = "Ciphertext"
      BY <1>1 DEF Earlier, Added
    <3>2. taken[d][k].result # "Decrypted"
      BY <2>10 DEF TakenForServerHello
    <3>3. taken[d][i].rec.kind = "Ciphertext" /\ taken[d][i].result = "Decrypted"
      BY <1>2, <1>6, <2>2
    <3>4. SameSecret(d, k, i)
      BY <2>4, <3>1, <3>3 DEF SameSecret
    <3>5. ~(k < i)
      BY <2>2, <3>1, <3>2, <3>3, <3>4, OpenedInOrder
    <3>6. k # i
      BY <3>2, <3>3
    <3>7. k \in i + 1 .. j
      BY <1>6, <2>1, <3>1, <3>5, <3>6
    <3>8. SameSecret(d, i, k)'
      BY <2>2, <2>4, <3>1, <3>3 DEF SameSecret
    <3>9. TakenForServerHello(d, k)'
      BY <1>1, <2>10, <3>1, LossKept
    <3> QED
      BY <3>7, <3>8, <3>9
  <2> QED
    BY <1>6, <2>1, <2>8, <2>9, <2>10
<1>7. x = d => j \in 1 .. Len(taken[d]) \/ j = Len(taken[d]) + 1
  <2>1. x = d => j \in 1 .. Len(taken[d]) + 1 /\ Len(taken[d]) \in Nat
    BY <1>1, Zenon DEF Added
  <2> QED
    BY <2>1
<1> QED
  BY <1>4, <1>5, <1>6, <1>7

\* FirstRecordOpens.
LEMMA FirstKept ==
    ASSUME Typed, TakenInOrder, CacheSound, OpensOnlyInSequence, HelloUnknown, FirstRecordOpens,
           NEW d \in Direction, NEW rec \in Record, NEW result \in Result,
           Taking(d, rec, result)
    PROVE  FirstRecordOpens'
<1>1. Added(d, rec, result)
  BY AddedBy DEF Taking
<1>2. session' = session /\ WholeLen' = WholeLen
  BY SessionFixed DEF Taking
<1>3. ASSUME NEW x \in Direction, Poisoned(x) PROVE Poisoned(x)'
  <2>1. PICK c \in DOMAIN keys[x] : c[1] = "Tls12" /\ keys[x][c] < WholeLen
    BY <1>3 DEF Poisoned
  <2>2. PICK K : K = keys'[x] /\ Good(x, K)
    BY CachesAfter
  <2>3. c \in DOMAIN K /\ K[c] = keys[x][c]
    BY <2>1, <2>2 DEF Good, KeysFor
  <2> QED
    BY <1>2, <2>1, <2>2, <2>3 DEF Poisoned
<1> SUFFICES ASSUME NEW x \in Direction, NEW j \in DOMAIN taken'[x],
                    FirstUnderSecret(x, j)', taken'[x][j].keyed
             PROVE  \/ taken'[x][j].result = "Decrypted"
                    \/ session.version = "TLS12" /\ Poisoned(x)
                    \/ TakenForServerHello(x, j)'
  BY <1>2, <1>3 DEF FirstRecordOpens
<1>4. /\ taken'[x][j].rec.kind = "Ciphertext"
      /\ \A i \in 1 .. j - 1 : ~(/\ taken'[x][i].rec.kind = "Ciphertext"
                                 /\ taken'[x][j].rec.kind = "Ciphertext"
                                 /\ taken'[x][i].rec.gen = taken'[x][j].rec.gen)
  BY DEF FirstUnderSecret, SameSecret
<1>5. ASSUME j \in DOMAIN taken[x], taken'[x][j] = taken[x][j], FirstUnderSecret(x, j)
      PROVE  \/ taken'[x][j].result = "Decrypted"
             \/ session.version = "TLS12" /\ Poisoned(x)
             \/ TakenForServerHello(x, j)'
  <2>1. \/ taken[x][j].result = "Decrypted"
        \/ session.version = "TLS12" /\ Poisoned(x)
        \/ TakenForServerHello(x, j)
    BY <1>5 DEF FirstRecordOpens
  <2>2. TakenForServerHello(x, j) => TakenForServerHello(x, j)'
    BY <1>1, <1>5, LossKept
  <2> QED
    BY <1>5, <2>1, <2>2
<1>6. CASE x # d
  <2>1. taken'[x] = taken[x]
    BY <1>1, <1>6 DEF Added
  <2>2. FirstUnderSecret(x, j)
    BY <1>4, <2>1 DEF FirstUnderSecret, SameSecret
  <2> QED
    BY <1>5, <2>1, <2>2
<1>7. CASE x = d /\ j \in 1 .. Len(taken[d])
  <2>1. taken'[x][j] = taken[x][j] /\ j \in DOMAIN taken[x]
    BY <1>1, <1>7 DEF Added
  <2>2. \A i \in 1 .. j - 1 : taken'[x][i] = taken[x][i]
    BY <1>1, <1>7 DEF Added
  <2>3. FirstUnderSecret(x, j)
    BY <1>4, <2>1, <2>2 DEF FirstUnderSecret, SameSecret
  <2> QED
    BY <1>5, <2>1, <2>3
<1>8. CASE x = d /\ j = Len(taken[d]) + 1
  <2>1. /\ taken'[d][j].rec = rec /\ taken'[d][j].result = result /\ j \in Nat
        /\ taken'[d][j].keyed <=> Keyed(d, rec)
        /\ \A i \in 1 .. Len(taken[d]) : taken'[d][i] = taken[d][i] /\ i \in 1 .. j - 1
    BY <1>1, <1>8 DEF Added
  <2>2. Keyed(d, rec) /\ rec.kind = "Ciphertext"
    BY <1>4, <1>8, <2>1
  <2>3. CASE result = "Decrypted"
    BY <1>8, <2>1, <2>3
  <2>4. CASE \E K \in Caches : Refusing(d, rec, K, result)
    <3>1. Earlier(d, rec.gen) = {}
      BY <1>4, <1>8, <2>1 DEF Earlier
    <3>2. rec.gen \in Counted => ~Opens(d, Own(rec), rec)
      BY <2>2, <2>4 DEF Refusing
    <3>3. Len(taken[d]) + 1 <= Len(Sent(d)) /\ rec = Sent(d)[Len(taken[d]) + 1]
      BY DEF Taking
    <3> QED
      BY <1>8, <2>2, <3>1, <3>2, <3>3, FirstOpens
  <2>5. CASE Passing(d, rec, result)
    <3>1. secret_for(LabelOf(d, rec.gen)) > 0
      BY <2>2, WholeLenType DEF Keyed, Typed
    <3>2. client_random # None
      BY <3>1, NoneAssumption DEF secret_for
    <3> QED
      BY <1>1, <1>8, <2>1, <2>2, <2>5, <3>2, LossBegins
  <2> QED
    BY <2>3, <2>4, <2>5 DEF Taking
<1>9. x = d => j \in 1 .. Len(taken[d]) \/ j = Len(taken[d]) + 1
  <2>1. x = d => j \in 1 .. Len(taken[d]) + 1 /\ Len(taken[d]) \in Nat
    BY <1>1, Zenon DEF Added
  <2> QED
    BY <2>1
<1> QED
  BY <1>6, <1>7, <1>8, <1>9
-----------------------------------------------------------------------------
(* The theorems.                                                           *)

\* At the start, whether or not the capture has the hellos.
LEMMA InitInv == Init => Inv
<1> SUFFICES ASSUME Init PROVE Inv
  OBVIOUS
<1>1. /\ session \in Session /\ keylog = 0 /\ client_random = None /\ server_random = None
      /\ seq = [d \in Direction |-> [g \in Counted |-> 0]]
      /\ keys = [d \in Direction |-> [c \in {} |-> 0]]
  BY SessionsAssumption DEF Init, Counted
<1>2. ASSUME NEW d \in Direction
      PROVE  /\ taken[d] \in Seq(Taken) /\ Len(taken[d]) <= Len(Sent(d))
             /\ \A i \in DOMAIN taken[d] :
                   /\ taken[d][i].rec = Sent(d)[i] /\ taken[d][i].result = "Missed"
                   /\ ~taken[d][i].keyed
  <2>1. Sent(d) \in Seq(Record) /\ Len(Sent(d)) >= 3
    BY <1>1, SentOrdered
  <2>2. CASE taken = [x \in Direction |-> << >>]
    <3>1. taken[d] = << >>
      BY <2>2
    <3> QED
      BY <2>1, <3>1
  <2>3. CASE taken = [x \in Direction |-> Before(x, 3)]
    <3>1. taken[d] = [i \in 1 .. 3 |-> [rec |-> Sent(d)[i], result |-> "Missed", keyed |-> FALSE]]
      BY <2>3 DEF Before
    <3>2. \A i \in 1 .. 3 : Sent(d)[i] \in Record
      BY <2>1
    <3>3. ASSUME NEW r \in Record
          PROVE  /\ [rec |-> r, result |-> "Missed", keyed |-> FALSE] \in Taken
                 /\ [rec |-> r, result |-> "Missed", keyed |-> FALSE].rec = r
                 /\ [rec |-> r, result |-> "Missed", keyed |-> FALSE].result = "Missed"
                 /\ [rec |-> r, result |-> "Missed", keyed |-> FALSE].keyed = FALSE
      BY DEF Taken, Result
    <3>4. /\ DOMAIN taken[d] = 1 .. 3
          /\ \A i \in 1 .. 3 : /\ taken[d][i] \in Taken /\ taken[d][i].rec = Sent(d)[i]
                               /\ taken[d][i].result = "Missed" /\ ~taken[d][i].keyed
      BY <3>1, <3>2, <3>3
    <3>5. taken[d] \in Seq(Taken) /\ Len(taken[d]) = 3
      <4>1. taken[d] \in [1 .. 3 -> Taken]
        BY <3>1, <3>2, <3>3
      <4>2. PICK n \in Nat : n = 3
        OBVIOUS
      <4>3. \A f \in [1 .. n -> Taken] : f \in Seq(Taken) /\ Len(f) = n
        OBVIOUS
      <4> QED
        BY <4>1, <4>2, <4>3
    <3> QED
      BY <2>1, <3>4, <3>5
  <2> QED
    BY <2>2, <2>3 DEF Init
<1>3. taken \in [Direction -> Seq(Taken)]
  <2>1. taken = [d \in Direction |-> taken[d]]
    BY DEF Init
  <2> QED
    BY <1>2, <2>1
<1>4. keys \in [Direction -> Caches] /\ \A d \in Direction : DOMAIN keys[d] = {}
  <2>1. [c \in {} |-> 0] \in [{} -> Nat] /\ {} \in SUBSET Candidate
    OBVIOUS
  <2>2. [c \in {} |-> 0] \in Caches
    BY <2>1 DEF Caches
  <2> QED
    BY <1>1, <2>2
<1>5. seq \in [Direction -> [Counted -> Nat]] /\ \A d \in Direction, g \in Counted : seq[d][g] = 0
  BY <1>1
<1>6. Typed
  <2>1. keylog \in Int /\ keylog >= -1
    BY <1>1
  <2>2. keys \in [Direction -> UNION {[S -> Nat] : S \in SUBSET Candidate}]
    BY <1>4, Zenon DEF Caches
  <2> QED
    BY <1>1, <1>3, <1>5, <2>1, <2>2, Zenon DEF Typed
<1>7. TakenInOrder
  BY <1>2 DEF TakenInOrder
<1>8. CacheSound
  BY <1>4 DEF CacheSound
<1>9. UsedIsCached /\ InStep /\ HelloUnknown
  BY <1>2, <1>5 DEF UsedIsCached, InStep, HelloUnknown, Direction
<1>10. OpensOnlyInSequence
  <2> SUFFICES ASSUME NEW d \in Direction, NEW g \in Counted
               PROVE  {taken[d][i].rec.n : i \in {j \in DOMAIN taken[d] :
                            taken[d][j].result = "Decrypted" /\ taken[d][j].rec.gen = g}}
                        = 0 .. seq[d][g] - 1
    BY <1>5 DEF OpensOnlyInSequence
  <2>1. {j \in DOMAIN taken[d] : taken[d][j].result = "Decrypted" /\ taken[d][j].rec.gen = g} = {}
    BY <1>2
  <2> QED
    BY <1>5, <2>1
<1>11. StaysInSync
  BY <1>2 DEF StaysInSync
<1>12. FirstRecordOpens
  BY <1>2 DEF FirstRecordOpens
<1> QED
  BY <1>6, <1>7, <1>8, <1>9, <1>10, <1>11, <1>12 DEF Inv

\* When only the snapshot changes, nothing taken, cached or counted does.
LEMMA SnapshotStep ==
    ASSUME Inv, session' = session, keylog' \in Int, keylog' >= -1,
           keylog <= keylog' \/ keylog' = -1, keylog >= 0,
           UNCHANGED <<client_random, server_random, seq, keys, taken>>
    PROVE  Inv'
<1>1. WholeLen' = WholeLen /\ \A d \in Direction : Sent(d)' = Sent(d)
  BY SessionFixed
<1>2. Typed' /\ Typed
  BY DEF Inv, Typed
<1>3. TakenInOrder'
  BY <1>1 DEF Inv, TakenInOrder
<1>4. CacheSound'
  <2> SUFFICES ASSUME NEW d \in Direction, NEW c \in DOMAIN keys[d], keylog' >= 0
               PROVE  keys[d][c] <= secret_for(LabelOf(d, c[1]))'
    BY <1>1 DEF Inv, CacheSound
  <2>1. PICK label : label = LabelOf(d, c[1])
    OBVIOUS
  <2>2. keys[d][c] <= secret_for(label) /\ client_random = "ClientHello"
    BY <2>1 DEF Inv, CacheSound
  <2>3. keys[d] \in Caches
    BY <1>2 DEF Typed, Caches
  <2>4. keys[d][c] \in Nat /\ c[1] \in Counted
    BY <2>3 DEF Caches, Candidate
  <2>5. secret_for(label) \in Nat
    BY <1>2, <2>1, <2>4, SecretForValue
  <2>6. secret_for(label) <= secret_for(label)' /\ secret_for(label)' \in Nat
    BY <1>2, SecretGrows DEF Typed
  <2>7. secret_for(LabelOf(d, c[1]))' = secret_for(label)'
    BY <2>1 DEF LabelOf
  <2> QED
    BY <2>2, <2>4, <2>5, <2>6, <2>7
<1>5. UsedIsCached'
  BY <1>1 DEF Inv, UsedIsCached
<1>6. OpensOnlyInSequence'
  BY DEF Inv, OpensOnlyInSequence
<1>7. InStep' /\ HelloUnknown'
  BY DEF Inv, InStep, HelloUnknown, LostBy, SameSecret, TakenForServerHello
<1>8. StaysInSync'
  BY DEF Inv, StaysInSync, SameSecret, TakenForServerHello
<1>9. FirstRecordOpens'
  BY <1>1 DEF Inv, FirstRecordOpens, FirstUnderSecret, SameSecret, Poisoned, TakenForServerHello
<1> QED
  BY <1>2, <1>3, <1>4, <1>5, <1>6, <1>7, <1>8, <1>9 DEF Inv

\* Every step keeps the invariant.
LEMMA NextInv == Inv /\ [Next]_vars => Inv'
<1> SUFFICES ASSUME Inv, [Next]_vars PROVE Inv'
  OBVIOUS
<1>1. keylog \in Int /\ keylog >= -1 /\ Typed
  BY DEF Inv, Typed
<1>2. CASE Reload
  <2>1. KeylogLen \in Int
    BY WholeLenType, <1>1 DEF KeylogLen, Logged, Typed
  <2>2. keylog' \in Int /\ keylog <= keylog' /\ keylog >= 0
    BY <1>1, <1>2, <2>1 DEF Reload
  <2> QED
    BY <1>1, <1>2, <2>2, SnapshotStep DEF Reload
<1>3. CASE KeylogRestarts
  BY <1>1, <1>3, SnapshotStep DEF KeylogRestarts, Restarted
<1>4. ASSUME NEW d \in Direction, TakeRecord(d) PROVE Inv'
  <2>1. PICK rec \in Record, result \in Result : Taking(d, rec, result)
    BY <1>1, <1>4, TakingOf
  <2>2. Typed' /\ TakenInOrder'
    BY <2>1, TypedKept DEF Inv
  <2>3. CacheSound' /\ UsedIsCached'
    BY <2>1, CacheKept DEF Inv
  <2>4. OpensOnlyInSequence'
    BY <2>1, SequenceKept DEF Inv
  <2>5. InStep' /\ HelloUnknown'
    BY <2>1, InStepKept, HelloKept DEF Inv
  <2>6. StaysInSync'
    BY <2>1, SyncStays DEF Inv
  <2>7. FirstRecordOpens'
    BY <2>1, FirstKept DEF Inv
  <2> QED
    BY <2>2, <2>3, <2>4, <2>5, <2>6, <2>7 DEF Inv
<1>5. CASE UNCHANGED vars
  <2>1. /\ session' = session /\ keylog' = keylog /\ client_random' = client_random
        /\ server_random' = server_random /\ seq' = seq /\ keys' = keys /\ taken' = taken
    BY <1>5 DEF vars
  <2>2. /\ WholeLen' = WholeLen /\ \A d \in Direction : Sent(d)' = Sent(d)
    BY <2>1, SessionFixed
  <2>3. Typed' /\ TakenInOrder' /\ UsedIsCached' /\ OpensOnlyInSequence'
    BY <2>1, <2>2 DEF Inv, Typed, TakenInOrder, UsedIsCached, OpensOnlyInSequence
  <2>4. CacheSound'
    <3>1. \A d \in Direction : \A c \in DOMAIN keys[d] :
             secret_for(LabelOf(d, c[1]))' = secret_for(LabelOf(d, c[1]))
      BY <2>1 DEF secret_for, Logged, WholeLen, LabelOf
    <3> QED
      BY <2>1, <2>2, <3>1 DEF Inv, CacheSound
  <2>5. InStep' /\ HelloUnknown' /\ StaysInSync'
    BY <2>1 DEF Inv, InStep, HelloUnknown, StaysInSync, LostBy, SameSecret, TakenForServerHello
  <2>6. FirstRecordOpens'
    BY <2>1, <2>2 DEF Inv, FirstRecordOpens, FirstUnderSecret, SameSecret, Poisoned,
                      TakenForServerHello
  <2> QED
    BY <2>3, <2>4, <2>5, <2>6 DEF Inv
<1> QED
  BY <1>2, <1>3, <1>4, <1>5 DEF Next

\* The invariant holds throughout.
LEMMA Invariance == Spec => []Inv
<1> QED
  BY InitInv, NextInv, PTL DEF Spec

\* Spec => []OpensOnlyInSequence: decrypt never reports a record opened that the
\* peers did not encrypt, and under each secret it opens 0, 1, 2, ... with no gap
\* and no repetition, whatever the number of records, reloads and restarts.
THEOREM OpensInSequence == Spec => []OpensOnlyInSequence
<1>1. Inv => OpensOnlyInSequence
  BY DEF Inv
<1> QED
  BY <1>1, Invariance, PTL

\* Spec => []StaysInSync: a direction that decrypt has opened a record of under a
\* secret opens every later one while the keylog has the secret, up to a ciphertext
\* taken for a ServerHello that had been drained before the ClientHello.
THEOREM NeverOutOfStep == Spec => []StaysInSync
<1>1. Inv => StaysInSync
  BY DEF Inv
<1> QED
  BY <1>1, Invariance, PTL

\* Spec => []FirstRecordOpens: a secret that is whole when its first record is
\* taken opens it, but for keys TLS 1.2 derived of a part of the secret and for a
\* record taken for a ServerHello that had been drained before the ClientHello.
THEOREM WholeSecretOpens == Spec => []FirstRecordOpens
<1>1. Inv => FirstRecordOpens
  BY DEF Inv
<1> QED
  BY <1>1, Invariance, PTL

-----------------------------------------------------------------------------
(* The keylog those secrets are looked up in: its snapshot never goes      *)
(* back, for every length, number of restarts and reload interval.         *)
(* current' is reading at the one step that changes it, so the invariant   *)
(* orders current, reading and the file.                                   *)

\* What a file of the keylog's name may hold.
File == [run : Nat, len : Nat]

\* The three contents a state holds are of files, or absent.
ContentsTyped ==
    file \in File \union {Absent} /\ current \in File \union {Absent} /\ reading \in File \union {Absent}

\* What was read is an earlier state of the file, and the snapshot is earlier than
\* both: no reload is under way that would replace it by something older.
Ordered ==
    /\ NotAfter(current, file)
    /\ NotAfter(reading, file)
    /\ reading # Absent => NotAfter(current, reading)

ReloadInv == ContentsTyped /\ Ordered

\* A content is no later than itself.
LEMMA NotAfterItself ==
    ASSUME NEW a \in File \union {Absent}
    PROVE  NotAfter(a, a)
BY AbsentAssumption DEF NotAfter, File

\* Earlier than something earlier is earlier.
LEMMA NotAfterTransitive ==
    ASSUME NEW a \in File \union {Absent}, NEW b \in File \union {Absent},
           NEW c \in File \union {Absent}, NotAfter(a, b), NotAfter(b, c)
    PROVE  NotAfter(a, c)
BY AbsentAssumption DEF NotAfter, File

\* open() found no file, or read one that may have grown since.
LEMMA ReloadInitially == SourceInit => ReloadInv
<1> SUFFICES ASSUME SourceInit PROVE ReloadInv
  OBVIOUS
<1>1. file \in File \union {Absent} /\ reading = Absent
  BY DEF SourceInit, File
<1>2. CASE current = Absent
  BY <1>1, <1>2 DEF ReloadInv, ContentsTyped, Ordered, NotAfter
<1>3. CASE file # Absent /\ current \in [run : {0}, len : 0 .. file.len]
  <2>1. file.run = 0 /\ file.len \in Nat
    BY <1>3 DEF SourceInit
  <2>2. current \in File /\ current.run = 0 /\ current.len <= file.len
    BY <1>3, <2>1 DEF File
  <2>3. NotAfter(current, file)
    BY <1>3, <2>1, <2>2 DEF NotAfter
  <2> QED
    BY <1>1, <2>2, <2>3 DEF ReloadInv, ContentsTyped, Ordered, NotAfter
<1> QED
  BY <1>2, <1>3 DEF SourceInit

\* Each step of the writer leaves a later content of the file.
LEMMA WriterGoesOn ==
    ASSUME ContentsTyped, AppendSecret \/ Create \/ StartAfresh
    PROVE  /\ file' \in File /\ NotAfter(file, file')
           /\ UNCHANGED <<current, reading>>
<1>1. file' # Absent /\ file' \in File => NotAfter(Absent, file')
  BY DEF NotAfter
<1>2. CASE AppendSecret
  <2>1. file \in File
    BY <1>2 DEF AppendSecret, ContentsTyped
  <2>2. file' \in File /\ file'.run = file.run /\ file'.len = file.len + 1
    BY <1>2, <2>1 DEF AppendSecret, Write, File
  <2>3. NotAfter(file, file')
    BY <2>1, <2>2, AbsentAssumption DEF NotAfter, File
  <2> QED
    BY <1>2, <2>2, <2>3 DEF AppendSecret, Write, source
<1>3. CASE Create
  BY <1>3 DEF Create, Write, source, File, NotAfter
<1>4. CASE StartAfresh
  <2>1. file \in File
    BY <1>4 DEF StartAfresh, ContentsTyped
  <2>2. file' \in File /\ file'.run = file.run + 1
    BY <1>4, <2>1 DEF StartAfresh, Write, File
  <2>3. NotAfter(file, file')
    BY <2>1, <2>2, AbsentAssumption DEF NotAfter, File
  <2> QED
    BY <1>4, <2>2, <2>3 DEF StartAfresh, Write, source
<1> QED
  BY <1>2, <1>3, <1>4

\* Of the steps that leave the file alone, a reload reads it and its end makes
\* what was read the snapshot; every other one, a failed read among them, leaves
\* both.
LEMMA ReaderSteps ==
    ASSUME Tick \/ Reader
    PROVE  /\ UNCHANGED file
           /\ \/ UNCHANGED <<current, reading>>
              \/ reading' = file /\ UNCHANGED current
              \/ reading # Absent /\ current' = reading /\ reading' = Absent
<1>1. CASE Tick
  BY <1>1 DEF Tick, writer
<1>2. CASE poll \/ poll_after_miss
  BY <1>2 DEF poll, poll_after_miss, At, StartReload, writer
<1>3. CASE PollFails \/ MissFails
  BY <1>3 DEF PollFails, MissFails, At, ReadFails, writer
<1>4. CASE PollThrottled \/ MissUnchanged \/ Decrypt
  BY <1>4 DEF PollThrottled, MissUnchanged, Decrypt, At, writer
<1>5. CASE FinishReload
  BY <1>5 DEF FinishReload, writer
<1> QED
  BY <1>1, <1>2, <1>3, <1>4, <1>5 DEF Reader

\* Every step keeps the order, and takes the snapshot forward.
LEMMA ReloadStepwise ==
    ASSUME ReloadInv, [SourceNext]_source_vars
    PROVE  ReloadInv' /\ NotAfter(current, current')
<1>0. /\ ContentsTyped /\ Ordered
      /\ NotAfter(current, current) /\ NotAfter(file, file)
  BY NotAfterItself DEF ReloadInv, ContentsTyped
<1>1. CASE AppendSecret \/ Create \/ StartAfresh
  <2>1. /\ file' \in File /\ NotAfter(file, file')
        /\ UNCHANGED <<current, reading>>
    BY <1>0, <1>1, WriterGoesOn
  <2>2. NotAfter(current, file') /\ NotAfter(reading, file')
    BY <1>0, <2>1, NotAfterTransitive DEF ContentsTyped, Ordered
  <2> QED
    BY <1>0, <2>1, <2>2 DEF ReloadInv, ContentsTyped, Ordered
<1>2. CASE Tick \/ Reader
  <2>0. UNCHANGED file
    BY <1>2, ReaderSteps
  <2>1. CASE UNCHANGED <<current, reading>>
    BY <1>0, <2>0, <2>1 DEF ReloadInv, ContentsTyped, Ordered
  <2>2. CASE reading' = file /\ UNCHANGED current
    BY <1>0, <2>0, <2>2 DEF ReloadInv, ContentsTyped, Ordered
  <2>3. CASE reading # Absent /\ current' = reading /\ reading' = Absent
    <3>1. NotAfter(Absent, file)
      BY DEF NotAfter
    <3> QED
      BY <1>0, <2>0, <2>3, <3>1 DEF ReloadInv, ContentsTyped, Ordered
  <2> QED
    BY <1>2, <2>1, <2>2, <2>3, ReaderSteps
<1>3. CASE UNCHANGED source_vars
  BY <1>0, <1>3 DEF ReloadInv, ContentsTyped, Ordered, source_vars, writer, source
<1> QED
  BY <1>1, <1>2, <1>3 DEF SourceNext

\* The snapshot the decryption works from, what a reload is reading and the file
\* itself are always in this order of age, whichever of the read, the stat and
\* the writer's steps interleave (reload_if_changed).
THEOREM ReloadsOrdered == SourceSpec => []Ordered
<1>1. ReloadInv /\ [SourceNext]_source_vars => ReloadInv'
  BY ReloadStepwise
<1>2. ReloadInv => Ordered
  BY DEF ReloadInv
<1> QED
  BY <1>1, <1>2, ReloadInitially, PTL DEF SourceSpec

\* The snapshot never goes back to an older state of the file, for any number of
\* appends, restarts of the writer, failed reads and misses.
THEOREM SnapshotNeverGoesBack == SourceSpec => NeverGoesBack
<1>1. ReloadInv /\ [SourceNext]_source_vars => ReloadInv' /\ [NotAfter(current, current')]_source_vars
  BY ReloadStepwise
<1> QED
  BY <1>1, ReloadInitially, PTL DEF SourceSpec, NeverGoesBack
=============================================================================
