-------------------------- MODULE MCTlsConnection --------------------------
(***************************************************************************)
(* TLC instance of TlsConnection.                                          *)
(***************************************************************************)
EXTENDS TlsConnection

Tls13(suite, retry, rekey) ==
    [version |-> "TLS13", suite |-> suite, retry |-> retry, rekey |-> rekey]
Tls12(suite) == [version |-> "TLS12", suite |-> suite, retry |-> FALSE, rekey |-> FALSE]

\* Every algorithm, with and without a HelloRetryRequest or a KeyUpdate.
MCSessions ==
    {Tls13("Aes128Gcm", TRUE, FALSE), Tls13("Aes256Gcm", FALSE, FALSE),
     Tls13("ChaCha20Poly1305", FALSE, TRUE), Tls12("Aes128Gcm"), Tls12("Aes256Gcm")}
=============================================================================
