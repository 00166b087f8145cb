--------------------------- MODULE MCControlSocket ---------------------------
EXTENDS ControlSocket, TLC

\* Plaintext paths with a leading slash, "." and ".."; ciphertext paths that are
\* right, wrong and too big; and a request for nothing.
PlainPaths ==
    { << Empty, Plain("s"), Dot, Plain("l") >>, << Plain("s"), DotDot, Plain("l"), Empty >>,
      << Plain("s"), DotDot, DotDot, Plain("s") >> }
CipherPaths ==
    { << EncryptAndHashName("l", Root), EncryptAndHashName("s", "d") >>,
      << EncryptAndHashName("s", Root), EncryptAndHashName("l", Root) >>,
      << EncryptAndHashName("s", Root), Plain("s"), Plain("s") >> }   \* too big
MCRequests == {[enc |-> p, dec |-> << >>] : p \in PlainPaths}
              \union {[enc |-> << >>, dec |-> p] : p \in CipherPaths \union {<< >>}}
=============================================================================
