------------------------------ MODULE PlainFile ------------------------------
(***************************************************************************)
(* What a mounted file promises its users: a sequence of bytes with the    *)
(* POSIX meaning of write, truncate and fallocate.  Ciphertext, blocks and *)
(* the file header do not appear.  req is the request and then its answer, *)
(* so that every answer is tied to what its request asked for.  An         *)
(* operation that fails may leave part of its effect behind, but never a   *)
(* byte nobody wrote.                                                      *)
(***************************************************************************)
EXTENDS Integers, Sequences

CONSTANT
    Unit  \* what a failed request leaves behind ends at a multiple of Unit bytes

VARIABLES content, req

Zeros(n) == [i \in 1..n |-> 0]

\* The file of n bytes that agrees with s where s has bytes; the rest is zeros.
Resize(s, n) ==
    IF n <= Len(s) THEN SubSeq(s, 1, n) ELSE s \o Zeros(n - Len(s))

Larger(m, n) == IF m < n THEN n ELSE m

Overwrite(s, off, data) ==
    LET base == Resize(s, Larger(Len(s), off + Len(data)))
    IN  [i \in 1..Len(base) |->
            IF i > off /\ i <= off + Len(data) THEN data[i - off] ELSE base[i]]

Init == content = << >> /\ req.op = "answer"

\* A request arrives.
Ask == req.op = "answer" /\ req'.op # "answer" /\ UNCHANGED content

\* It is answered, with success or not.
Answers(ok) == req' = [op |-> "answer", ok |-> ok]

Read == req.op = "read" /\ Answers(TRUE) /\ UNCHANGED content

Write ==
    /\ req.op = "write" /\ Answers(TRUE)
    /\ content' = Overwrite(content, req.off, req.data)

\* A write that fails leaves the file as it was, or with the padding in front of
\* the data, or with the data up to the end of a unit.
FailedWrite ==
    /\ req.op = "write" /\ Answers(FALSE)
    /\ \/ \E n \in Len(content)..req.off : content' = Resize(content, n)
       \/ UNCHANGED content
       \/ \E n \in 1..(Len(req.data) - 1) :
             /\ (req.off + n) % Unit = 0
             /\ content' = Overwrite(content, req.off, SubSeq(req.data, 1, n))

Truncate ==
    /\ req.op \in {"truncate", "pathTruncate"} /\ Answers(TRUE)
    /\ content' = Resize(content, req.size)

\* fallocate(2) never shrinks a file.
Allocate ==
    /\ req.op = "allocate" /\ Answers(TRUE)
    /\ content' = IF req.keepSize THEN content
                  ELSE Resize(content, Larger(Len(content), req.size))

\* A failed truncate or fallocate leaves a size between the old and the new
\* one, or, when shrinking, also loses the bytes of the unit the new end of
\* file is in: every byte that remains is the old one.
FailedResize ==
    /\ req.op \in {"truncate", "pathTruncate", "allocate"} /\ Answers(FALSE)
    /\ \/ \E n \in Len(content)..Larger(Len(content), req.size) : content' = Resize(content, n)
       \/ /\ req.op # "allocate" /\ req.size < Len(content)
          /\ content' = Resize(content, (req.size \div Unit) * Unit)

Next ==
    \/ Ask \/ Read \/ Write \/ FailedWrite
    \/ Truncate \/ Allocate \/ FailedResize

Spec == Init /\ [][Next]_<< content, req >>

=============================================================================
