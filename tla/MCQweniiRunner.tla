--------------------------- MODULE MCQweniiRunner ---------------------------
(* Instances of QweniiRunner for TLC. *)
EXTENDS QweniiRunner

CONSTANTS t1, t2, s1, s2

Authorizes(t, s) == [task |-> t, script |-> s]
Letter(corr, file, content, acceptable) ==
  [corr |-> corr, file |-> file, content |-> content, acceptable |-> acceptable]

\* An authorization with its payload, another payload under its name, the
\* authorization under another correlation, and a mail that is turned down.
Letters == {Letter(t1, Auth(t1), Authorizes(t1, s1), TRUE), Letter(t1, Payload(t1), s1, TRUE),
            Letter(t1, Payload(t1), s2, TRUE), Letter(t2, Auth(t1), Authorizes(t1, s1), TRUE),
            Letter(t1, Payload(t1), s1, FALSE)}
=============================================================================
