--------------------------- MODULE MCChatAdmission ---------------------------
(* Small instances of ChatAdmission for TLC.                               *)
EXTENDS ChatAdmission

CONSTANTS s1, s2, r1, r2, r3, r4

\* One session has two requests.
Sessions == [r \in Request |-> IF r \in {r1, r2} THEN s1 ELSE s2]

\* One body is twice as large as the others.
Sizes == [r \in Request |-> IF r = r1 THEN 2 ELSE 1]
=============================================================================
