----------------------------- MODULE MCToolLoop -----------------------------
(* Small instances of ToolLoop for TLC.                                    *)
EXTENDS ToolLoop

CONSTANTS a1, a2, k1, k2, d1, d2, v, cut

\* What the row keeps is not what the handler returned.
Bounded(x) == cut

\* One call, two of them, the same call with other arguments, a call beside
\* one of a client tool, and no call at all.
Answers ==
    LET Calls(s) == [calls |-> s, mixed |-> FALSE]
        On(k, d) == [key |-> k, digest |-> d]
    IN  {Calls(<<>>), Calls(<<On(k1, d1)>>), Calls(<<On(k1, d1), On(k2, d1)>>),
         Calls(<<On(k1, d2)>>), [calls |-> <<On(k2, d1)>>, mixed |-> TRUE]}
=============================================================================
