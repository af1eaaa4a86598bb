----------------------------- MODULE MCSlotPipeline -----------------------------
EXTENDS SlotPipeline

\* With room for four bytes: two requests that fit together, one that fits
\* exactly, and one that does not fit.
FourRequests == <<[head |-> 2, body |-> 1], [head |-> 1, body |-> 0], [head |-> 1, body |-> 3],
                  [head |-> 2, body |-> 3]>>

\* Two requests, the second short.
TwoRequests == <<[head |-> 1, body |-> 1], [head |-> 1, body |-> 0]>>
=================================================================================
