-------------------------- MODULE MCRequestReader --------------------------
EXTENDS RequestReader

\* Contents of one letter, which looks like a request, and newlines.
Contents == UNION {[1 .. n -> {"GET", Newline}] : n \in 0 .. ContentLength}

OtherRequests == {Get("a"), AddId("1", "2"), AddId("1", "-1"), RemoveId("1")}

FittingRequests == OtherRequests \union {Edit("a", text) : text \in {t \in Contents : Fits(t)}}

\* What is read beyond the room for a content does not fit its buffer either, so
\* that the model would not know what the program does: a content with one symbol
\* too many is in the last request of a file.
LimitRequests == OtherRequests \union {Edit("a", text) : text \in {t \in Contents : AlmostFits(t)}}
=============================================================================
