---- MODULE MCTextBuffer ----
\* Bounds for model checking TextBuffer.
EXTENDS TextBuffer
\* What replicas 0, 1, ... may do, given as a sequence.
Quota(s) == [r \in Replicas |-> s[r + 1]]
None == Quota(<<0, 0, 0>>)
One == Quota(<<1, 1, 1>>)
OnlyLast == Quota(<<0, 0, 1>>)
OnlySecond == Quota(<<0, 1>>)
ThreeOne == Quota(<<3, 1>>)
====
