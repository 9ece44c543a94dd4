---------------------------- MODULE MCReplyBody ----------------------------
EXTENDS ReplyBody

\* Caps: none, zero, below, at and above the size of the bodies.
MCLimits == None .. MaxInt - 1

\* The largest integer too.
MCAllLimits == None .. MaxInt
=============================================================================
