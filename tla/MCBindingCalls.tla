--------------------------- MODULE MCBindingCalls ---------------------------
(* BindingCalls with every exported function.  The largest enumeration has  *)
(* 13 variants, so Picks 1 .. 13 reaches every variant of every type.       *)
EXTENDS BindingCalls

\* The converters of the parts are the converters themselves.  The LET is there
\* for TLC's coverage, which follows an operator into a constant and no further.
SampleOf(t, s, tag) == LET whole == Sample(t, s, tag) IN whole
ChecksLower(t, v) == LET whole == CheckLower(t, v) IN whole
Raises(t, v) == LET whole == WriteRaises(t, v) IN whole
Writes(t, v) == LET whole == Write(t, v) IN whole
Reads(t, cells) == LET whole == Read(t, cells) IN whole
Agrees(depth, w, r, numbers) == LET whole == Agree(depth, w, r, numbers) IN whole
IsValueOf(t, v, numbers) == LET whole == IsValue(t, v, numbers) IN whole

EveryFunction == DOMAIN Functions
EveryVariant == 1 .. 13
=============================================================================
