----------------------------- MODULE DurableLog -----------------------------
(***************************************************************************)
(* What a log promises its user: it grows at the end, part of it is firm,  *)
(* and a crash takes back some of the rest, from the end.                  *)
(***************************************************************************)
EXTENDS Naturals, Sequences

VARIABLES
    log,    \* the records a reader finds
    firm    \* how many of them no crash can take back

LogInit == log = <<>> /\ firm = 0

IsPrefixOf(s, t) == Len(s) <= Len(t) /\ SubSeq(t, 1, Len(s)) = s

Grow ==
    /\ IsPrefixOf(log, log') /\ Len(log') <= Len(log) + 1
    /\ firm' \in firm .. Len(log')

Crash ==
    /\ IsPrefixOf(log', log) /\ firm <= Len(log')
    /\ UNCHANGED firm

LogNext == Grow \/ Crash
=============================================================================
