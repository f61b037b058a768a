------------------------------ MODULE MCMedia ------------------------------
(* The media service alone: the worker and the clock beside two calls and two *)
(* messages that count.  Both calls may increment and decrement; the other    *)
(* endpoints are left to the calls outside Counting.  No call starts after    *)
(* two saves were mixed; those under way go on.                               *)
EXTENDS Media

CONSTANT Counting

MayGo(c) == op[c].do # "none" \/ mixed = {}

MCNext ==
    \/ \E c \in Call : MayGo(c) /\ CountSteps(c)
    \/ \E c \in Call : SaveFind(c)
    \/ \E c \in Call \ Counting : MayGo(c) /\ CallSteps(c)
    \/ SweepSteps
    \/ ClientAndTimeSteps

MCSpec == MediaInit /\ [][MCNext]_mediaVars /\ SweepFairness
=============================================================================
