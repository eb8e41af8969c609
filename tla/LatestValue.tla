----------------------------- MODULE LatestValue -----------------------------
(***************************************************************************)
(* What a latest-value channel promises: the consumer takes the newest     *)
(* publication, at most once, and may miss older ones.                     *)
(***************************************************************************)
EXTENDS Naturals

VARIABLES
    latest,     \* number of the newest publication
    current     \* number of the publication the consumer holds

latestVars == <<latest, current>>

LatestInit == latest = 0 /\ current = 0

Publish == latest' = latest + 1 /\ UNCHANGED current

\* Only a publication newer than the one held can be taken, and only the newest.
Consume == current < latest /\ current' = latest /\ UNCHANGED latest

LatestSpec == LatestInit /\ [][Publish \/ Consume]_latestVars
=============================================================================
