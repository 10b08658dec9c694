--------------------------- MODULE LatestRequest ---------------------------
(***************************************************************************)
(* What a mailbox that keeps only the newest request promises: what takes  *)
(* effect was requested, and is newer than what was in effect before.      *)
(* Requests are numbered in the order in which they are made.              *)
(***************************************************************************)
EXTENDS Naturals

VARIABLES newest,    (* the newest request, 0 before the first *)
          inForce    (* the request in effect                  *)

LatestInit == newest = 0 /\ inForce = 0

Make == newest' = newest + 1 /\ inForce' = inForce

TakeEffect ==
    /\ inForce' \in (inForce + 1)..newest
    /\ newest' = newest

LatestNext == Make \/ TakeEffect

LatestSpec == LatestInit /\ [][LatestNext]_<<newest, inForce>>
=============================================================================
