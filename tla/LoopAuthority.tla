---------------------------- MODULE LoopAuthority ----------------------------
(***************************************************************************)
(* What the looping weapon voice promises, without mailbox, worker, menus  *)
(* or settings: a generation is granted at most once, only the granted one *)
(* may begin to sound, and one that was revoked never sounds anew.  A loop *)
(* may fall silent at any time.                                            *)
(***************************************************************************)
EXTENDS Integers

VARIABLES
  wanted,  \* the generation that is authorised, 0 for none
  heard,   \* the generation that sounds, 0 for none
  issued   \* the last generation handed out

avars == <<wanted, heard, issued>>

Init == wanted = 0 /\ heard = 0 /\ issued = 0

\* What is sounding goes on or falls silent.
Fades == heard' \in {heard, 0}

\* A fresh generation, when none is authorised.
Grant ==
  /\ wanted = 0
  /\ issued' = issued + 1
  /\ wanted' = issued'
  /\ Fades

\* A generation may be handed out in vain.
Waste == issued' = issued + 1 /\ wanted' \in {wanted, 0} /\ Fades

Revoke == wanted' = 0 /\ Fades /\ UNCHANGED issued

\* The authorised generation takes over from whatever sounded.
Begin == wanted # 0 /\ heard' = wanted /\ UNCHANGED <<wanted, issued>>

Fade == heard' = 0 /\ UNCHANGED <<wanted, issued>>

Next == Grant \/ Waste \/ Revoke \/ Begin \/ Fade

Spec == Init /\ [][Next]_avars
=============================================================================
