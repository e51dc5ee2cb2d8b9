----------------------------- MODULE FileDelivery -----------------------------
(***************************************************************************)
(* What a checksummed download promises its caller, whatever happens       *)
(* below: the destination is absent or whole, it never goes back from      *)
(* whole to anything else, and an answer "ok" is given only once it is     *)
(* whole.                                                                  *)
(***************************************************************************)
VARIABLES
  asked,      \* a download is being carried out
  answer,     \* what the last one answered
  delivered   \* the destination holds the whole file

vars == <<asked, answer, delivered>>

Init == asked = FALSE /\ answer = "none" /\ delivered = FALSE

Ask     == ~asked /\ asked' = TRUE /\ answer' = "none" /\ UNCHANGED delivered
Refuse  == ~asked /\ answer' = "err" /\ UNCHANGED <<asked, delivered>>
Publish == asked /\ delivered' = TRUE /\ UNCHANGED <<asked, answer>>
Succeed == asked /\ delivered /\ asked' = FALSE /\ answer' = "ok" /\ UNCHANGED delivered
Fail    == asked /\ asked' = FALSE /\ answer' \in {"err", "crash"} /\ UNCHANGED delivered

Next == Ask \/ Refuse \/ Publish \/ Succeed \/ Fail

Spec == Init /\ [][Next]_vars
=============================================================================
