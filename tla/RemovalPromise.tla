--------------------------- MODULE RemovalPromise ---------------------------
(***************************************************************************)
(* What remove() promises about one environment, whatever it meets on the  *)
(* way: an attempt frees the ports only after it has seen for itself that  *)
(* the checkout is gone, and drops the record only after that.             *)
(* core/teardown.py keeps this promise one system call at a time (module   *)
(* Teardown).                                                              *)
(***************************************************************************)

VARIABLES there,      \* the checkout, or what is left of it, is on disk
          seenGone,   \* the attempt in progress has seen that it is not
          reserved,   \* ports.yaml has its ports
          tracked     \* state.yaml has its record

vars == <<there, seenGone, reserved, tracked>>

Init == there \in BOOLEAN /\ seenGone = FALSE /\ reserved = TRUE /\ tracked = TRUE

(* A remover or a user changes what is on disk. *)
Touch == there' \in BOOLEAN /\ UNCHANGED <<seenGone, reserved, tracked>>

Look ==
  /\ ~there
  /\ seenGone' = TRUE
  /\ UNCHANGED <<there, reserved, tracked>>

Free ==
  /\ seenGone
  /\ reserved' = FALSE
  /\ UNCHANGED <<there, seenGone, tracked>>

Drop ==
  /\ seenGone /\ ~reserved
  /\ seenGone' = FALSE /\ tracked' = FALSE
  /\ UNCHANGED <<there, reserved>>

(* The attempt dies; the next one has to look again. *)
GiveUp == seenGone' = FALSE /\ UNCHANGED <<there, reserved, tracked>>

Next == Touch \/ Look \/ Free \/ Drop \/ GiveUp

Spec == Init /\ [][Next]_vars
=============================================================================
