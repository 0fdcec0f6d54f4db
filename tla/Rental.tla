------------------------------- MODULE Rental -------------------------------
(***************************************************************************)
(* What the example promises to the user who pays for a volume and a       *)
(* server: the server is taken on a volume, both are there when the user   *)
(* can say that they be kept, and nothing is given up unless that chance   *)
(* has passed unused, the server before the volume, each of them once.     *)
(***************************************************************************)
VARIABLES
  volume,   (* "none", "held" or "released"                *)
  server,   (* likewise                                    *)
  waived    (* the user could have said "keep" and did not *)

rentalVars == <<volume, server, waived>>

Init ==
  /\ volume = "none"
  /\ server = "none"
  /\ waived = FALSE

TakeVolume ==
  /\ ~waived
  /\ volume = "none"
  /\ volume' = "held"
  /\ UNCHANGED <<server, waived>>

TakeServer ==
  /\ ~waived
  /\ volume = "held"
  /\ server = "none"
  /\ server' = "held"
  /\ UNCHANGED <<volume, waived>>

Waive ==
  /\ ~waived
  /\ volume = "held" /\ server = "held"
  /\ waived' = TRUE
  /\ UNCHANGED <<volume, server>>

GiveUpServer ==
  /\ waived
  /\ server = "held"
  /\ server' = "released"
  /\ UNCHANGED <<volume, waived>>

GiveUpVolume ==
  /\ waived
  /\ server = "released"
  /\ volume = "held"
  /\ volume' = "released"
  /\ UNCHANGED <<server, waived>>

Next == TakeVolume \/ TakeServer \/ Waive \/ GiveUpServer \/ GiveUpVolume

Spec == Init /\ [][Next]_rentalVars
=============================================================================
