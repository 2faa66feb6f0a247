----------------------------- MODULE MCIRdecode -----------------------------
(* A small instance of IRdecode for TLC.                                   *)
EXTENDS IRdecode

Reception(whole, timeout, error) ==
    [whole |-> whole, timeout |-> timeout, error |-> error,
     noise |-> <<>>, flash |-> 0, floor |-> 0]

(* A message as the Worker is told it; as a receiver records it with the   *)
(* timeout of 15 ms (kTimeoutMs) and with the 50 ms the examples advise,   *)
(* through a sensor that is exact or lengthens marks by kMarkExcess;       *)
(* behind a short flash of light; and with a shorter one in its first      *)
(* space, which a noise floor of 100 us filters.                           *)
MCReceptions ==
    {Reception(TRUE, 15000, 0),
     Reception(FALSE, 15000, 0), Reception(FALSE, 15000, 50),
     Reception(FALSE, 50000, 50),
     [Reception(FALSE, 50000, 0) EXCEPT !.noise = <<75, 4000>>],
     [Reception(FALSE, 50000, 0) EXCEPT !.flash = 30, !.floor = 100]}

ASSUME FloorFits
=============================================================================
