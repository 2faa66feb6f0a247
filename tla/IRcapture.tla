------------------------------ MODULE IRcapture ------------------------------
(***************************************************************************)
(* What IRrecv promises its user, without its threads and its buffers: a   *)
(* mailbox for one message.  While it listens the message grows; when it   *)
(* is full the message is frozen, and can only be thrown away as a whole;  *)
(* what the user takes is a message that was frozen when he took it, and   *)
(* it stays what it is until he lets it go.                                *)
(***************************************************************************)
EXTENDS Naturals, Sequences

VARIABLES
    full,      \* the capture has stopped (or is paused)
    message,   \* the intervals captured so far
    taken      \* what decode() hands out, <<>> when nothing

vars == <<full, message, taken>>

Init ==
    /\ full = FALSE
    /\ message = <<>>
    /\ taken = <<>>

(* One more interval arrives. *)
Listen ==
    /\ ~full
    /\ Len(message') = Len(message) + 1
    /\ SubSeq(message', 1, Len(message)) = message
    /\ UNCHANGED <<full, taken>>

(* A timeout, a full buffer, or pause(). *)
Stop ==
    /\ full' = TRUE
    /\ UNCHANGED <<message, taken>>

(* resume(); without a save buffer it takes back what was handed out. *)
Arm ==
    /\ full' = FALSE
    /\ taken' \in {taken, <<>>}
    /\ UNCHANGED message

Discard ==
    /\ message' = <<>>
    /\ UNCHANGED <<full, taken>>

Take ==
    /\ full
    /\ taken' = message
    /\ UNCHANGED <<full, message>>

Release ==
    /\ taken' = <<>>
    /\ UNCHANGED <<full, message>>

Restart ==
    /\ full' = FALSE
    /\ message' = <<>>
    /\ taken' = <<>>

Next == Listen \/ Stop \/ Arm \/ Discard \/ Take \/ Release \/ Restart

Spec == Init /\ [][Next]_vars
=============================================================================
