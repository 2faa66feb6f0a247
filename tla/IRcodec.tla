------------------------------- MODULE IRcodec -------------------------------
(***************************************************************************)
(* A message from the sender to the receiver: IRsend's light, the sensor   *)
(* and the recorder behind it (IRrecv has their details; here an interval  *)
(* is recorded in one step, with the error of a real sensor), and IRmatch. *)
(***************************************************************************)
EXTENDS IRsend, IRmatch

CONSTANTS
    Names,     \* the protocols of the run
    Timeouts,  \* what the receiver may be constructed with, in microseconds
    Jitter,    \* how much longer a mark, and shorter a space, may be seen:
               \* no interval is lost by it, the shortest one lasts 320
    MaxNoisy   \* the bound on the intervals a good sensor sees so

UINT16_MAX == 65535
kMaxTimeoutMs == kRawTick * (UINT16_MAX \div 1000)

ASSUME CodecAssumption ==
    /\ Names \subseteq ProtocolNames /\ Bits \in Nat \ {0, 1} /\ ByteBits \in Nat \ {0}
    /\ Timeouts \subseteq 0..(1000 * kMaxTimeoutMs)
    /\ Jitter \in Nat /\ Jitter <= 300 /\ MaxNoisy \in Nat

VARIABLES
    name,      \* the protocol
    timeout,   \* params.timeout
    message,   \* what is sent
    air,       \* the intervals of light and dark
    buf,       \* rawbuf from its first interval on, in ticks
    slow,      \* the sensor sees every interval so
    noisy,     \* how many of them differ from what was sent, if it is good
    cut,       \* the capture ended before the signal did
    overflow,  \* params.overflow: it ended because rawbuf was full
    old,       \* behind the capture, rawbuf holds an older, undisturbed one
    result,    \* what the decode function returned
    pc         \* "send", "capture", "decode", "done"

vars == <<name, timeout, message, air, buf, slow, noisy, cut, overflow, old,
          result, pc>>

proto == [Protocol(name) EXCEPT !.timeout = timeout]

Init ==
    /\ name \in Names /\ timeout \in Timeouts
    /\ message \in Messages(Protocol(name))
    /\ air = <<>> /\ buf = <<>> /\ slow \in BOOLEAN /\ noisy = 0
    /\ cut = FALSE /\ overflow = FALSE /\ old \in BOOLEAN
    /\ result = Failed(From(0)) /\ pc = "send"

Send ==
    /\ pc = "send"
    /\ air' = Intervals(sendGeneric(proto, message))
    /\ pc' = "capture"
    /\ UNCHANGED <<name, timeout, message, buf, slow, noisy, cut, overflow,
                   old, result>>

-----------------------------------------------------------------------------
(* Mutant: the timer that ends a capture is never set.                     *)
Arriving_Untimed == Len(buf) < Len(air)

(* The next interval ends before the receiver's timer does.                *)
Arriving == Len(buf) < Len(air) /\ air[Len(buf) + 1].usec < timeout

Seen(part, disturbed) ==
    (IF ~disturbed THEN part.usec
     ELSE IF part.on THEN part.usec + Jitter ELSE part.usec - Jitter)
      \div kRawTick

Capture ==
    /\ pc = "capture" /\ Arriving
    /\ \E disturbed \in BOOLEAN :
        /\ IF slow THEN disturbed ELSE disturbed => noisy < MaxNoisy
        /\ noisy' = noisy + IF disturbed /\ ~slow THEN 1 ELSE 0
        /\ buf' = Append(buf, Seen(air[Len(buf) + 1], disturbed))
    /\ UNCHANGED <<name, timeout, message, air, slow, cut, overflow, old,
                   result, pc>>

(* The timer runs out behind the message.                                  *)
Silence ==
    /\ pc = "capture" /\ ~Arriving
    /\ pc' = "decode"
    /\ UNCHANGED <<name, timeout, message, air, buf, slow, noisy, cut, overflow,
                   old, result>>

(* No more light arrives: the last thing recorded is a mark.               *)
Fade ==
    /\ pc = "capture" /\ Arriving /\ Len(buf) % 2 = 1
    /\ cut' = TRUE /\ pc' = "decode"
    /\ UNCHANGED <<name, timeout, message, air, buf, slow, noisy, overflow, old,
                   result>>

(* There is no room for the next interval.                                 *)
Full ==
    /\ pc = "capture" /\ Arriving /\ buf # <<>>
    /\ cut' = TRUE /\ overflow' = TRUE /\ pc' = "decode"
    /\ UNCHANGED <<name, timeout, message, air, buf, slow, noisy, old, result>>

(* rawbuf: decode() clears the entry behind the capture, unless it is full *)
(* and that entry is not its own; what comes then was there before.        *)
Cells(older) ==
    [k \in 0..(Len(air) + 2) |->
        IF k < Len(buf) THEN buf[k + 1]
        ELSE IF older /\ k < Len(air) /\ (k > Len(buf) \/ overflow)
          THEN air[k + 1].usec \div kRawTick
        ELSE 0]

Decoded(older) == matchMessage(Cells(older), Len(buf), proto)

Decode ==
    /\ pc = "decode"
    /\ result' = Decoded(old)
    /\ pc' = "done"
    /\ UNCHANGED <<name, timeout, message, air, buf, slow, noisy, cut, overflow,
                   old>>

Next == Send \/ Capture \/ Silence \/ Fade \/ Full \/ Decode
Spec == Init /\ [][Next]_vars

-----------------------------------------------------------------------------
(* The variables keep to their sets; a capture is a beginning of what was  *)
(* sent, with no interval that is as long as the timeout.                  *)
TypeOK ==
    /\ name \in Names /\ timeout \in Timeouts
    /\ message \in Messages(Protocol(name))
    /\ Len(buf) <= Len(air)
    /\ \A k \in DOMAIN buf :
         buf[k] \in 1..UINT16_MAX /\ kRawTick * buf[k] < timeout + Jitter
    /\ noisy \in 0..MaxNoisy
    /\ {slow, cut, overflow, old, result.ok} \subseteq BOOLEAN
    /\ overflow => cut
    /\ pc \in {"send", "capture", "decode", "done"}

(* The receiver waits longer than anything inside a message lasts, the     *)
(* footer it is read with included; Truma's lead, for one, is longer than  *)
(* the default timeout.  AIRWELL's footer is the next sending's header.    *)
Recordable ==
    LET first == Intervals(sendMessage(proto, message))
        inside == Len(first) - IF proto.rfootermark = 0 THEN 1 ELSE 0
    IN  \A k \in 1..inside : air[k].usec < timeout

(* What a generic sender sends, the matcher of the same protocol reads,    *)
(* whatever the data, the words' order of bits, the intervals that have    *)
(* merged, and the error of the sensor.                                    *)
RoundTrip ==
    pc = "done" /\ ~cut /\ Recordable => result.ok /\ result.data = message

Manchester == proto.coding = "manchester"

(* A capture that has lost its end is never read as another message.  Left *)
(* out are Manchester messages that have no footer (see ShortIsRefused),   *)
(* and those that fill rawbuf: their matcher looks for the footer behind   *)
(* the buffer.                                                             *)
NeverOther ==
    pc = "done" /\ result.ok
      /\ (Manchester => proto.rfootermark # 0 /\ ~overflow)
    => result.data = message

(* What the last capture has left in rawbuf makes no difference.           *)
StaleUnread ==
    pc = "done" /\ ~(Manchester /\ overflow) => Decoded(TRUE) = Decoded(FALSE)

(* test/IRrecv_test.cpp:1771, "Now, just too short.": a Manchester message *)
(* without its end is refused.                                             *)
ShortIsRefused == pc = "done" /\ result.ok => result.data = message
=============================================================================
