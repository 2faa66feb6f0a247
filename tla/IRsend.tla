------------------------------- MODULE IRsend -------------------------------
(***************************************************************************)
(* src/src/IRsend.cpp: the light that the generic senders put on the air,  *)
(* with the timings that eight of the protocol files hand to them.  A      *)
(* message is a sequence of sections, a section a sequence of words (one   *)
(* word of any width, or the bytes of a state), a word a sequence of bits  *)
(* with the most significant one first.                                    *)
(***************************************************************************)
EXTENDS Integers, Sequences, SequencesExt

CONSTANTS
    Bits,      \* bits of a message that is one word (12 to 56 in the code)
    ByteBits   \* bits of a byte (8)

Bit == {0, 1}

-----------------------------------------------------------------------------
(* The protocols.  Times are in microseconds, 0 means "none".              *)

kDefaultMessageGap == 100000

(***************************************************************************)
(* What most protocols have.  `lead` is a mark and a space that come       *)
(* before what the generic functions treat; `gaps` and `exactgap` have an  *)
(* entry for each section, `words` the number of words in it; `trail` is   *)
(* sent once, after the repeats; `shortest` is the least number of         *)
(* captured intervals the protocol looks at, `timeout` the receiver's.     *)
(*                                                                         *)
(* Of the Manchester protocols: half a period, the convention of the       *)
(* sender (`thomas`) and of the receiver (`rthomas`), and the footer and   *)
(* gap that the receiver expects.                                          *)
(***************************************************************************)
Usual == [coding |-> "bits", lead |-> <<>>, hdrmark |-> 0, hdrspace |-> 0,
          onemark |-> 0, onespace |-> 0, zeromark |-> 0, zerospace |-> 0,
          footermark |-> 0, gaps |-> <<0>>, mesgtime |-> 0, words |-> <<1>>,
          width |-> Bits, msb |-> TRUE, exactgap |-> <<FALSE>>, repeat |-> 0,
          trail |-> <<>>, tolerance |-> 25, excess |-> 50, shortest |-> 0,
          half |-> 0, thomas |-> FALSE, rthomas |-> FALSE, rfootermark |-> 0,
          rgap |-> 0, timeout |-> 0]

Samsung ==
    [Usual EXCEPT !.hdrmark = 4480, !.hdrspace = 4480, !.onemark = 560,
       !.onespace = 1680, !.zeromark = 560, !.zerospace = 560,
       !.footermark = 560, !.gaps = <<26880>>, !.mesgtime = 108080]

PanasonicAc ==
    [Usual EXCEPT !.coding = "bytes", !.hdrmark = 3456, !.hdrspace = 1728,
       !.onemark = 432, !.onespace = 1296, !.zeromark = 432, !.zerospace = 432,
       !.footermark = 432, !.gaps = <<10000, kDefaultMessageGap>>,
       !.exactgap = <<TRUE, FALSE>>, !.words = <<1, 2>>, !.width = ByteBits,
       !.msb = FALSE, !.tolerance = 40, !.excess = 0,
       !.shortest = 6 * ByteBits + 4]

Symphony ==
    [Usual EXCEPT !.coding = "constbit", !.onemark = 1250, !.onespace = 400,
       !.zeromark = 400, !.zerospace = 1250, !.gaps = <<6600>>, !.repeat = 3,
       !.excess = 0, !.shortest = 2 * Bits - 1]

EliteScreens ==
    [Usual EXCEPT !.coding = "constbit", !.onemark = 470, !.onespace = 1214,
       !.zeromark = 1214, !.zerospace = 470, !.gaps = <<29200>>, !.repeat = 1]

MilesTag2 ==
    [Usual EXCEPT !.hdrmark = 2400, !.hdrspace = 600, !.onemark = 1200,
       !.onespace = 600, !.zeromark = 600, !.zerospace = 600, !.gaps = <<32000>>]

Truma ==
    [Usual EXCEPT !.lead = <<20200, 1000>>, !.hdrmark = 1800, !.hdrspace = 630,
       !.onemark = 600, !.onespace = 630, !.zeromark = 1200, !.zerospace = 630,
       !.footermark = 600, !.gaps = <<kDefaultMessageGap>>, !.msb = FALSE,
       !.shortest = 2 * Bits + 1]

Airwell ==
    [Usual EXCEPT !.coding = "manchester", !.hdrmark = 2850, !.hdrspace = 2850,
       !.half = 950, !.repeat = 2, !.trail = <<3800, kDefaultMessageGap>>,
       !.rfootermark = 2850, !.rgap = 2850, !.shortest = Bits + 2]

Arris ==
    [Usual EXCEPT !.coding = "manchester", !.lead = <<2560, 1920>>,
       !.hdrmark = 640, !.half = 320, !.thomas = TRUE, !.gaps = <<77184>>,
       !.exactgap = <<TRUE>>, !.shortest = Bits]

ProtocolNames == {"SAMSUNG", "PANASONIC_AC", "SYMPHONY", "ELITESCREENS",
                  "MILESTAG2", "TRUMA", "AIRWELL", "ARRIS"}

Protocol(name) ==
    CASE name = "SAMSUNG" -> Samsung
      [] name = "PANASONIC_AC" -> PanasonicAc
      [] name = "SYMPHONY" -> Symphony
      [] name = "ELITESCREENS" -> EliteScreens
      [] name = "MILESTAG2" -> MilesTag2
      [] name = "TRUMA" -> Truma
      [] name = "AIRWELL" -> Airwell
      [] name = "ARRIS" -> Arris

(* The messages of a protocol: its sections, each of so many words.        *)
Word(p) == [1..p.width -> Bit]
Messages(p) ==
    {m \in [1..Len(p.words) -> UNION {[1..n -> Word(p)] : n \in 1..2}] :
        \A s \in DOMAIN m : Len(m[s]) = p.words[s]}

-----------------------------------------------------------------------------
(* mark() and space(): a length of time with the light on or off.          *)

mark(usec) == <<[on |-> TRUE, usec |-> usec]>>
space(usec) == IF usec = 0 THEN <<>> ELSE <<[on |-> FALSE, usec |-> usec]>>
optmark(usec) == IF usec = 0 THEN <<>> ELSE mark(usec)
Pair(times) == IF times = <<>> THEN <<>> ELSE mark(times[1]) \o space(times[2])

Elapsed(air) ==
    LET upto[i \in 0..Len(air)] == IF i = 0 THEN 0 ELSE upto[i - 1] + air[i].usec
    IN  upto[Len(air)]

InOrder(p, word) == IF p.msb THEN word ELSE Reverse(word)

sendData(p, word) ==
    FlattenSeq([i \in 1..Len(word) |->
        IF InOrder(p, word)[i] = 1 THEN mark(p.onemark) \o space(p.onespace)
                                   ELSE mark(p.zeromark) \o space(p.zerospace)])

(* One is mark then space under G.E. Thomas, and zero is under IEEE 802.3. *)
sendManchesterData(p, word) ==
    FlattenSeq([i \in 1..Len(word) |->
        IF (InOrder(p, word)[i] = 1) = p.thomas
          THEN mark(p.half) \o space(p.half)
          ELSE space(p.half) \o mark(p.half)])

(* A section takes at least mesgtime, and ends in a gap of at least `gap`. *)
Padding(p, gap, elapsed) ==
    IF elapsed >= p.mesgtime THEN gap
                             ELSE Max({gap, p.mesgtime - elapsed})

sendSection(p, words, gap) ==
    LET send(w) == IF p.coding = "manchester" THEN sendManchesterData(p, w)
                                              ELSE sendData(p, w)
        body == optmark(p.hdrmark) \o space(p.hdrspace)
                  \o FlattenSeq([i \in 1..Len(words) |-> send(words[i])])
                  \o optmark(p.footermark)
    IN  body \o space(Padding(p, gap, Elapsed(body)))

sendMessage(p, message) ==
    Pair(p.lead)
      \o FlattenSeq([s \in 1..Len(message) |->
                        sendSection(p, message[s], p.gaps[s])])

sendGeneric(p, message) ==
    FlattenSeq([r \in 1..(p.repeat + 1) |-> sendMessage(p, message)])
      \o Pair(p.trail)

-----------------------------------------------------------------------------
(* What a receiver sees of it: one interval from each change to the next,  *)
(* beginning with the first mark.                                          *)
Heard(seen, part) ==
    IF seen = <<>> THEN IF part.on THEN <<part>> ELSE <<>>
    ELSE IF Last(seen).on = part.on
      THEN [seen EXCEPT ![Len(seen)].usec = @ + part.usec]
      ELSE Append(seen, part)

Intervals(air) ==
    LET upto[i \in 0..Len(air)] ==
          IF i = 0 THEN <<>> ELSE Heard(upto[i - 1], air[i])
    IN  upto[Len(air)]
=============================================================================
