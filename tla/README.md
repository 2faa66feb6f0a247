# IRremoteWorker: specifications, model checking and proofs

This directory is the verification project of IRremoteWorker: a TypeScript
Cloudflare Worker (`src/worker`) that infers, describes and generates infrared
remote signals through a WebAssembly build of the IRremoteESP8266 library
(`src/src`), together with that library, which also runs on ESP8266 and ESP32
boards. Paths are relative to the directory above this one; file names without
a directory are those of `src/src`.

Contents: 1 the system, 2 the modules, 3 the runs, 4 fairness, 5 the proofs,
6 disagreements found, 7 what is not modelled, 8 the plan.

## 1. The system

| Part | State | Operations | Used by |
|---|---|---|---|
| Capture (`IRrecv.cpp` 57-640) | `params` (rcvstate, rawlen, overflow, rawbuf), `params_save`, the static `start` of `gpio_intr`, the timer, the pin | `gpio_intr`, `read_timeout` (interrupts); `decode`, `copyIrParams`, `resume`, `pause`, `enableIRIn`, `disableIRIn` (sketch) | sketches; the Worker has no pin and fills a result from a request |
| Decoders (`IRrecv.cpp` 523-2110, `decodeXxx` in `ir_*.cpp`) | none (they read `decode_results`) | `crudeNoiseFilter`, `match*`, `matchData`, `_matchGeneric`, `matchManchester`, one `decodeXxx` per protocol, tried in a fixed order, `decodeHash` | `decode` |
| Encoders (`IRsend.cpp`, `sendXxx` in `ir_*.cpp`) | carrier period, duty cycle | `mark`, `space`, `sendData`, `sendGeneric`, `sendManchester`, `sendRaw`, `send` | `IRac`, protocol classes, Worker |
| Protocol classes (`ir_*.cpp/.h`) | the bytes of a remote's state, and in some classes flags and copies beside them | `setXxx`, `getXxx`, `checksum`, `convertXxx`, `toCommon`, `send` | `IRac`, Worker |
| Common A/C (`IRac.cpp`) | `next`, `_prev` | `sendAc` (3 forms), `handleToggles`, `cleanState`, `markAsSent`, one function per protocol, `IRAcUtils` | sketches, Worker |
| Utilities (`IRutils.cpp`, `IRtimer.cpp`, `IRtext.cpp`) | a timer's start | bit order, checksums, conversion, elapsed time | everything |
| Native bridge (`src/worker/native`, `ir.ts`) | none between calls | one exported function per kind of request | the API |
| HTTP API (`src/worker/src/index.ts` 16-115) | `memoryLatest` per isolate; the D1 table `ir_events` | `POST /api/infer`, `/api/generate`, `/api/call`; `GET /api/latest` and constants | the page, clients |
| Status page (`index.ts` 117-770) | `latestResponse`, `degrees`, `fan`, `detected`, localStorage | `tick`, `renderLatest`, `remember`, `generateCurrent`, the buttons | the browser |

### How they interact, what is hard, what makes them correct

**Capture.** The two interrupt handlers and the sketch share `params` without a
lock of the sketch's own: `rcvstate` is the only flag between them. `decode()`
reads a copy of the buffer, or the live buffer when no save buffer was asked
for. Hard: a handler may run between any two statements of `decode()`,
`copyIrParams()`, `resume()`, `pause()`, `enableIRIn()`, `disableIRIn()`; the
buffer may be exactly full; the timer that ends a capture is armed by one
thread and disarmed by another. Correct means: what `decode()` hands out is one
unbroken stretch of the signal and stays what it is; nothing writes outside the
buffer; a capture ends, and a stopped receiver listens again.

**Sender, recorder, matcher.** An encoder makes marks and spaces, the sensor
distorts them, the recorder counts them in ticks of 2 us, and a matcher walks
through them with offsets, a number of entries left, and windows around the
nominal durations. Hard: marks that are seen longer and spaces that are seen
shorter, half periods that merge (Manchester), last spaces swallowed by the
timeout, captures cut anywhere, entries an older capture has left behind the
end. Correct means: what was sent is read, and what was cut is refused.

**Decode pipeline.** `decode()` calls 140 decode functions one after the other
and the first that does not refuse names the protocol. Windows overlap, and only
some decoders look at the data. Hard: the order, lengths that count a gap which
the receiver never records, messages with gaps inside that end a capture. Correct
means: what the library sends is read by the decoder meant for it.

**Protocol classes.** A class keeps one message. Setters overwrite each other's
fields, power and mode share a field, settings are told as toggles, by a message
of their own, or only when they differ from a copy. `convertXxx` and `toCommon`
are written apart. Correct means: after any order of setters the object is one
its message can carry and keeps what the class says of its settings together; a
state that is read and passed on comes out as it went in.

**Common A/C.** `IRac` keeps the last state it sent because many remotes only
have toggles. The appliance never answers. Hard: `handleToggles()` must turn
wished values into toggles over any sequence of edits and sends, while
`cleanState()` and each protocol's own function drop some of them. Correct
means: the appliance has on what was last sent.

**API.** Handlers of one isolate interleave at their awaits and share
`memoryLatest`; several isolates share only D1. Hard: failing or late
statements, evicted isolates, clocks that differ. Correct means: what was
answered 200 is stored, and `/api/latest` is no older than what the client
already knew of.

**Page.** `tick()` runs from a timer and a button without waiting for the poll
before it. Hard: answers that overtake each other, are lost or say that the read
failed, the user's edits between two answers, reloads. Correct means: the list of detected remotes is
consistent with its stored copy, and the page ends up showing the last event.

The hazards of the code, each at its line, are listed in `PROJECT.json` with
the properties that cover them, or with the reason none does.

## 2. The modules

    IRrecv --refines--> IRcapture        IRsend    IRmatch         StdAc
      |                                     \     /     \            |
    IRrecv_proof                            IRcodec   IRformats    19 modules Ac*
                                               |        |       \        |
                                         IRcodec_proof  ..Rc    ..Ac    Remotes
                                               |          \       |
                                    IRmanchester_proof     \   ..AcRest
                                                            \   /
    StatusPage --- StatusPage_proof                        IRdecode --- IRdecode_proof
    IRac --- IRac_proof                                       |
    Worker --- Worker_proof --- MCWorker                  MCIRdecode

A module `X_proof` extends `X` and holds its theorems; `Induction` holds the
lemmas on natural numbers that the proofs of the page, the codec and the decode
order use. The proof of `RoundTrip` is in two modules: `IRcodec_proof` has what
concerns all codings and those whose bits are told by the lengths of pulses,
`IRmanchester_proof` the other two. The MC modules name
instances; the runs of the capture, the codec, the page and the A/C object need
none and instantiate `IRrecv_proof`, whose invariant they check, `IRcodec`,
`StatusPage` and `IRac`.

### IRrecv: the capture

One action per statement of the sketch's thread that reads or writes shared
state, one per handler. `pc` names the statement executed next: `d_*` decode,
`c_*` copyIrParams, `r_*` resume, `p_*` pause, `e_*`/`x_*` enable and disable;
`ret` is where `resume()` returns to, as three methods call it. A handler is one
step because it runs above the thread on the same core and the handlers lock
each other out (`os_intr_lock`, `portENTER_CRITICAL`).

| State | Code |
|---|---|
| `rcvstate rawlen overflow rawbuf` | the fields of `params`; `rawbuf[BufSize]` is the heap cell behind the buffer |
| `start now` | the static of `gpio_intr`, and `micros()` counted in edges |
| `timer armed attached gpioEnabled` | timer object, its alarm, the attached handler, the pin's interrupt (ESP32) |
| `save i` | `params_save` and the loop of `copyIrParams` |
| `results holding` | the sketch's `decode_results`; it still reads them |

An entry of `rawbuf` is not a number of ticks but the pair of edges it spans,
so that a hole, a duplicate or a foreign entry can be told. `Esp32` chooses the
build (hardware timer, `gpio_intr_disable`) and `SaveBuffer` the constructor's
argument. On an ESP32 the timer pointer is NULL after `disableIRIn()`;
following it reboots the board (`Reboot`). The decoders are one step, matched
or failed: which of them matches is IRdecode's question.

### IRcapture: what the capture promises

A mailbox for one message: it grows while it listens, is frozen when it is
full, is thrown away as a whole, and what the user took stays what it was.
`IRrecv!CaptureSpec` is the refinement: `full` is `rcvstate = kStopState`,
`message` the first `rawlen` entries, `taken` what `decode()` works on.

### IRsend, IRmatch, IRcodec: a message through the air

`IRsend` turns a message into the list of marks and spaces that `sendData`,
`sendGeneric` or `sendManchester` produce for eight protocols: SAMSUNG
(pulse distance, footer), PANASONIC_AC (two sections of bytes, least
significant bit first), SYMPHONY (constant bit time, no header), ELITESCREENS
(constant bit time, small units), MILESTAG2 (no footer), TRUMA (a lead in front
of the header), AIRWELL (Manchester with footer), ARRIS (Manchester without).
The constants are those of the `ir_*.cpp` files; only the number of bits is a
bound. `Intervals` merges neighbours of the same level, as the pin does.

`IRmatch` is the receiver's side: `match*` with tolerance and excess, the
`min_remaining` guards, `matchData`, `matchBytes`, `_matchGeneric`,
`matchManchester`, as stages that hand on the number of entries used or failure.

`IRcodec` composes them. `Send` fixes the message; `Capture` records one
interval, exact or with the sensor's error; `Silence` is the receiver's timeout,
`Fade` a signal that ends early, `Full` a buffer without room; `Decode` runs the
protocol's matcher over a `rawbuf` that may hold an older capture behind the
end.

### IRformats, IRformatsRc, IRformatsAc, IRformatsAcRest, IRdecode: every protocol

`IRcodec` is exact about four codings and short messages; this group is about
all protocols at once, with their real lengths. `IRformats` tells a message by
sections, each a header, so many bits, a footer and a gap, with the arguments in
the order of `sendGeneric()` and `matchGeneric()`; `Air` is what a message puts
on the air, `MatchWay` what a decoder that goes by sections accepts, with its
tolerance, excess, length check and `offset`. The next three modules have the
`sendXxx` and `decodeXxx` of every protocol `decode()` tries: remote controls,
and air conditioners in two files. The codings that are no sections
(Sony, RC5, RC6, RCMM, Lutron, XMP, MWM, MagiQuest, Lasertag, Multibrackets,
Airwell, Arris, Tcl96) have operators of their own.

`IRdecode` is `decode()`: `Decoders` is its list in its order, `TryNext` goes to
the next decoder that the capture's timing satisfies, `SkipPair` starts over two
intervals further on, `decodeHash` is the end. The capture is made from a
`Sent` message in one of several `Receptions`, and goes through
`crudeNoiseFilter()` first. Abstractions:

* Data are three patterns (zeros, ones, one bit in three). A decoder that looks
  at the data (fixed bytes, inverted bytes, checksums) is `checked`: it takes its
  own messages, and whether it refuses a foreign one with the right timing is a
  nondeterministic choice.
* Behind the end of a capture there is a 0, which `decode()` writes.
* `bufsize` is large enough.

Its properties: the message goes to whoever is asked first and can take it
(`FirstToTake`); its own decoders know it (`Recognised`), so that it is never left
to the hash (`NeverMissed`); noise is not taken for its beginning
(`NoiseIgnored`); another protocol's decoder takes it neither by timing alone
(`Unmistaken`) nor when a comment has its own asked before (`TakenInOrder`); the
bits are read as sent (`ReadBack`); the filter leaves nothing of a flash
(`FlashForgotten`).

### IRac

`next` and `prev` are the object's states, `appliance` the settings that are on
at the unit, which is external. A state is its protocol, its mode and the set of
settings that are on; only settings that some protocol tells as a change are
kept. `SetProtocol`, `SetMode`, `Edit` are the sketch writing to the public
member `next`; `SendAc` is `sendAc()` with all it calls: `cleanState`,
`handleToggles`, the protocol's own function (`Carried`, `Flipped`: what of the
changes its message has, and `Taken`: what it has as values), `markAsSent`.

`Supported` are the protocols the tables know: all cases of `handleToggles()`,
the three whose function or `sendAc()` compares a setting with `_prev` itself
(`Compared`: LG6711A20083V's swing, HAIER_AC160's light; `Marked`: HITACHI_AC1's
power and swing, sent as values beside a bit that asks to take them), and GREE
for all that tell nothing as a change. `sharp()` compares once more what
`handleToggles()` has already made a change (`SharpSwing`), and what it asks of
the light its later setters overwrite (`NotPassed`), so the light of SHARP_AC is
never toggled. With `Careful` the sketch sends only what `CanBeSent` allows,
which names the four ways in which a wish cannot be put into a message; the
fourth is the swing of SHARP_AC, for which `SwingFollows` fails (section 6).

Swing and sleep are on or off: positions and hours are values, which are sent as
they are. So are HITACHI_AC1's horizontal swing, MIDEA's quiet, the settings
SAMSUNG_AC is given with their previous values, and LG's other models.

### The protocol classes: StdAc, 19 modules Ac*, Remotes

`StdAc` has the enumerations of `namespace stdAc` and what every class shares.
A module `Ac...` holds up to six classes, each with the same parts, prefixed by
the class's name: `Object` (the fields of its message, and what it keeps beside
it), `stateReset`, one operator per setter from object to object, `convertXxx`,
`toCommon`, the function of `IRac` that sets one up for a wish (in IRac's order),
`Init` (a new object, or one made by IRac for any of `Wishes`), and `Next`: any
setter with any argument. Then the properties: `TypeOK` (each field in what its
bits can carry), `Rules` (what the class says of settings together), `Rereads`
(a state that `toCommon` reads is set up again as the same message, but for the
settings named in `lost`), and `PowerCycles` where power shares a field.

| Module | Classes |
|---|---|
| `AcAirtonToBosch` | Airton, Airwell, Amcor, Bosch144 |
| `AcArgo` | Argo (WREM2), Argo WREM3 |
| `AcCarrierToDelonghi` | Carrier64, Coolix, Corona, Delonghi |
| `AcDaikin` | Daikin, Daikin2, Daikin216, Daikin312 |
| `AcDaikinSmall` | Daikin64, 128, 152, 160, 176 |
| `AcEcoclimToEurom` | Ecoclim, Electra, Eurom |
| `AcFujitsu` | Fujitsu |
| `AcGoodweatherToKelvinator` | Goodweather, Gree, Kelvinator |
| `AcHaier` | Haier, Haier176 (with YRW02), Haier160 |
| `AcHitachi` | Hitachi, Hitachi1, 424, 264, 296, 344 |
| `AcKelon` | Kelon, Kelon168 |
| `AcMideaToRhoss` | Midea, Mirage, Neoclima, Rhoss |
| `AcMitsubishi` | Mitsubishi, 112, 136, Heavy88, Heavy152 |
| `AcPanasonic` | Panasonic, Panasonic32 |
| `AcSamsungLg` | Samsung (and its send()), LG |
| `AcSanyoSharp` | Sanyo, Sanyo88, Sharp |
| `AcTclToTeco` | Tcl112, Technibel, Teco |
| `AcToshibaToTruma` | Toshiba, Transcold, Trotec, Trotec3550, Truma |
| `AcVestelToYork` | Vestel, Voltas, Whirlpool, York |

`Remotes` instantiates all of them over the same two variables, `remote` (the
class) and `ac` (the object), and states the properties of all of them; its
initial state picks the class.

### Worker

A request is a handler at one of its awaits (`computing`, `recording`,
`inserting`, `selecting`, `selected`). `Record` is `recordEvent` up to its
await: the global first, then the INSERT, which `Commit` makes a row, at once,
late, after its isolate has died, or never (`InsertFailed`). `Restart` evicts
an isolate with its global and its handlers. D1 and the clocks are external.
`floor`, for the properties only, is the stamp of an event the client knew to be
recorded when it asked.

### StatusPage

`ticks` are the polls under way, each unanswered or with its answer; `Arrive`
is the rest of `tick()` after its await (`renderLatest`, `updateControls`,
`remember`, `saveDetected`). `Lost` is a fetch that rejects. `AnswerError` is a
failed SELECT: `onError` answers 400 and `{error}`, and `tick()`, which does not
look at `res.ok`, takes that for the answer of an empty log. LocalStorage begins
with any list that earlier visits can have left. Buttons, fan,
removal, generate and reload are actions of their own. `GeneratesDisplayed` is
stated there and not run: see section 6.

## 3. The runs

| Run | Instance | Distinct states | Shows |
|---|---|---|---|
| `capture_saved` | ESP32, save buffer, 3 entries, 6 edges | 577,466 | results are contiguous, a stopped capture is frozen, edges stay in the buffer, and the code refines the mailbox |
| `capture_live` | ESP8266, no save buffer, 2 entries, 5 edges | 36,466 | the inductive invariant of the proofs, the refinement, and the two liveness properties |
| `worker_log` | 3 requests, 2 isolates, 2 clock values, 1 restart, with and without D1 | 308,684 | the inductive invariant of the proofs; what was answered is stored; latest is fresh |
| `page` | 3 protocols, one of them an A/C's, lists cut to 2 and 3, 2 events, 2 polls, 1 reload | 748,208 | the list stays in order, equal to its stored copy; removed stays removed; the page ends up showing the last event |
| `ac_in_step` | `Supported`: every protocol that tells a setting as a change, and one that does not | 236,808 | the appliance has on what was last sent |
| `codec_round_trip` | 8 protocols, every message of 4 bits (or 1 + 2 bytes of 2), both timeouts | 556,960 | sent is read, cut is not read as another message, old entries are not read |
| `ac_remotes` | 66 classes, any setter with any argument, any wish through IRac | 1,022,467 | the four properties of section 2 for every class |
| `decode_order` | every message format, 3 patterns, 6 receptions, one pair skipped | 7,664 | no message is missed or mistaken but for those listed in `IRdecode`; who takes a message is the first who can; noise is no beginning; the bits read are those sent; the filter takes a flash out and nothing else |
| `heap_stomped`, `capture_hangs`, `ac_off_resent`, `ac_sharp_swing` | smallest instances | | the disagreements of section 6 |

### Bounds and why they are enough

* **Buffer of 2 or 3 entries, 5 or 6 edges** (`BufSize`, `MaxEdges`). The code
  compares `rawlen` with 0, 1 and `bufsize` only. Three entries have a first, a
  middle and a last one; six edges fill the buffer, overflow it and begin a
  second message, so that every race of a reset with a capture occurs. The
  proofs need neither bound.
* **Three requests on two isolates** (`Requests`, `Isolates`). Two writers and
  a reader, or a writer and two readers, on the same isolate or not; a clock of
  two values has equal and different stamps; one restart separates an answer
  from the next read (`MaxTime`, `MaxRestarts`). The proofs need none of them.
* **Page**: three protocols with a list cut at two, which may be full from the
  start, force an item out of it; two polls under way overtake each other, and
  of two events one is old; `MaxSaved` is larger than `MaxDetected`, as 12 is
  than 8. Only an A/C's response has an `.ac`; one protocol of that kind
  suffices, as the controls do not look at the protocol.
* **A/C object**: none; the state space is finite. The initial state picks the
  protocol.
* **A/C classes**: none on the number of calls; every class is explored to the
  end. Arguments are the enumerations, and of numbers those at the limits, one
  beyond them and one between (`Around`). A field that no other setter or
  conversion looks at is left out of its class.
* **Decode order**: messages have their real number of bits. Three patterns have
  the shortest, the longest and a mixed message of each format. The receptions
  are a message as the Worker is told it, in whose build (`UNIT_TEST`) Sharp's and
  Denon's decoder wants the inverted copy too, captures at 15 ms and 50 ms, exact and
  with marks 50 us too long (`kMarkExcess`, what the library expects of
  sensors), one behind two intervals of noise, one with a flash in its first
  space. `max_skip = 1` suffices for two intervals of noise.
* **Codec**: four bits give each coding all pairs of neighbours, hence every
  merge of half periods, and both orders; two bytes in the second section have
  a first and a last one. Durations, tolerances and excess are the code's own;
  the timeouts are `kTimeoutMs` and one of 50 ms, as sketches construct for
  A/C remotes. `Jitter = 100` us is what the code's `kMarkExcess` of 50 us and
  its 25 % windows leave room for in all eight protocols at once; the sensor
  distorts every interval so, or any one of them (`MaxNoisy`). With two
  intervals distorted independently the properties hold as well (3.8 million
  states; too long to keep).

`CHECK_DEADLOCK FALSE` is given where the system really stops: the Worker when
all requests are answered, the codec and `decode()` after one message, an A/C
object whose setters no longer change it.

Each property of a passing run has a mutant: a plausible slip in the code (a
dropped guard, a forgotten save, an off-by-one copy, decoders in another order)
under which TLC finds the property violated on the same instance.

## 4. Fairness

* **Capture** (`FairSpec`). The thread executes its statements (weak fairness):
  interrupts return. An armed timer fires (weak). The sketch's `loop()` polls
  `decode()` again and again (strong, since a poll is only enabled between
  calls), and one that holds results without a save buffer eventually calls
  `resume()`, which the comment of `resume()` asks for. Edges are not fair:
  silence may last for ever.
* **Page** (`FairSpec`). `setInterval` keeps calling `tick` (weak). The oldest
  poll is answered, and its answer arrives, if that is possible again and again
  (strong): polls may be lost, but not all of them. From some time on the reads
  of a log that has events do not fail: as a failed read resets the display,
  `MirrorsInTheEnd` is false of reads that fail for ever, and the page shows the
  last event again one poll after they stop. Nothing is assumed of the user or
  of the server's other clients.
* The Worker, the A/C object and classes, the codec and the decode pipeline have
  safety properties only.

## 5. The proofs

Checked by TLAPS, for every value of the constants that satisfies the modules'
assumptions (`BufSize` positive, `MaxEdges` a natural number, the switches
Boolean; `MaxTime` positive, `NoEvent` no event; nothing about `Remotes`,
`Requests`, `Isolates` or `Protocols`, which may be infinite; of `Receptions` and
`max_skip` their types, and that noise comes in pairs; of the codec what its
subsection below says).

### IRrecv_proof

`Inductive: Spec => []IInv`. None of the properties is inductive alone; `IInv`
adds what statements and handlers rely on without checking it:

* `StoppedWhenNeeded`: while `decode()` clears, copies or points at the buffer,
  `rcvstate` is `kStopState`; without a save buffer this goes on until the
  sketch lets go. Hence no handler can store an entry there.
* `ControlFlow`: which statements belong to which way of decoding, and that
  `enableIRIn()` arms a detached receiver.
* `StateAgrees`: a capture in progress has its last edge in `start`, and an
  idle receiver has entries only between the first two stores of `resume()`.
* `CaptureContiguous`: the buffer is one stretch of the signal, except in that
  window of `resume()`, where an edge may store one foreign entry; the next
  store discards it.
* `CopyFaithful`: the copied part of the save buffer equals the original, and
  the complete copy is contiguous whatever happens to the original after it.

From it: `TypeCorrect` (in particular `rawlen <= bufsize`),
`ResultsAreContiguous`, `StoppedStaysFrozen`, and `OnlyDecodeStomps`, which says
that `decode()`'s clearing is the only write behind the buffer. Each step lemma
treats one conjunct, with one case per action that can disturb it.

### IRrecv_proof: the refinement

`CaptureRefined: Spec => CaptureSpec`: the handlers and the sketch's statements
implement the mailbox of `IRcapture`. The refinement maps `message` to a slice of
the buffer, so a few lemmas say what a slice of a longer, an equal or an
overwritten buffer is. `MailboxStep` lists what the mailbox may do to `full`,
`message` and `taken`; `StepRefines` shows, statement by statement and from
`IInv`, that every step is one of these or leaves all three alone. The cases
that need the invariant are those where a handler might write into what
`decode()` works on: an edge (`EdgeListens`), the end of the copy
(`CopyTakes`, from `CopyFaithful`) and the live buffer handed out (`AliasTakes`,
from `StoppedWhenNeeded`).

### IRac_proof

`AlwaysInStep: ASSUME Careful = TRUE PROVE Spec => []InStep`, with `TypeCorrect`
and `Inductive`, for every subset of `Supported`; the tables are those of
`handleToggles()` and of the protocols' functions, so the theorem says nothing of
a protocol they do not name. Three facts are added to the properties: `FirstSend` (before the
first send `_prev` is the initial state, which is why `handleToggles()` may
leave the first state alone) and `PrevIsClean` (a state that was sent with mode
Off had a toggled power off, so that `markAsSent(next)` and
`markAsSent(cleanState(next))` agree) and `NoSharpSwing` (`sharp()` finds no swing
in `_prev`). `TablesApart` says that no setting is compared with `_prev` twice but
SHARP_AC's swing. The lemma `SendKeeps` then compares the appliance with the
state setting by setting: power taken as sent, power as a toggle, and every other
change. Without `Careful` the theorem is false, as `ac_off_resent` shows for
`PrevIsClean` and `ac_sharp_swing` for `NoSharpSwing`.

### Worker_proof

`Inductive`, `TypeCorrect`, `AlwaysStored` and `AlwaysFresh`: `AnsweredIsStored`
and `LatestIsFresh` for any number of requests, isolates and restarts.
`LatestIsFresh` speaks of an answer only; the invariant says what makes it come
true while the handler is still under way:

* `FloorCanBeFound`: a GET before its SELECT has a row in the table that is as
  new as what its client knew of; after it, it holds such an event, or, without
  the binding, its isolate's global is one.
* `MemoryKeepsUp`: without the binding the global is no older than anything its
  isolate has answered in its present life. This is what `recordEvent` relies on
  when it overwrites the global without comparing stamps, and it needs
  `StampedBefore`: a global was stamped by its isolate's own clock, which does
  not go back.
* `OfThisEpoch`: a handler under way belongs to the present life of its isolate,
  so a restart ends every handler that could read a lost global.
* `KindsAgree`, `HasMade`, `NothingStored`: which awaits belong to a POST, and
  that nothing is stored or awaited without the binding.

The proof rests on rows never being deleted and on an isolate's clock never
being set back; with a clock that goes back `MemoryKeepsUp` fails.

### Induction

What a loop computes is a recursive function in the model, `upto[0]` its start
and `upto[i]` its i-th turn. The library's induction rule takes a predicate,
which the provers cannot instantiate; `UpTo` takes the set of numbers for which
the claim holds instead: a set with 0 that holds i whenever it holds i - 1 is
all of `0 .. n`. `StepByStep` and `StepByStepType` unfold such a function.
`LeastElement` is the same fact read backwards.

### StatusPage_proof

`TypeCorrect`, `DetectedStaysInOrder` and `RemovedComesBackOnlyShown`, for any
set of protocols and any bounds with `MaxDetected <= MaxSaved`, the one relation
of the code's 8 and 12 that matters: a shorter stored list would lose items at a
reload. `Inv` adds that every answer under way, and what is shown, is an event of
the log. `remember()` filters the list; the lemmas on `Without` say that what is
left of a list without repetitions is one, that it holds all but the protocol
filtered out and is shorter when that was there, by induction along the list.
`RemovedComesBackOnlyShown` treats the actions one by one: only `RenderLatest`
calls `remember()`, and a reload reads the list that was saved.

### IRcodec_proof

For any number of bits per message and per byte, any timeout the constructor
lets through (`kMaxTimeoutMs`: 130 ms) and any jitter up to 300 us:

* `BitsRead` is `matchData()` in closed form: it succeeds exactly when each pair
  of intervals is a one or a zero by the windows, ends behind the last interval
  it read, and returns those bits in their order.
* `StaleNeverRead: Spec => []StaleUnread`. The property compares two runs of a
  decoder, on a buffer that ends with the capture and on one with an older
  capture's entries behind it. It holds because every matcher checks the
  remaining length for all it is going to read, or reads one interval at a time
  behind a check. The lemmas follow the call tree from the bottom: each says that
  a matcher returns the same on two buffers that agree as far as the capture goes
  (`Same`), provided the capture has what its caller's check promised
  (`BitAgrees`, `BitsAgree`, `BytesAgree`, `WordsAgree`, `GenericAgrees`,
  `ConstBitTimeAgrees`, `ManchesterDataAgrees`, `ManchesterAgrees`,
  `SectionAgrees`, `MessageAgrees`). `Fits` is what a protocol must satisfy for
  it, and `ProtocolsFit` shows it of the eight. One read is not covered:
  `matchManchester()` looks for a footer mark at the end of the capture, too.
  `decode()` clears that entry unless the capture has filled rawbuf, which is
  why the property leaves out Manchester messages that have.
* `TypeCorrect` needs the sender's side: the lemmas `Suits` and `IntervalsType`
  bound every interval a protocol can produce, so that what the recorder stores
  is a positive 16-bit number of ticks for every jitter assumed.

Trying to prove `TypeOK` of the codec showed that it had been checked for less
than it said: an implication inside a bulleted conjunction had taken in the
bullets after it, so that most types were only claimed of captures that
overflowed. The two are separate bullets now.

#### Bits told by the lengths of pulses

Of the six protocols whose bits are told by the lengths of marks and spaces,
every message that is recorded to its end is read back, and a capture that was
cut is never read as another message (`KeptRead`), for any number of bits and
every timeout, if `Jitter <= 100`, the value of the run. The bound is sharp: with
101 us TLC finds that a short space of SYMPHONY falls out of its window, which is
400 us less 25 percent. The argument goes from the light to the data:

* What is on the air. `WordOnAir`, `SectionOnAir`, `SingleOnAir` and `PairOnAir`
  give each position of `sendMessage()` its mark or space; such light alternates
  (`Whole`, `Alternates`), so `Intervals` leaves it as it is, but for the last
  space, which runs into the gap (`IntervalsAlternate`, `IntervalsContinue`).
  `Repeats` and `GenericHeard` say that what `sendGeneric()` adds only comes
  behind: what is heard begins with what is heard of the first sending.
* What is seen of it. `Sees` is what the sensor may make of an interval.
  `MarkSeen` and `SpaceSeen` say that a pulse seen so is within its own window,
  for the tolerances and excesses the six use and lengths from 400 us on;
  `MarksApart` and `SpacesApart` that it is outside the other bit's.
* What is read. From `BitsRead`: `WordRead` (a word whose intervals are seen is
  read back), `OrderedBack` (in either order of bits), `WordsRead`, `SectionRead`
  and `GapRead` (header, footer, and the gap that a capture may lack), and
  `ConstBitTimeRead` for the protocols whose last space is one with the gap.
* `Understood` joins the three: whoever sees the beginning of what is heard
  decodes the message or nothing (`ReadsBack`), and the message if no more than
  the gap is missing. `OneWordUnderstood`, `ConstBitUnderstood` and
  `TwoSectionsUnderstood` prove it of three kinds of protocols, from conditions
  on the numbers alone; a lemma for each of the six checks its numbers.
* `Kept` is the invariant, inductive together with `Inv` of `IRcodec_proof`: air
  is what was sent, each entry of rawbuf is what the sensor may make of its
  interval, and a capture that was not cut ends before an interval as long as
  the timeout.

### IRmanchester_proof

`ReadBack: Spec => []RoundTrip` and `ReadAsNoOther: Spec => []NeverOther`, for all
eight protocols. Both assume `Jitter <= 100`; the first also that the number of
bits is even if ARRIS is among the names: the code fixes it at 32, and with an odd
number the claim is false, since `matchManchester()` asks for one interval more
than such a message has (section 6). In AIRWELL and ARRIS a bit is two half periods,
and two that are both light or both dark are heard as one interval, so that
intervals do not correspond to bits. The proof keeps books on where bits lie:

* What is heard. `HalvesOnAir` gives the halves of each bit; `Lies` says which
  interval holds the second half of bit i (`at[i]`), alone or together with the
  first half of the next, and `WordHeardAs` that every word lies so, by induction
  over the bits (`LiesFurther`). `BodyHeard` puts the word behind the header, whose
  last part may run into the first half.
* How it ends. A message without footer ends in the gap (`GapHeard`: the last dark
  half is one with it); AIRWELL's footer is the header of the next sending
  (`HeaderHeard`), so that its three sendings overlap (`RepeatedOnAir`).
* What is seen of it. An interval is near one half period or far from it
  (`Near`, `Far`), and a sensor with 100 us of jitter shows which (`ShownWord`).
* What the reader makes of it. `Ran` relates the reader after i bits to the word:
  the entry it looks at, and what is left of it in the bank of unspent time.
  `BitRan` is the step for one bit, `LastRan` for the last, whose second half the
  gap or the footer may have swallowed; at the end of a cut capture the reader has
  `Ended`. `RanAll` and `WordRan` conclude by induction. `FarHeader` and
  `CloseHeader` do the same for the header, whose rest is what the bank starts
  with, and `FooterRead` for the footer.
* `FarRead` and `CloseRead` join these for protocols with AIRWELL's and ARRIS's
  numbers: who sees the beginning of what is heard refuses it or reads the word.
  `AirwellKept` and `ArrisKept` add, from `Kept`, that a capture that was not cut
  is long enough for `min_remaining`, for which `LaysBehind` counts intervals.

### IRdecode_proof

`decode()` is 140 calls in a fixed order inside a loop over pairs of intervals, and
a filter in front. What each decoder takes is a table; what the order, the loop
and the filter make of it is proved, for any receptions and any `max_skip`.

* `DecodeTypes` and `TakenByTheFirst: Spec => []FirstToTake`. `TypeOK /\ FirstToTake`
  is inductive: whoever was asked before the decoder that took the message, at
  this pair or at one passed over, has refused it. `TypeOK` is needed because
  `SkipPair` carries the refusals of the pair over only if all 140 were asked
  (`taken = 0` and `tried` at the end). `DecodersMade` and `Places` say where in the
  list each decoder is: the list is a concatenation of three, too long for the
  provers to expand in one piece.
* `ReadableIsTaken: Spec /\ Recognised => []NeverMissed`. If one of the message's own
  decoders knows its timing where it begins, the loop reaches that decoder there
  or someone has taken the message before (`NotPassedOver`).
* `TakenInTheOrderTold: Spec /\ Recognised /\ []NoiseIgnored => []TakenInOrder`. The
  comments in `decode()` say which decoders must come before which
  (`ToldBefore`). `TriedBefore` proves that the list has them so; with
  `FirstToTake` no message is taken by the later one (`InTheOrderTold`). Without
  `NoiseIgnored` it does not follow: a decoder at the end of the list that took
  noise for a beginning would be asked before the message's own is.
* `FlashNeverSeen: FloorFits => (Spec => []FlashForgotten)`. `crudeNoiseFilter()` is a
  recursive function over the entries that are too short. `OneShort` says that
  with one short entry it ends after one merge, `Mended` that the merge joins
  the two halves of the space and the flash to the space that was (in 16 bits,
  without wrapping, as the sum is an entry of the undisturbed capture), and
  `Split` where `Disturbed` puts them. `FloorFits` is what a sensible noise floor
  is: shorter than every interval of the message, and than what a flash leaves
  of its first space, and longer than the flash.

`Recognised` and `NoiseIgnored` speak of the table and are invariants of the run
over every format; `FloorFits` is an assumption that TLC evaluates in
`MCIRdecode`. The proofs led to two changes of the model: the filter was a fold
and is a function now, and that noise comes in pairs of intervals, which
`NeverMissed` needs, is part of `ReceptionsAssumption`.

### Only model-checked

* Liveness (`ListensAgain`, `CaptureEnds`, `MirrorsInTheEnd`): the prover has no
  rules for fairness and ENABLED.
* `Recognised`, `NoiseIgnored`, `Unmistaken` and `ReadBack` of `IRdecode`: they say
  what the timings of some 130 formats do to each other, a table that TLC
  evaluates and a prover would have to expand format by format. `FloorFits` is
  evaluated too, of the run's receptions.
* The A/C classes (`Remotes`): the module has no constants and no bound on the
  calls. TLC explores all of its states, so the run of `ac_remotes` is already
  a proof of its four properties, within the arguments section 3 names.

## 6. Disagreements between code and documentation

| Run | What happens |
|---|---|
| `heap_stomped` | A capture of exactly `bufsize` entries that times out has `overflow` FALSE; `decode()` then clears `rawbuf[bufsize]`, which the comment at `IRrecv.cpp:603` wants to avoid. |
| `capture_hangs` | ESP32: an edge between the stores of `resume()` and its `timerAlarmDisable` starts a capture whose timeout is off; it ends only with a later edge, against `IRrecv.cpp:275`. |
| `ac_off_resent` | `sendAc()` sends `cleanState(next)` but remembers `next`: mode Off with power on, sent twice, switches a KELON on; `IRac.cpp:2964` says power is enforced off. |
| `ac_sharp_swing` | `handleToggles()` has made SHARP_AC's swing a change (Auto) or none (Off), and `sharp()` sends that only if it differs from the swing in `_prev` (`IRac.cpp:2491`): with the swing on, the same state sent again stops it, and a wish to stop it sends nothing; `IRac.cpp:3024` and 3026 say "It changed, so toggle." and "No change, so no toggle." |

Met while modelling and not kept as runs (a property that states it is in the
module, or the property that holds leaves the case out by name):

* `generateCurrent()` posts the inferred temperature, not the displayed one
  (`GeneratesDisplayed` of `StatusPage` fails for every edit);
  `worker/README.md:60` says the displayed state is generated;
* a Manchester message without footer that is cut is read as a shorter one,
  widened with zeros; `test/IRrecv_test.cpp:1771` expects a too short one to be
  refused (`NeverOther` of `IRcodec` leaves this coding out);
* Argo WREM3's flap positions are read upside down: `ir_Argo.h:236` calls
  FLAP_1 the highest, `ir_Argo.cpp:1173` reads it as the lowest;
* a wish to dry is sent to a DAIKIN128 as one to cool: `ir_Daikin.cpp:2620`
  uses another class's constant;
* Argo WREM2's message ends with the space of its last bit, which a receiver
  cannot tell from silence; `ir_Argo.cpp:1705` doubts it, too. A lone capture of
  ARGO 96 lacks that space and is taken by ARGO 32;
* the comment at `IRrecv.cpp:1233` says `decodeHash` answers for any input; it refuses fewer
  than six entries.

Observed while modelling, without a document that says otherwise:

**Capture and page**

* on an ESP8266 an edge between `os_timer_disarm` and the detach in
  `disableIRIn()` arms the timer again; on an ESP32 it follows a NULL timer;
* the page goes back to an older event when a poll is overtaken, until the next
  poll; the answer to its own generate becomes the latest event, which has no
  `.ac`, so that the next poll resets the controls;
* a poll whose SELECT fails is answered 400, and `tick()` takes that for an empty
  log (`index.ts:698`): the display is reset until the next poll;
* `/api/latest` may serve an event whose INSERT failed, while the table is empty.

**Decoding**

* MitsubishiAC, Mitsubishi2, Sharp, Denon15, LG32, Whynter, Trotec and Argo ask
  for one interval more than a receiver records of a lone message
  (`NeedTheGap`): with the default timeout only repeated ones are read.
  On a device `decodeSharp()`, and Denon's 15 bits through it, wants one copy of
  the data; built with `UNIT_TEST`, as the tests are and the Worker's library is
  (`package.json:9`), it wants the inverted copy too (`Tested` of `IRformats`);
* some messages are taken by another protocol's decoder that does not look at
  the data (`Lookalikes`): MagiQuest codes with 16 leading zero bits and
  all-zero Sharp and Denon15 by Denon14, some Multibrackets messages by Lutron;
* messages whose data do not survive (`OddData`): Lasertag loses a leading
  space, MWM needs more intervals than three equal bytes have, RCMM refuses
  ones through a sensor that adds 50 us, Multibrackets cannot tell zeros;
* RCMM takes the number of bits from the whole capture (`ir_RCMM.cpp:104`),
  Voltas and ClimaButler ignore the offset: behind noise none is read;
* a capture cut at 15 ms is sometimes a shorter protocol's message: CarrierAC,
  Pioneer and Epson read as NEC_LIKE, HitachiAc424 as Lutron; many A/C protocols
  with several sections need the 50 ms timeout;
* TRUMA's lead of 20.2 ms is longer than the default timeout of 15 ms;
* `min_remaining` of `matchManchester()` is one too high for an odd number of
  bits whose first and last half periods both merge; no protocol has that;
* with a full buffer AIRWELL's footer is looked for at `rawbuf[bufsize]`;
* with `max_skip` beyond the capture `rawlen - offset` goes below zero in 16
  bits.

**Common A/C object**

* COOLIX, TRANSCOLD and MIDEA drop toggles that `_prev` then takes for sent
  (`CanBeSent` rules these out);
* SHARP_AC's light is never toggled: `setMode()` and `setPower()`, called after
  `setLightToggle()`, overwrite the field it shares with them
  (`ir_Sharp.cpp:386`, 502);
* KELON and LG are given `send.degrees` without a unit (`IRac.cpp:3491`, 3512);
  ARGO's timer takes unset clock and sleep (-1) as 23:59 and 19:50 (3181); EUROM
  takes sleep = -1 for on (3352).

**Protocol classes.** What a class's `Rules` and `Rereads` leave out, by name:

* lost on the way through `IRac`: turbo of Vestel and Whirlpool, Sharp's clean,
  Rhoss's degrees when read, Kelvinator's automatic swings, the special
  temperatures of Delonghi, Daikin152 and Hitachi's Fan mode (a `setTemp` after
  `setMode` overwrites them), Kelon's mode when supercool ends
  (`IRac.cpp:1836`); Transcold's Fan becomes Dry; Mitsubishi136's and 112's Min
  and Heavy88's Max without econo or turbo become Low and Auto; Fujitsu's
  horizontal swing becomes a vertical one on three models
  (`ir_Fujitsu.cpp:533`), its 10C heat becomes Fan at 16C, its clean and filter
  are read as off; Daikin64's Auto becomes Cool and its Min and Max Auto;
  Daikin160's low speeds grow each time; Fahrenheit wishes of Haier160, 176 and
  YRW02 are sent as Celsius but for 77;
* undone by another setter: Carrier64's off timer by sleep (`ir_Carrier.cpp:493`);
  Coolix's mode Dry by an earlier Fan, and its off command by any setter after it
  (`ir_Coolix.cpp:341`); Fujitsu's and Haier's off by any setter after it; TCL's
  model by a quiet change (`ir_Tcl.cpp:88`); Hitachi424's swing by any later
  button; Hitachi1's `setFan` does nothing in Heat and Fan
  (`ir_Hitachi.cpp:617`); Mitsubishi's wide vane by `setMode`; Heavy152's clean
  by `setFilter`; Panasonic's timers and power by `setModel`, and its LKE reads
  as NKE once it is on (`ir_Panasonic.cpp:256`); Toshiba's turbo and econo by
  off; Sharp's model A705 reads as A903 in Auto and Dry;
* copies that are not kept up: Samsung's `_lastSleep` (`ir_Samsung.cpp:387`),
  LG's horizontal swing (`ir_LG.cpp:591`), Eurom's after `setRaw`, Coolix's
  `_saved` after `setRaw` of an off command (uninitialised);
* ranges: Trotec's timer puts hours into one bit (`ir_Trotec.cpp:207`), Trotec3550
  casts -1.0 to unsigned at 59F, York's timer wraps at 2560 minutes and Sanyo's
  at 60 * 256, Kelon168's 32C wraps to 16C, Gree loses a degree at 70F and 79F,
  Midea up to one when the unit changes, Daikin2's and 312's vertical swing is
  off by one (`ir_Daikin.cpp:892`, 4040), Argo's `stateReset` after a report of
  the room writes over the temperature (`ir_Argo.cpp:415`); new objects of
  Daikin2, 128, 152, 216 and Panasonic have the temperature 0 until one is set.

## 7. What is not modelled, and why

* Data: what a decoder asks of the bits (fixed and inverted bytes, checksums) is
  the nondeterministic choice of `checked` decoders; the value of `decodeHash`;
  `getRaw`, `setRaw` and checksums of the protocol classes.
* The other forms of `sendAc()`: the one with explicit arguments compares the
  state with itself, so that no toggle ever fires.
* `send()` by protocol, `sendRaw`, the carrier and its calibration: pulses below
  what the receiver resolves.
* Utilities (bit order, BCD, checksums), texts, locales, Global Cache and Pronto:
  pure conversions.
* `IRtimer` and `TimerMs`: two counters over a 32-bit clock. Across a wrap
  `elapsed` is one short (`IRtimer.cpp:26`), and under `UNIT_TEST` `TimerMs::add`
  moves `IRtimer`'s clock.
* The native bridge, its generated headers and `ir.ts`: stateless dispatch; the
  Worker model takes a call as a step that answers or throws. A module that
  fails to load is never loaded again by its isolate (`ir.ts:184`).
* The oracle and the scripts.
* Two tabs sharing localStorage; lost infrared messages (nothing detects them).

## 8. The plan

1. Done: capture with its mailbox, its proofs and its refinement proved; API with
   its proof; page; common A/C with its proof; senders, matchers and their
   composition; all formats and the decode pipeline; 66 protocol classes.
2. To model: the checks of data in the decoders that share their timing
   (NEC-like ones, Samsung and LG, Mitsubishi112 and Tcl112), so that `checked`
   is no longer a choice for them; the page composed with `Worker` instead of an
   external log; a class under `IRac` with the appliance that receives it, as in
   `IRac.tla` but with the class's own fields; timers with a wrapping clock.
3. Proved since: the page's safety properties; the codec's types and that no
   decoder reads what an older capture has left; `matchData()` in closed form;
   `RoundTrip` and `NeverOther` of all eight protocols; the order, the loop and the
   filter of the decode pipeline.
4. To prove: `Recognised` for messages of any data, format by format; `Rules` of a
   class whose argument is more than a case split (Kelon's way back from
   supercool, Samsung's choice between two messages).
