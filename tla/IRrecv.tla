------------------------------- MODULE IRrecv -------------------------------
(***************************************************************************)
(* The capture half of src/src/IRrecv.cpp: the interrupt state `params`,   *)
(* the two interrupt handlers gpio_intr() and read_timeout(), and the main *)
(* thread (an Arduino sketch) calling decode(), resume(), pause(),         *)
(* enableIRIn() and disableIRIn().                                         *)
(*                                                                         *)
(* The main thread is modelled statement by statement; a handler is one    *)
(* atomic step, because both run above the main thread on the same core    *)
(* and lock each other out (os_intr_lock, portENTER_CRITICAL).             *)
(***************************************************************************)
EXTENDS Integers, Sequences

CONSTANTS
    BufSize,      \* bufsize, the entries of params.rawbuf
    SaveBuffer,   \* the constructor's save_buffer: decode from a second buffer
    Esp32,        \* TRUE: the ESP32 build (hardware timer), FALSE: the ESP8266 build
    MaxEdges      \* bound: level changes of the receiver pin in a behaviour

ASSUME BufSizeAssumption == BufSize \in Nat \ {0}
ASSUME SaveBufferAssumption == SaveBuffer \in BOOLEAN
ASSUME Esp32Assumption == Esp32 \in BOOLEAN
ASSUME MaxEdgesAssumption == MaxEdges \in Nat

VARIABLES
    rcvstate,     \* params.rcvstate
    rawlen,       \* params.rawlen
    overflow,     \* params.overflow
    rawbuf,       \* params.rawbuf, and one cell more: the heap behind it
    start,        \* gpio_intr's static start: when it last stored an entry
    now,          \* micros(), told by the number of level changes so far
    timer,        \* the timer object exists (ESP32: timerBegin .. timerEnd)
    armed,        \* the timeout timer is running
    attached,     \* gpio_intr is attached to the pin
    gpioEnabled,  \* the pin's interrupt is enabled (ESP32: pause, resume)
    pc,           \* the statement the main thread executes next
    ret,          \* where resume() returns to
    i,            \* copyIrParams's loop counter
    save,         \* *params_save
    results,      \* the sketch's decode_results: rawlen and overflow
    holding       \* decode() returned true and the sketch still reads results

params == <<rcvstate, rawlen, overflow, rawbuf, start>>
hardware == <<now, timer, armed, attached, gpioEnabled>>
thread == <<pc, ret, i, save, results, holding>>
vars == <<params, hardware, thread>>

-----------------------------------------------------------------------------
kIdleState == 2
kMarkState == 3
kStopState == 5

(***************************************************************************)
(* An entry of rawbuf is an interval between two level changes, named by   *)
(* their numbers.  The 1 that gpio_intr stores for the silence before a    *)
(* message spans nothing; the 0 that decode() stores is Cleared, which is  *)
(* also what an untouched cell holds.                                      *)
(***************************************************************************)
Entry == [from : Nat, to : Nat]
Interval(a, b) == [from |-> a, to |-> b]
Gap(t) == Interval(t, t)
Cleared == Interval(0, 0)
Heap == BufSize
Untouched == Interval(0, 1)      \* what the heap cell holds at the start
Cells == 0 .. BufSize
Buffer == [Cells -> Entry]
EmptyBuffer == [c \in Cells |-> IF c = Heap THEN Untouched ELSE Cleared]
Length == 0 .. BufSize
Moment == 0 .. MaxEdges
Irparams == [rawlen : Length, overflow : BOOLEAN, rawbuf : Buffer]
Results == [rawlen : Length, overflow : BOOLEAN]

(* Globals start as zeros; the constructor allocates the buffers. *)
Init ==
    /\ rcvstate = 0
    /\ rawlen = 0
    /\ overflow = FALSE
    /\ rawbuf = EmptyBuffer
    /\ start = 0
    /\ now = 0
    /\ timer = ~Esp32
    /\ armed = FALSE
    /\ attached = FALSE
    /\ gpioEnabled = TRUE
    /\ pc = "loop"
    /\ ret = "loop"
    /\ i = 0
    /\ save = [rawlen |-> 0, overflow |-> FALSE, rawbuf |-> EmptyBuffer]
    /\ results = [rawlen |-> 0, overflow |-> FALSE]
    /\ holding = FALSE

-----------------------------------------------------------------------------
(* The interrupt handlers.                                                 *)

(* The level of the pin changes; no handler runs. *)
Unheard ==
    /\ now < MaxEdges
    /\ ~(attached /\ gpioEnabled)
    /\ now' = now + 1
    /\ UNCHANGED <<params, timer, armed, attached, gpioEnabled, thread>>

(* What an edge heard now stores at index rawlen. *)
Recorded ==
    IF rcvstate = kIdleState THEN Gap(now + 1) ELSE Interval(start, now + 1)

(* The early return: the buffer is full, or the capture has stopped. *)
EdgeDropped ==
    /\ rcvstate' = kStopState
    /\ overflow' = (overflow \/ rawlen >= BufSize)
    /\ armed' = (armed /\ Esp32)        \* os_timer_disarm, ESP8266 only
    /\ UNCHANGED <<rawlen, rawbuf, start>>

(* Mutants of EdgeStored: the static start, or the timer, is forgotten. *)
EdgeStored_StaleStart ==
    /\ rawbuf' = [rawbuf EXCEPT ![rawlen] = Recorded]
    /\ rcvstate' = IF rcvstate = kIdleState THEN kMarkState ELSE rcvstate
    /\ rawlen' = rawlen + 1
    /\ start' = IF rcvstate = kIdleState THEN start ELSE now + 1
    /\ armed' = TRUE
    /\ UNCHANGED overflow

EdgeStored_Unarmed ==
    /\ rawbuf' = [rawbuf EXCEPT ![rawlen] = Recorded]
    /\ rcvstate' = IF rcvstate = kIdleState THEN kMarkState ELSE rcvstate
    /\ rawlen' = rawlen + 1
    /\ start' = now + 1
    /\ armed' = (armed /\ Esp32)
    /\ UNCHANGED overflow

EdgeStored ==
    /\ rawbuf' = [rawbuf EXCEPT ![rawlen] = Recorded]
    /\ rcvstate' = IF rcvstate = kIdleState THEN kMarkState ELSE rcvstate
    /\ rawlen' = rawlen + 1
    /\ start' = now + 1
    /\ armed' = TRUE
    /\ UNCHANGED overflow

(* Mutants of Dropped: the bound is off by one, or the stop is ignored. *)
Dropped_Late == rawlen > BufSize \/ rcvstate = kStopState
Dropped_OnlyFull == rawlen >= BufSize

Dropped == rawlen >= BufSize \/ rcvstate = kStopState

gpio_intr ==
    /\ now < MaxEdges
    /\ attached /\ gpioEnabled
    /\ now' = now + 1
    /\ \/ Dropped /\ EdgeDropped
       \/ ~Dropped /\ timer /\ EdgeStored
    /\ UNCHANGED <<timer, attached, gpioEnabled, thread>>

(* The timer fires once and must be armed again. *)
read_timeout ==
    /\ armed
    /\ armed' = FALSE
    /\ rcvstate' = IF rawlen > 0 THEN kStopState ELSE rcvstate
    /\ UNCHANGED <<rawlen, overflow, rawbuf, start, now, timer, attached,
                   gpioEnabled, thread>>

(***************************************************************************)
(* On an ESP32 gpio_intr and resume() reach the timer through a pointer    *)
(* that disableIRIn has set to NULL.  Following it is an exception, and    *)
(* the board starts again from its initial state.                          *)
(***************************************************************************)
Reboot ==
    /\ ~timer
    /\ \/ attached /\ gpioEnabled /\ ~Dropped
       \/ pc = "r_timer"
    /\ rcvstate' = 0 /\ rawlen' = 0 /\ overflow' = FALSE
    /\ rawbuf' = EmptyBuffer
    /\ start' = 0 /\ now' = 0
    /\ timer' = FALSE /\ armed' = FALSE
    /\ attached' = FALSE /\ gpioEnabled' = TRUE
    /\ pc' = "loop" /\ ret' = "loop" /\ i' = 0
    /\ save' = [rawlen |-> 0, overflow |-> FALSE, rawbuf |-> EmptyBuffer]
    /\ results' = [rawlen |-> 0, overflow |-> FALSE]
    /\ holding' = FALSE

-----------------------------------------------------------------------------
(* The main thread.  Goto moves it on and leaves the rest of it alone.     *)

Goto(label) == pc' = label
At(label) == pc = label
Resume(back) == pc' = "r_state" /\ ret' = back

(* The sketch's loop() calls one of the methods. *)
CallDecode ==
    /\ At("loop") /\ Goto("d_check")
    /\ UNCHANGED <<params, hardware, ret, i, save, results, holding>>

CallResume ==
    /\ At("loop") /\ attached /\ Resume("loop")
    /\ UNCHANGED <<params, hardware, i, save, results, holding>>

CallPause ==
    /\ At("loop") /\ attached /\ Goto("p_state")
    /\ UNCHANGED <<params, hardware, ret, i, save, results, holding>>

(* enableIRIn starts with timerBegin on an ESP32, then calls resume(). *)
CallEnable ==
    /\ At("loop") /\ ~attached /\ Resume("e_attach")
    /\ timer' = TRUE
    /\ UNCHANGED <<params, now, armed, attached, gpioEnabled,
                   i, save, results, holding>>

(* disableIRIn: the timer is stopped, on an ESP32 ended, then the pin. *)
CallDisable ==
    /\ At("loop") /\ attached
    /\ Goto(IF Esp32 THEN "x_timer" ELSE "x_detach")
    /\ armed' = FALSE
    /\ UNCHANGED <<params, now, timer, attached, gpioEnabled,
                   ret, i, save, results, holding>>

disableTimer ==
    /\ At("x_timer") /\ Goto("x_detach")
    /\ timer' = FALSE
    /\ armed' = FALSE
    /\ UNCHANGED <<params, now, attached, gpioEnabled,
                   ret, i, save, results, holding>>

disableDetach ==
    /\ At("x_detach") /\ Goto("loop")
    /\ attached' = FALSE
    /\ UNCHANGED <<params, now, timer, armed, gpioEnabled,
                   ret, i, save, results, holding>>

(* The end of enableIRIn, after its call of resume(). *)
enableAttach ==
    /\ At("e_attach") /\ Goto("loop")
    /\ attached' = TRUE
    /\ gpioEnabled' = TRUE
    /\ armed' = (armed /\ Esp32)        \* os_timer_disarm, ESP8266 only
    /\ UNCHANGED <<params, now, timer, ret, i, save, results, holding>>

-----------------------------------------------------------------------------
(* pause(): three stores, then on an ESP32 the pin's interrupt goes off.   *)

pauseState ==
    /\ At("p_state") /\ Goto("p_rawlen")
    /\ rcvstate' = kStopState
    /\ UNCHANGED <<rawlen, overflow, rawbuf, start, hardware,
                   ret, i, save, results, holding>>

pauseRawlen ==
    /\ At("p_rawlen") /\ Goto("p_overflow")
    /\ rawlen' = 0
    /\ UNCHANGED <<rcvstate, overflow, rawbuf, start, hardware,
                   ret, i, save, results, holding>>

pauseOverflow ==
    /\ At("p_overflow") /\ Goto(IF Esp32 THEN "p_gpio" ELSE "loop")
    /\ overflow' = FALSE
    /\ UNCHANGED <<rcvstate, rawlen, rawbuf, start, hardware,
                   ret, i, save, results, holding>>

pauseGpio ==
    /\ At("p_gpio") /\ Goto("loop")
    /\ gpioEnabled' = FALSE
    /\ UNCHANGED <<params, now, timer, armed, attached,
                   ret, i, save, results, holding>>

-----------------------------------------------------------------------------
(* resume(): three stores, then on an ESP32 the timer and the pin.  Without *)
(* a save buffer it gives the buffer that results points at back to the    *)
(* interrupt handlers.                                                     *)

(* A mutant of resumeState: the state it stores is the wrong one. *)
resumeState_Mark ==
    /\ At("r_state") /\ Goto("r_rawlen")
    /\ rcvstate' = kMarkState
    /\ holding' = (holding /\ SaveBuffer)
    /\ UNCHANGED <<rawlen, overflow, rawbuf, start, hardware,
                   ret, i, save, results>>

resumeState ==
    /\ At("r_state") /\ Goto("r_rawlen")
    /\ rcvstate' = kIdleState
    /\ holding' = (holding /\ SaveBuffer)
    /\ UNCHANGED <<rawlen, overflow, rawbuf, start, hardware,
                   ret, i, save, results>>

resumeRawlen ==
    /\ At("r_rawlen") /\ Goto("r_overflow")
    /\ rawlen' = 0
    /\ UNCHANGED <<rcvstate, overflow, rawbuf, start, hardware,
                   ret, i, save, results, holding>>

resumeOverflow ==
    /\ At("r_overflow") /\ Goto(IF Esp32 THEN "r_timer" ELSE ret)
    /\ overflow' = FALSE
    /\ UNCHANGED <<rcvstate, rawlen, rawbuf, start, hardware,
                   ret, i, save, results, holding>>

resumeTimer ==
    /\ At("r_timer") /\ timer /\ Goto("r_gpio")
    /\ armed' = FALSE
    /\ UNCHANGED <<params, now, timer, attached, gpioEnabled,
                   ret, i, save, results, holding>>

resumeGpio ==
    /\ At("r_gpio") /\ Goto(ret)
    /\ gpioEnabled' = TRUE
    /\ UNCHANGED <<params, now, timer, armed, attached,
                   ret, i, save, results, holding>>

-----------------------------------------------------------------------------
(* decode(), called with save = NULL and noise_floor = 0, its defaults.    *)

(* A mutant of decodeCheck: the capture need not have stopped. *)
decodeCheck_Eager ==
    /\ At("d_check") /\ Goto("d_clear")
    /\ UNCHANGED <<params, hardware, ret, i, save, results, holding>>

decodeCheck ==
    /\ At("d_check")
    /\ Goto(IF rcvstate = kStopState THEN "d_clear" ELSE "loop")
    /\ UNCHANGED <<params, hardware, ret, i, save, results, holding>>

(* The junk entry after the last one is cleared unless the flag says full. *)
decodeClear ==
    /\ At("d_clear")
    /\ Goto(IF SaveBuffer THEN "c_params" ELSE "d_alias")
    /\ rawbuf' = IF overflow THEN rawbuf
                             ELSE [rawbuf EXCEPT ![rawlen] = Cleared]
    /\ holding' = FALSE
    /\ UNCHANGED <<rcvstate, rawlen, overflow, start, hardware,
                   ret, i, save, results>>

(* No save buffer: results points into the interrupt handlers' buffer. *)
decodeAlias ==
    /\ At("d_alias") /\ Goto("d_decoders")
    /\ results' = [rawlen |-> rawlen, overflow |-> overflow]
    /\ UNCHANGED <<params, hardware, ret, i, save, holding>>

(* A mutant of copyStruct: the loop behind it starts at 1. *)
copyStruct_FromOne ==
    /\ At("c_params") /\ Goto("c_rawbuf")
    /\ save' = [save EXCEPT !.rawlen = rawlen, !.overflow = overflow]
    /\ i' = 1
    /\ UNCHANGED <<params, hardware, ret, results, holding>>

(* copyIrParams: the struct, byte by byte, then the buffer. *)
copyStruct ==
    /\ At("c_params") /\ Goto("c_rawbuf")
    /\ save' = [save EXCEPT !.rawlen = rawlen, !.overflow = overflow]
    /\ i' = 0
    /\ UNCHANGED <<params, hardware, ret, results, holding>>

copyEntry ==
    /\ At("c_rawbuf") /\ i < BufSize
    /\ save' = [save EXCEPT !.rawbuf[i] = rawbuf[i]]
    /\ i' = i + 1
    /\ UNCHANGED <<params, hardware, pc, ret, results, holding>>

copyDone ==
    /\ At("c_rawbuf") /\ i >= BufSize
    /\ Resume("d_results")
    /\ UNCHANGED <<params, hardware, i, save, results, holding>>

decodeResults ==
    /\ At("d_results") /\ Goto("d_decoders")
    /\ results' = [rawlen |-> save.rawlen, overflow |-> save.overflow]
    /\ UNCHANGED <<params, hardware, ret, i, save, holding>>

(***************************************************************************)
(* The decoders look at results only; any of them may match, but none      *)
(* matches an empty capture.                                               *)
(***************************************************************************)
decodeMatched ==
    /\ At("d_decoders") /\ Goto("loop")
    /\ results.rawlen > 0
    /\ holding' = TRUE
    /\ UNCHANGED <<params, hardware, ret, i, save, results>>

(* A mutant of decodeFailed: nothing is thrown away. *)
decodeFailed_Kept ==
    /\ At("d_decoders") /\ Goto("loop")
    /\ UNCHANGED <<params, hardware, ret, i, save, results, holding>>

(* None matched: throw the capture away, unless that was already done. *)
decodeFailed ==
    /\ At("d_decoders")
    /\ IF SaveBuffer THEN Goto("loop") /\ UNCHANGED ret ELSE Resume("loop")
    /\ UNCHANGED <<params, hardware, i, save, results, holding>>

-----------------------------------------------------------------------------
Call == CallDecode \/ CallResume \/ CallPause \/ CallEnable \/ CallDisable

Statement ==
    \/ disableTimer \/ disableDetach \/ enableAttach
    \/ pauseState \/ pauseRawlen \/ pauseOverflow \/ pauseGpio
    \/ resumeState \/ resumeRawlen \/ resumeOverflow \/ resumeTimer \/ resumeGpio
    \/ decodeCheck \/ decodeClear \/ decodeAlias
    \/ copyStruct \/ copyEntry \/ copyDone
    \/ decodeResults \/ decodeMatched \/ decodeFailed

Next ==
    \/ Unheard \/ gpio_intr \/ read_timeout \/ Reboot
    \/ Call \/ Statement

Spec == Init /\ [][Next]_vars

(***************************************************************************)
(* The main thread keeps running, an armed timer fires, loop() polls       *)
(* decode(), and a sketch that holds results calls resume() when it is     *)
(* done, as the comment of resume() requires without a save buffer.        *)
(***************************************************************************)
Fairness ==
    /\ WF_vars(Statement)
    /\ WF_vars(read_timeout)
    /\ SF_vars(CallDecode)
    /\ SF_vars(holding /\ CallResume)

FairSpec == Spec /\ Fairness
-----------------------------------------------------------------------------
(* Properties.                                                             *)

Labels ==
    {"loop", "d_check", "d_clear", "d_alias", "c_params", "c_rawbuf",
     "d_results", "d_decoders", "p_state", "p_rawlen", "p_overflow", "p_gpio",
     "r_state", "r_rawlen", "r_overflow", "r_timer", "r_gpio",
     "e_attach", "x_timer", "x_detach"}

(* The values each variable may take. *)
TypeOK ==
    /\ rcvstate \in {0, kIdleState, kMarkState, kStopState}
    /\ rawlen \in Length
    /\ overflow \in BOOLEAN
    /\ rawbuf \in Buffer
    /\ start \in Moment
    /\ now \in Moment
    /\ timer \in BOOLEAN
    /\ armed \in BOOLEAN
    /\ attached \in BOOLEAN
    /\ gpioEnabled \in BOOLEAN
    /\ pc \in Labels
    /\ ret \in {"loop", "e_attach", "d_results"}
    /\ i \in Length
    /\ save \in Irparams
    /\ results \in Results
    /\ holding \in BOOLEAN

(* The buffer results->rawbuf points at. *)
ResultsBuf == IF SaveBuffer THEN save.rawbuf ELSE rawbuf

(* The decoders, or the sketch, read results. *)
ReadingResults == At("d_decoders") \/ holding

(***************************************************************************)
(* The first len entries of buf are consecutive intervals of the signal:   *)
(* each starts where the one before it ended and ends at the next edge.    *)
(***************************************************************************)
Contiguous(buf, len) ==
    \A k \in 1 .. len - 1 :
        buf[k] = Interval(buf[k - 1].to, buf[k - 1].to + 1)

(***************************************************************************)
(* What decode() hands to the decoders and the sketch is one stretch of    *)
(* the signal without a hole or a foreign entry, whatever the handlers do  *)
(* while the thread copies, resumes, pauses or reads.                      *)
(***************************************************************************)
ResultsContiguous ==
    ReadingResults => Contiguous(ResultsBuf, results.rawlen)

(***************************************************************************)
(* IRrecv implements the one-message mailbox of IRcapture.  Taken says     *)
(* from which statement on decode() works on a capture of its own: the     *)
(* copy is complete, or results points at the stopped buffer.              *)
(***************************************************************************)
Slice(buf, len) == [k \in 1 .. len |-> buf[k - 1]]

Resuming == pc \in {"r_state", "r_rawlen", "r_overflow", "r_timer", "r_gpio"}

Taken ==
    IF SaveBuffer
      THEN \/ ReadingResults \/ At("d_results")
           \/ Resuming /\ ret = "d_results"
      ELSE ReadingResults

TakenLen == IF SaveBuffer THEN save.rawlen ELSE results.rawlen

Capture == INSTANCE IRcapture WITH
    full <- rcvstate = kStopState,
    message <- Slice(rawbuf, rawlen),
    taken <- IF Taken THEN Slice(ResultsBuf, TakenLen) ELSE <<>>

(***************************************************************************)
(* The statements of decode() and resume(), with the handlers between      *)
(* them, do what IRcapture promises: a message is handed out as it was     *)
(* when the capture had stopped, and nobody changes it afterwards.         *)
(***************************************************************************)
CaptureSpec == Capture!Spec

(***************************************************************************)
(* A handler that runs when the capture has stopped leaves its entries     *)
(* alone: what decode() and copyIrParams read between statements holds     *)
(* still.                                                                  *)
(***************************************************************************)
StoppedIsFrozen ==
    [][(gpio_intr \/ read_timeout) /\ rcvstate = kStopState
        => /\ rcvstate' = kStopState
           /\ UNCHANGED <<rawlen, rawbuf>>]_vars

(***************************************************************************)
(* Nothing but decode()'s clearing of the entry behind an exactly full     *)
(* capture ever writes behind the buffer: no edge does, however the reset  *)
(* of rawlen races with it.                                                *)
(***************************************************************************)
EdgesStayInBuffer ==
    [][rawbuf'[Heap] # rawbuf[Heap] /\ ~Reboot
        => At("d_clear") /\ rawlen = BufSize /\ ~overflow]_vars

(***************************************************************************)
(* The receiver never stays deaf: while it is enabled, and its loop polls  *)
(* decode(), a stopped or paused capture is armed again.                   *)
(***************************************************************************)
ListensAgain ==
    []<>(~attached \/ (gpioEnabled /\ rcvstate # kStopState))

(***************************************************************************)
(* The constructor's comment (IRrecv.cpp:275): after timeout ms of no      *)
(* signal the capture stops.  A capture that holds entries ends, even when *)
(* no further edge comes.                                                  *)
(***************************************************************************)
Capturing == attached /\ rcvstate = kMarkState /\ rawlen > 0
CaptureEnds == Capturing ~> ~Capturing

(***************************************************************************)
(* decode() (IRrecv.cpp:603): the entry behind the last is not cleared "if *)
(* rawbuf is already full as we stomp over the heap".                      *)
(***************************************************************************)
HeapIntact == rawbuf[Heap] = Untouched
=============================================================================
