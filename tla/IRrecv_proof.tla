----------------------------- MODULE IRrecv_proof -----------------------------
(***************************************************************************)
(* Proofs about IRrecv for every buffer size, with and without a save      *)
(* buffer, on both boards.                                                 *)
(***************************************************************************)
EXTENDS IRrecv, TLAPS

(***************************************************************************)
(* The inductive invariant.  Each conjunct is a fact about two pieces of   *)
(* state that some statement or handler relies on.                         *)
(***************************************************************************)

(* Statements at which decode() or pause() counts on a stopped capture. *)
StopLabels == {"d_clear", "d_alias", "c_params", "c_rawbuf",
               "p_rawlen", "p_overflow", "p_gpio"}

(* Statements of resume() behind its first store, and enableIRIn's end. *)
ResumeLabels == {"r_rawlen", "r_overflow", "r_timer", "r_gpio"}

StoppedWhenNeeded ==
    /\ pc \in StopLabels => rcvstate = kStopState
    /\ ~SaveBuffer /\ ReadingResults => rcvstate = kStopState

(* Which statements belong to which way of decoding. *)
ControlFlow ==
    /\ pc = "d_alias" => ~SaveBuffer
    /\ pc \in {"c_params", "c_rawbuf", "d_results"} => SaveBuffer
    /\ Resuming /\ ret = "d_results" => SaveBuffer
    /\ Resuming /\ ret = "e_attach" => ~attached
    /\ pc = "e_attach" => ~attached

(* The receiver's state agrees with what listens to the pin. *)
StateAgrees ==
    /\ attached \/ pc \in ResumeLabels \cup {"e_attach"} => rcvstate # 0
    /\ ~attached /\ pc \in ResumeLabels \cup {"e_attach"}
         => rcvstate # kMarkState
    /\ ~gpioEnabled => rcvstate # kMarkState
    /\ rcvstate = kMarkState /\ attached => start = now
    /\ rcvstate = kIdleState /\ rawlen > 0 => pc = "r_rawlen"

(* The capture in the handlers' buffer, but for resume()'s race. *)
CaptureContiguous ==
    pc # "r_rawlen" =>
        /\ Contiguous(rawbuf, rawlen)
        /\ rcvstate = kMarkState /\ rawlen > 0 => rawbuf[rawlen - 1].to = start

(* The copy in the save buffer, growing and complete. *)
CopyFaithful ==
    /\ pc = "c_rawbuf" => /\ save.rawlen = rawlen
                          /\ \A k \in 0 .. i - 1 : save.rawbuf[k] = rawbuf[k]
    /\ SaveBuffer /\ pc \in {"c_params", "c_rawbuf"} => ~holding
    /\ SaveBuffer /\ Taken => Contiguous(save.rawbuf, save.rawlen)
    /\ SaveBuffer /\ ReadingResults => results.rawlen = save.rawlen

IInv ==
    /\ TypeOK
    /\ StoppedWhenNeeded
    /\ ControlFlow
    /\ StateAgrees
    /\ CaptureContiguous
    /\ CopyFaithful
    /\ ResultsContiguous
-----------------------------------------------------------------------------
(* The few facts about the constants' sets that the steps below need. *)
LEMMA Zero == 0 \in Length /\ 0 \in Moment
  BY BufSizeAssumption, MaxEdgesAssumption DEF Length, Moment

LEMMA EmptyBufferType == EmptyBuffer \in Buffer
  BY BufSizeAssumption
     DEF EmptyBuffer, Buffer, Entry, Untouched, Cleared, Interval

(* An edge that is stored lies inside the buffer and inside the bound. *)
LEMMA EdgeType ==
  ASSUME TypeOK, gpio_intr
  PROVE  TypeOK'
  <1>1. now' \in Moment /\ now + 1 \in Moment
    BY MaxEdgesAssumption DEF TypeOK, gpio_intr, Moment
  <1>2. CASE EdgeDropped
    BY <1>1, <1>2, Esp32Assumption DEF TypeOK, gpio_intr, EdgeDropped, thread,
       kStopState
  <1>3. CASE ~Dropped /\ EdgeStored
    <2>1. rawlen \in Cells /\ rawlen' \in Length
      BY <1>3, BufSizeAssumption
         DEF TypeOK, Dropped, EdgeStored, Cells, Length
    <2>2. Recorded \in Entry
      BY <1>1, MaxEdgesAssumption
         DEF TypeOK, Recorded, Entry, Interval, Gap, Moment
    <2>3. rawbuf' \in Buffer
      BY <1>3, <2>1, <2>2 DEF TypeOK, EdgeStored, Buffer
    <2>4. rcvstate' \in {kIdleState, kMarkState, kStopState, 0}
      BY <1>3 DEF TypeOK, EdgeStored
    <2> QED
      BY <1>1, <1>3, <2>1, <2>3, <2>4 DEF TypeOK, gpio_intr, EdgeStored, thread
  <1> QED
    BY <1>2, <1>3 DEF gpio_intr

LEMMA ClearType ==
  ASSUME TypeOK, decodeClear
  PROVE  TypeOK'
  <1>1. rawbuf' \in Buffer
    <2>1. Cleared \in Entry /\ rawlen \in Cells
      BY DEF TypeOK, Cleared, Interval, Entry, Length, Cells
    <2> QED
      BY <2>1 DEF TypeOK, decodeClear, Buffer
  <1>2. pc' \in Labels
    BY DEF decodeClear, Goto, Labels
  <1> QED
    BY <1>1, <1>2 DEF TypeOK, decodeClear, hardware

LEMMA CopyType ==
  ASSUME TypeOK, copyEntry
  PROVE  TypeOK'
  <1>1. i \in Cells /\ i' \in Length
    BY BufSizeAssumption DEF TypeOK, copyEntry, Length, Cells
  <1>2. save' \in Irparams
    BY <1>1 DEF TypeOK, copyEntry, Irparams, Buffer
  <1> QED
    BY <1>1, <1>2 DEF TypeOK, copyEntry, params, hardware

LEMMA InitTypeOK == Init => TypeOK
  <1> SUFFICES ASSUME Init PROVE TypeOK
    OBVIOUS
  <1>1. save \in Irparams /\ results \in Results /\ rawbuf \in Buffer
    BY Zero, EmptyBufferType DEF Init, Irparams, Results
  <1>2. timer \in BOOLEAN
    BY Esp32Assumption DEF Init
  <1> QED
    BY <1>1, <1>2, Zero DEF Init, TypeOK, Labels

LEMMA TypeStep ==
  ASSUME TypeOK, [Next]_vars
  PROVE  TypeOK'
  <1> USE DEF TypeOK, params, hardware, thread, Goto, At, Resume, Labels
  <1>1. CASE Unheard
    BY <1>1, MaxEdgesAssumption DEF Unheard, Moment
  <1>2. CASE gpio_intr
    BY <1>2, EdgeType
  <1>3. CASE read_timeout
    BY <1>3, ZenonT(30) DEF read_timeout
  <1>4. CASE Reboot
    BY <1>4, Zero, EmptyBufferType DEF Reboot, Irparams, Results
  <1>5. CASE CallDecode
    BY <1>5 DEF CallDecode
  <1>6. CASE CallResume
    BY <1>6 DEF CallResume
  <1>7. CASE CallPause
    BY <1>7 DEF CallPause
  <1>8. CASE CallEnable
    BY <1>8 DEF CallEnable
  <1>9. CASE CallDisable
    BY <1>9 DEF CallDisable
  <1>10. CASE disableTimer
    BY <1>10 DEF disableTimer
  <1>11. CASE disableDetach
    BY <1>11 DEF disableDetach
  <1>12. CASE enableAttach
    BY <1>12 DEF enableAttach
  <1>13. CASE pauseState
    BY <1>13 DEF pauseState
  <1>14. CASE pauseRawlen
    BY <1>14, Zero DEF pauseRawlen
  <1>15. CASE pauseOverflow
    BY <1>15 DEF pauseOverflow
  <1>16. CASE pauseGpio
    BY <1>16 DEF pauseGpio
  <1>17. CASE resumeState
    BY <1>17 DEF resumeState
  <1>18. CASE resumeRawlen
    BY <1>18, Zero DEF resumeRawlen
  <1>19. CASE resumeOverflow
    BY <1>19 DEF resumeOverflow
  <1>20. CASE resumeTimer
    BY <1>20 DEF resumeTimer
  <1>21. CASE resumeGpio
    BY <1>21 DEF resumeGpio
  <1>22. CASE decodeCheck
    BY <1>22 DEF decodeCheck
  <1>23. CASE decodeClear
    BY <1>23, ClearType
  <1>24. CASE decodeAlias
    BY <1>24 DEF decodeAlias, Results
  <1>25. CASE copyStruct
    BY <1>25, Zero DEF copyStruct, Irparams
  <1>26. CASE copyEntry
    BY <1>26, CopyType
  <1>27. CASE copyDone
    BY <1>27 DEF copyDone
  <1>28. CASE decodeResults
    BY <1>28 DEF decodeResults, Results, Irparams
  <1>29. CASE decodeMatched
    BY <1>29 DEF decodeMatched
  <1>30. CASE decodeFailed
    BY <1>30 DEF decodeFailed
  <1>31. CASE UNCHANGED vars
    BY <1>31 DEF vars
  <1> QED
    BY <1>1, <1>2, <1>3, <1>4, <1>5, <1>6, <1>7, <1>8, <1>9, <1>10, <1>11,
       <1>12, <1>13, <1>14, <1>15, <1>16, <1>17, <1>18, <1>19, <1>20,
       <1>21, <1>22, <1>23, <1>24, <1>25, <1>26, <1>27, <1>28, <1>29,
       <1>30, <1>31 DEF Next, Call, Statement

(* Every variable keeps to its values, whatever the configuration. *)
THEOREM TypeCorrect == Spec => []TypeOK
  <1>1. TypeOK /\ [Next]_vars => TypeOK'
    BY TypeStep
  <1> QED
    BY InitTypeOK, <1>1, PTL DEF Spec

(* The control part of the invariant: where the thread is, what it may    *)
(* count on there, and which state the receiver is in.                     *)
Control == StoppedWhenNeeded /\ ControlFlow /\ StateAgrees

LEMMA ControlStep ==
  ASSUME TypeOK, Control, [Next]_vars
  PROVE  Control'
  <1> USE DEF TypeOK, Control, StoppedWhenNeeded, ControlFlow, StateAgrees,
              StopLabels, ResumeLabels, ReadingResults, Resuming, Labels,
              kIdleState, kMarkState, kStopState,
              params, hardware, thread, Goto, At, Resume
  <1>0. rawlen \in Int /\ now \in Int
    BY DEF Length, Moment
  <1>1. CASE Unheard
    BY <1>0, <1>1 DEF Unheard
  <1>2. CASE gpio_intr
    BY <1>0, <1>2 DEF gpio_intr, EdgeDropped, EdgeStored, Dropped
  <1>3. CASE read_timeout
    BY <1>0, <1>3 DEF read_timeout
  <1>4. CASE Reboot
    BY <1>0, <1>4 DEF Reboot
  <1>5. CASE CallDecode
    BY <1>0, <1>5 DEF CallDecode
  <1>6. CASE CallResume
    BY <1>0, <1>6 DEF CallResume
  <1>7. CASE CallPause
    BY <1>0, <1>7 DEF CallPause
  <1>8. CASE CallEnable
    BY <1>0, <1>8 DEF CallEnable
  <1>9. CASE CallDisable
    BY <1>0, <1>9 DEF CallDisable
  <1>10. CASE disableTimer
    BY <1>0, <1>10 DEF disableTimer
  <1>11. CASE disableDetach
    BY <1>0, <1>11 DEF disableDetach
  <1>12. CASE enableAttach
    BY <1>0, <1>12 DEF enableAttach
  <1>13. CASE pauseState
    BY <1>0, <1>13 DEF pauseState
  <1>14. CASE pauseRawlen
    BY Zero, <1>0, <1>14 DEF pauseRawlen
  <1>15. CASE pauseOverflow
    BY <1>0, <1>15 DEF pauseOverflow
  <1>16. CASE pauseGpio
    BY <1>0, <1>16 DEF pauseGpio
  <1>17. CASE resumeState
    <2>1. ~SaveBuffer => ~holding'
      BY <1>17 DEF resumeState
    <2>2. rcvstate' = kIdleState /\ pc' = "r_rawlen"
      BY <1>17 DEF resumeState
    <2> QED
      BY <1>0, <1>17, <2>1, <2>2 DEF resumeState
  <1>18. CASE resumeRawlen
    BY Zero, <1>0, <1>18 DEF resumeRawlen
  <1>19. CASE resumeOverflow
    BY <1>0, <1>19 DEF resumeOverflow
  <1>20. CASE resumeTimer
    BY <1>0, <1>20 DEF resumeTimer
  <1>21. CASE resumeGpio
    BY <1>0, <1>21 DEF resumeGpio
  <1>22. CASE decodeCheck
    BY <1>0, <1>22 DEF decodeCheck
  <1>23. CASE decodeClear
    BY <1>0, <1>23 DEF decodeClear
  <1>24. CASE decodeAlias
    BY <1>0, <1>24 DEF decodeAlias
  <1>25. CASE copyStruct
    BY <1>0, <1>25 DEF copyStruct
  <1>26. CASE copyEntry
    BY <1>0, <1>26 DEF copyEntry
  <1>27. CASE copyDone
    BY <1>0, <1>27 DEF copyDone
  <1>28. CASE decodeResults
    BY <1>0, <1>28 DEF decodeResults
  <1>29. CASE decodeMatched
    BY <1>0, <1>29 DEF decodeMatched
  <1>30. CASE decodeFailed
    BY <1>0, <1>30 DEF decodeFailed
  <1>31. CASE UNCHANGED vars
    BY <1>31 DEF vars
  <1> QED
    BY <1>1, <1>2, <1>3, <1>4, <1>5, <1>6, <1>7, <1>8, <1>9, <1>10, <1>11,
       <1>12, <1>13, <1>14, <1>15, <1>16, <1>17, <1>18, <1>19, <1>20, <1>21,
       <1>22, <1>23, <1>24, <1>25, <1>26, <1>27, <1>28, <1>29, <1>30, <1>31
       DEF Next, Call, Statement
-----------------------------------------------------------------------------
(* Runs of intervals.  Only the entries below len matter, a run of at most *)
(* one entry has nothing to agree with, and the interval that follows the  *)
(* last entry prolongs it.                                                 *)
LEMMA ContiguousSame ==
  ASSUME NEW buf, NEW copy, NEW len \in Length,
         Contiguous(buf, len), \A k \in 0 .. len - 1 : copy[k] = buf[k]
  PROVE  Contiguous(copy, len)
  BY DEF Contiguous, Length

LEMMA ContiguousEmpty ==
  ASSUME NEW buf
  PROVE  Contiguous(buf, 0)
  BY DEF Contiguous

LEMMA ContiguousExtended ==
  ASSUME NEW buf \in Buffer, NEW len \in Length, len < BufSize, NEW e,
         Contiguous(buf, len),
         len > 0 => e = Interval(buf[len - 1].to, buf[len - 1].to + 1)
  PROVE  Contiguous([buf EXCEPT ![len] = e], len + 1)
  <1> DEFINE new == [buf EXCEPT ![len] = e]
  <1>1. \A k \in Cells : new[k] = IF k = len THEN e ELSE buf[k]
    BY DEF Buffer
  <1>2. ASSUME NEW k \in 1 .. len
        PROVE  new[k] = Interval(new[k - 1].to, new[k - 1].to + 1)
    <2>1. k \in Cells /\ k - 1 \in Cells /\ k - 1 # len
      BY BufSizeAssumption DEF Length, Cells
    <2>2. new[k - 1] = buf[k - 1]
      BY <1>1, <2>1
    <2>3. CASE k = len
      BY <1>1, <2>1, <2>2, <2>3
    <2>4. CASE k # len
      <3>1. k \in 1 .. len - 1
        BY <2>4 DEF Length
      <3> QED
        BY <1>1, <2>1, <2>2, <2>4, <3>1 DEF Contiguous
    <2> QED
      BY <2>3, <2>4
  <1> QED
    BY <1>2 DEF Contiguous, Length

(* The edge that gpio_intr stores prolongs the run, unless resume() has    *)
(* just armed the receiver and is about to reset rawlen.                   *)
LEMMA EdgeProlongs ==
  ASSUME TypeOK, Control, CaptureContiguous, gpio_intr
  PROVE  CaptureContiguous'
  <1> USE DEF thread, kIdleState, kMarkState, kStopState
  <1>1. pc' = pc
    BY DEF gpio_intr
  <1>2. CASE EdgeDropped
    BY <1>1, <1>2 DEF EdgeDropped, CaptureContiguous
  <1>3. CASE ~Dropped /\ EdgeStored /\ pc # "r_rawlen"
    <2>1. rcvstate = kIdleState => rawlen = 0
      BY <1>3, Zero DEF Control, StateAgrees, TypeOK, Length
    <2>2. rcvstate \in {kIdleState, kMarkState}
      BY <1>3 DEF Control, StateAgrees, TypeOK, gpio_intr, Dropped
    <2>3. rawlen > 0 => Recorded = Interval(rawbuf[rawlen - 1].to,
                                            rawbuf[rawlen - 1].to + 1)
      BY <1>3, <2>1, <2>2
         DEF CaptureContiguous, Control, StateAgrees, Recorded, gpio_intr
    <2>4. rawlen \in Length /\ rawlen < BufSize
      BY <1>3, BufSizeAssumption DEF TypeOK, Dropped, Length
    <2>5. Contiguous(rawbuf', rawlen')
      BY <1>3, <2>3, <2>4, ContiguousExtended
         DEF TypeOK, EdgeStored, CaptureContiguous
    <2>6. rawbuf'[rawlen' - 1].to = start'
      <3>1. rawlen \in Cells /\ rawlen' - 1 = rawlen
        BY <1>3, <2>4 DEF EdgeStored, Length, Cells
      <3>2. rawbuf'[rawlen] = Recorded
        BY <1>3, <3>1 DEF EdgeStored, TypeOK, Buffer
      <3> QED
        BY <1>3, <3>1, <3>2 DEF EdgeStored, Recorded, Gap, Interval
    <2> QED
      BY <1>1, <2>5, <2>6 DEF CaptureContiguous
  <1>4. CASE pc = "r_rawlen"
    BY <1>1, <1>4 DEF CaptureContiguous
  <1> QED
    BY <1>2, <1>3, <1>4 DEF gpio_intr

(* Every step keeps the capture in one piece. *)
LEMMA CaptureStep ==
  ASSUME TypeOK, Control, CaptureContiguous, [Next]_vars
  PROVE  CaptureContiguous'
  <1> USE DEF CaptureContiguous, params, hardware, thread, Goto, At, Resume,
              kMarkState, kStopState, kIdleState
  <1>1. CASE Unheard
    BY <1>1 DEF Unheard
  <1>2. CASE gpio_intr
    BY <1>2, EdgeProlongs
  <1>3. CASE read_timeout
    BY <1>3 DEF read_timeout
  <1>4. CASE Reboot
    BY <1>4, ContiguousEmpty DEF Reboot
  <1>5. CASE CallDecode
    BY <1>5 DEF CallDecode
  <1>6. CASE CallResume
    BY <1>6 DEF CallResume
  <1>7. CASE CallPause
    BY <1>7 DEF CallPause
  <1>8. CASE CallEnable
    BY <1>8 DEF CallEnable
  <1>9. CASE CallDisable
    BY <1>9 DEF CallDisable
  <1>10. CASE disableTimer
    BY <1>10 DEF disableTimer
  <1>11. CASE disableDetach
    BY <1>11 DEF disableDetach
  <1>12. CASE enableAttach
    BY <1>12 DEF enableAttach
  <1>13. CASE pauseState
    BY <1>13 DEF pauseState
  <1>14. CASE pauseRawlen
    BY <1>14, ContiguousEmpty DEF pauseRawlen
  <1>15. CASE pauseOverflow
    BY <1>15 DEF pauseOverflow
  <1>16. CASE pauseGpio
    BY <1>16 DEF pauseGpio
  <1>17. CASE resumeState
    BY <1>17 DEF resumeState
  <1>18. CASE resumeRawlen
    BY <1>18, ContiguousEmpty DEF resumeRawlen
  <1>19. CASE resumeOverflow
    BY <1>19 DEF resumeOverflow
  <1>20. CASE resumeTimer
    BY <1>20 DEF resumeTimer
  <1>21. CASE resumeGpio
    BY <1>21 DEF resumeGpio
  <1>22. CASE decodeCheck
    BY <1>22 DEF decodeCheck
  <1>23. CASE decodeClear
    <2>1. rcvstate' = kStopState /\ rawlen' = rawlen /\ pc # "r_rawlen"
      BY <1>23 DEF decodeClear, Control, StoppedWhenNeeded, StopLabels
    <2>2. \A k \in 0 .. rawlen - 1 : rawbuf'[k] = rawbuf[k]
      BY <1>23 DEF decodeClear, TypeOK, Buffer, Length, Cells
    <2> QED
      BY <2>1, <2>2, ContiguousSame DEF TypeOK
  <1>24. CASE decodeAlias
    BY <1>24 DEF decodeAlias
  <1>25. CASE copyStruct
    BY <1>25 DEF copyStruct
  <1>26. CASE copyEntry
    BY <1>26 DEF copyEntry
  <1>27. CASE copyDone
    BY <1>27 DEF copyDone
  <1>28. CASE decodeResults
    BY <1>28 DEF decodeResults
  <1>29. CASE decodeMatched
    BY <1>29 DEF decodeMatched
  <1>30. CASE decodeFailed
    BY <1>30 DEF decodeFailed
  <1>31. CASE UNCHANGED vars
    BY <1>31 DEF vars
  <1> QED
    BY <1>1, <1>2, <1>3, <1>4, <1>5, <1>6, <1>7, <1>8, <1>9, <1>10, <1>11,
       <1>12, <1>13, <1>14, <1>15, <1>16, <1>17, <1>18, <1>19, <1>20, <1>21,
       <1>22, <1>23, <1>24, <1>25, <1>26, <1>27, <1>28, <1>29, <1>30, <1>31
       DEF Next, Call, Statement

-----------------------------------------------------------------------------
(* Every step keeps the copy faithful.                                     *)
LEMMA CopyStep ==
  ASSUME TypeOK, Control, CaptureContiguous, CopyFaithful, [Next]_vars
  PROVE  CopyFaithful'
  <1> USE DEF CopyFaithful, Taken, ReadingResults, Resuming,
              params, hardware, thread, Goto, At, Resume
  <1>1. CASE Unheard
    BY <1>1 DEF Unheard
  <1>2. CASE gpio_intr
    <2>1. pc \in StopLabels => UNCHANGED <<rawlen, rawbuf>>
      BY <1>2 DEF Control, StoppedWhenNeeded, gpio_intr, EdgeDropped, Dropped
    <2> QED
      BY <1>2, <2>1 DEF gpio_intr, StopLabels
  <1>3. CASE read_timeout
    BY <1>3 DEF read_timeout
  <1>4. CASE Reboot
    BY <1>4 DEF Reboot
  <1>5. CASE CallDecode
    BY <1>5 DEF CallDecode
  <1>6. CASE CallResume
    BY <1>6 DEF CallResume
  <1>7. CASE CallPause
    BY <1>7 DEF CallPause
  <1>8. CASE CallEnable
    BY <1>8 DEF CallEnable
  <1>9. CASE CallDisable
    BY <1>9 DEF CallDisable
  <1>10. CASE disableTimer
    BY <1>10 DEF disableTimer
  <1>11. CASE disableDetach
    BY <1>11 DEF disableDetach
  <1>12. CASE enableAttach
    BY <1>12 DEF enableAttach
  <1>13. CASE pauseState
    BY <1>13 DEF pauseState
  <1>14. CASE pauseRawlen
    BY <1>14 DEF pauseRawlen
  <1>15. CASE pauseOverflow
    BY <1>15 DEF pauseOverflow
  <1>16. CASE pauseGpio
    BY <1>16 DEF pauseGpio
  <1>17. CASE resumeState
    BY <1>17, SaveBufferAssumption DEF resumeState, TypeOK
  <1>18. CASE resumeRawlen
    BY <1>18 DEF resumeRawlen
  <1>19. CASE resumeOverflow
    BY <1>19 DEF resumeOverflow, TypeOK
  <1>20. CASE resumeTimer
    BY <1>20 DEF resumeTimer
  <1>21. CASE resumeGpio
    BY <1>21 DEF resumeGpio, TypeOK
  <1>22. CASE decodeCheck
    BY <1>22 DEF decodeCheck
  <1>23. CASE decodeClear
    BY <1>23 DEF decodeClear
  <1>24. CASE decodeAlias
    BY <1>24 DEF decodeAlias, Control, ControlFlow
  <1>25. CASE copyStruct
    <2>1. save'.rawlen = rawlen /\ i' = 0 /\ pc' = "c_rawbuf"
      BY <1>25 DEF copyStruct, TypeOK, Irparams
    <2>2. ~holding'
      BY <1>25 DEF copyStruct, Control, ControlFlow
    <2> QED
      BY <1>25, <2>1, <2>2 DEF copyStruct
  <1>26. CASE copyEntry
    <2>1. save'.rawlen = save.rawlen
      BY <1>26 DEF copyEntry, TypeOK, Irparams
    <2>2. \A k \in 0 .. i' - 1 : save'.rawbuf[k] = rawbuf[k]
      <3>1. save'.rawbuf = [save.rawbuf EXCEPT ![i] = rawbuf[i]]
        BY <1>26 DEF copyEntry, TypeOK, Irparams
      <3>2. save.rawbuf \in Buffer /\ i \in Cells /\ i' = i + 1
        BY <1>26 DEF copyEntry, TypeOK, Irparams, Length, Cells
      <3>3. \A k \in 0 .. i - 1 : save.rawbuf[k] = rawbuf[k]
        BY <1>26 DEF copyEntry
      <3> SUFFICES ASSUME NEW k \in 0 .. i' - 1
                   PROVE  save'.rawbuf[k] = rawbuf[k]
        OBVIOUS
      <3>4. k \in Cells /\ (k = i \/ k \in 0 .. i - 1)
        BY <1>26, <3>2, BufSizeAssumption DEF Cells, copyEntry, TypeOK, Length
      <3>5. save'.rawbuf[k] = IF k = i THEN rawbuf[i] ELSE save.rawbuf[k]
        BY <3>1, <3>2, <3>4 DEF Buffer
      <3> QED
        BY <3>3, <3>4, <3>5
    <2>3. pc = "c_rawbuf" /\ pc' = pc /\ ~holding'
      BY <1>26 DEF copyEntry, Control, ControlFlow
    <2> QED
      BY <1>26, <2>1, <2>2, <2>3 DEF copyEntry
  <1>27. CASE copyDone
    <2>1. Contiguous(rawbuf, rawlen)
      BY <1>27 DEF copyDone, CaptureContiguous
    <2>2. \A k \in 0 .. rawlen - 1 : save.rawbuf[k] = rawbuf[k]
      BY <1>27, BufSizeAssumption DEF copyDone, TypeOK, Length
    <2>3. Contiguous(save.rawbuf, save.rawlen)
      BY <1>27, <2>1, <2>2, ContiguousSame DEF copyDone, TypeOK
    <2> QED
      BY <1>27, <2>3 DEF copyDone, Control, ControlFlow
  <1>28. CASE decodeResults
    <2>1. results'.rawlen = save.rawlen
      BY <1>28 DEF decodeResults
    <2> QED
      BY <1>28, <2>1 DEF decodeResults
  <1>29. CASE decodeMatched
    BY <1>29 DEF decodeMatched
  <1>30. CASE decodeFailed
    BY <1>30 DEF decodeFailed
  <1>31. CASE UNCHANGED vars
    BY <1>31 DEF vars
  <1> QED
    BY <1>1, <1>2, <1>3, <1>4, <1>5, <1>6, <1>7, <1>8, <1>9, <1>10, <1>11,
       <1>12, <1>13, <1>14, <1>15, <1>16, <1>17, <1>18, <1>19, <1>20, <1>21,
       <1>22, <1>23, <1>24, <1>25, <1>26, <1>27, <1>28, <1>29, <1>30, <1>31
       DEF Next, Call, Statement

(* With a save buffer results is the finished copy.                        *)
LEMMA ResultsFromCopy ==
  ASSUME SaveBuffer, CopyFaithful
  PROVE  ResultsContiguous
  BY DEF CopyFaithful, ResultsContiguous, ResultsBuf, Taken

(* Without one it is the handlers' buffer, which has stopped. *)
LEMMA ResultsStep ==
  ASSUME TypeOK, Control, CaptureContiguous, ResultsContiguous, ~SaveBuffer,
         [Next]_vars
  PROVE  ResultsContiguous'
  <1> USE DEF ResultsContiguous, ReadingResults, ResultsBuf,
              params, hardware, thread, Goto, At, Resume
  <1>1. CASE Unheard
    BY <1>1 DEF Unheard
  <1>2. CASE gpio_intr
    <2>1. ReadingResults => UNCHANGED rawbuf
      BY <1>2 DEF Control, StoppedWhenNeeded, gpio_intr, EdgeDropped, Dropped
    <2> QED
      BY <1>2, <2>1 DEF gpio_intr
  <1>3. CASE read_timeout
    BY <1>3 DEF read_timeout
  <1>4. CASE Reboot
    BY <1>4 DEF Reboot
  <1>5. CASE CallDecode
    BY <1>5 DEF CallDecode
  <1>6. CASE CallResume
    BY <1>6 DEF CallResume
  <1>7. CASE CallPause
    BY <1>7 DEF CallPause
  <1>8. CASE CallEnable
    BY <1>8 DEF CallEnable
  <1>9. CASE CallDisable
    BY <1>9 DEF CallDisable
  <1>10. CASE disableTimer
    BY <1>10 DEF disableTimer
  <1>11. CASE disableDetach
    BY <1>11 DEF disableDetach
  <1>12. CASE enableAttach
    BY <1>12 DEF enableAttach
  <1>13. CASE pauseState
    BY <1>13 DEF pauseState
  <1>14. CASE pauseRawlen
    BY <1>14 DEF pauseRawlen
  <1>15. CASE pauseOverflow
    BY <1>15 DEF pauseOverflow
  <1>16. CASE pauseGpio
    BY <1>16 DEF pauseGpio
  <1>17. CASE resumeState
    BY <1>17 DEF resumeState
  <1>18. CASE resumeRawlen
    BY <1>18 DEF resumeRawlen
  <1>19. CASE resumeOverflow
    BY <1>19 DEF resumeOverflow, TypeOK
  <1>20. CASE resumeTimer
    BY <1>20 DEF resumeTimer
  <1>21. CASE resumeGpio
    BY <1>21 DEF resumeGpio, TypeOK
  <1>22. CASE decodeCheck
    BY <1>22 DEF decodeCheck
  <1>23. CASE decodeClear
    BY <1>23 DEF decodeClear
  <1>24. CASE decodeAlias
    BY <1>24 DEF decodeAlias, CaptureContiguous
  <1>25. CASE copyStruct
    BY <1>25 DEF copyStruct
  <1>26. CASE copyEntry
    BY <1>26 DEF copyEntry
  <1>27. CASE copyDone
    BY <1>27 DEF copyDone
  <1>28. CASE decodeResults
    BY <1>28 DEF decodeResults, Control, ControlFlow
  <1>29. CASE decodeMatched
    BY <1>29 DEF decodeMatched
  <1>30. CASE decodeFailed
    BY <1>30 DEF decodeFailed
  <1>31. CASE UNCHANGED vars
    BY <1>31 DEF vars
  <1> QED
    BY <1>1, <1>2, <1>3, <1>4, <1>5, <1>6, <1>7, <1>8, <1>9, <1>10, <1>11,
       <1>12, <1>13, <1>14, <1>15, <1>16, <1>17, <1>18, <1>19, <1>20, <1>21,
       <1>22, <1>23, <1>24, <1>25, <1>26, <1>27, <1>28, <1>29, <1>30, <1>31
       DEF Next, Call, Statement

-----------------------------------------------------------------------------
LEMMA InitIInv == Init => IInv
  <1> SUFFICES ASSUME Init PROVE IInv
    OBVIOUS
  <1>1. TypeOK
    BY InitTypeOK
  <1> QED
    BY <1>1, ContiguousEmpty
       DEF Init, IInv, StoppedWhenNeeded, ControlFlow, StateAgrees,
           CaptureContiguous, CopyFaithful, ResultsContiguous, StopLabels,
           ResumeLabels, ReadingResults, Resuming, Taken, At,
           kIdleState, kMarkState, kStopState

THEOREM Inductive == Spec => []IInv
  <1>1. IInv /\ [Next]_vars => IInv'
    <2> SUFFICES ASSUME IInv, [Next]_vars PROVE IInv'
      OBVIOUS
    <2>1. TypeOK /\ Control /\ CaptureContiguous /\ CopyFaithful
          /\ ResultsContiguous
      BY DEF IInv, Control
    <2>2. TypeOK'
      BY <2>1, TypeStep
    <2>3. Control'
      BY <2>1, ControlStep
    <2>4. CaptureContiguous'
      BY <2>1, CaptureStep
    <2>5. CopyFaithful'
      BY <2>1, CopyStep
    <2>6. ResultsContiguous'
      <3>1. CASE SaveBuffer
        BY <3>1, <2>5 DEF CopyFaithful, ResultsContiguous, ResultsBuf, Taken,
                          ReadingResults
      <3>2. CASE ~SaveBuffer
        BY <3>2, <2>1, ResultsStep
      <3> QED
        BY <3>1, <3>2
    <2> QED
      BY <2>2, <2>3, <2>4, <2>5, <2>6 DEF IInv, Control
  <1> QED
    BY InitIInv, <1>1, PTL DEF Spec

(***************************************************************************)
(* Whatever the handlers do between two statements of decode(), resume()   *)
(* or pause(), the capture that the decoders and the sketch read is one    *)
(* stretch of the signal.                                                  *)
(***************************************************************************)
THEOREM ResultsAreContiguous == Spec => []ResultsContiguous
  <1>1. IInv => ResultsContiguous
    BY DEF IInv
  <1> QED
    BY <1>1, Inductive, PTL

(* A handler never touches the entries of a stopped capture. *)
THEOREM StoppedStaysFrozen == Spec => StoppedIsFrozen
  <1>1. [Next]_vars
          => [(gpio_intr \/ read_timeout) /\ rcvstate = kStopState
                => rcvstate' = kStopState /\ UNCHANGED <<rawlen, rawbuf>>]_vars
    BY DEF gpio_intr, read_timeout, EdgeDropped, Dropped, vars
  <1> QED
    BY <1>1, PTL DEF Spec, StoppedIsFrozen

(***************************************************************************)
(* No edge is stored behind the buffer.  Only the type invariant is        *)
(* needed: gpio_intr compares rawlen with bufsize in the step that stores. *)
(***************************************************************************)
THEOREM OnlyDecodeStomps == Spec => EdgesStayInBuffer
  <1> DEFINE Stays == rawbuf'[Heap] # rawbuf[Heap] /\ ~Reboot
                        => At("d_clear") /\ rawlen = BufSize /\ ~overflow
  <1>1. TypeOK /\ [Next]_vars => [Stays]_vars
    <2> SUFFICES ASSUME TypeOK, Next, ~Reboot, rawbuf'[Heap] # rawbuf[Heap]
                 PROVE  At("d_clear") /\ rawlen = BufSize /\ ~overflow
      BY DEF vars
    <2>1. gpio_intr \/ decodeClear
      BY DEF Next, Call, Statement, Unheard, read_timeout, CallDecode,
             CallResume, CallPause, CallEnable, CallDisable, disableTimer,
             disableDetach, enableAttach, pauseState, pauseRawlen,
             pauseOverflow, pauseGpio, resumeState, resumeRawlen,
             resumeOverflow, resumeTimer, resumeGpio, decodeCheck,
             decodeAlias, copyStruct, copyEntry, copyDone, decodeResults,
             decodeMatched, decodeFailed, params
    <2>2. CASE gpio_intr
      BY <2>2, BufSizeAssumption
         DEF gpio_intr, EdgeDropped, EdgeStored, Dropped, TypeOK, Buffer,
             Cells, Heap, Length
    <2>3. CASE decodeClear
      BY <2>3, BufSizeAssumption
         DEF decodeClear, TypeOK, Buffer, Cells, Heap, Length
    <2> QED
      BY <2>1, <2>2, <2>3
  <1> QED
    BY <1>1, TypeCorrect, PTL DEF Spec, EdgesStayInBuffer

-----------------------------------------------------------------------------
(***************************************************************************)
(* IRrecv implements the mailbox of IRcapture, for every buffer size, with *)
(* and without a save buffer, on both boards.                              *)
(***************************************************************************)

(* What the mailbox sees of a buffer.                                      *)

LEMMA SliceIs ==
    ASSUME NEW buf \in Buffer, NEW len \in Length
    PROVE  /\ Slice(buf, len) \in Seq(Entry)
           /\ Len(Slice(buf, len)) = len
           /\ \A k \in 1 .. len : Slice(buf, len)[k] = buf[k - 1]
<1>1. \A k \in 1 .. len : buf[k - 1] \in Entry
    BY BufSizeAssumption DEF Buffer, Cells, Length
<1> QED
    BY <1>1, BufSizeAssumption DEF Slice, Length

LEMMA SliceEmpty == \A buf : Slice(buf, 0) = <<>>
BY DEF Slice

LEMMA SliceSame ==
    ASSUME NEW a, NEW b, NEW len \in Length, \A k \in 0 .. len - 1 : a[k] = b[k]
    PROVE  Slice(a, len) = Slice(b, len)
BY BufSizeAssumption DEF Slice, Length

(* An entry stored behind the last prolongs the message by one.            *)
LEMMA SliceLonger ==
    ASSUME NEW buf \in Buffer, NEW len \in Length, len < BufSize, NEW e \in Entry
    PROVE  LET longer == Slice([buf EXCEPT ![len] = e], len + 1) IN
           /\ Len(longer) = Len(Slice(buf, len)) + 1
           /\ SubSeq(longer, 1, Len(Slice(buf, len))) = Slice(buf, len)
<1> DEFINE new == [buf EXCEPT ![len] = e]
<1>1. new \in Buffer /\ len + 1 \in Length /\ len \in Nat
    BY BufSizeAssumption DEF Buffer, Cells, Length
<1>2. \A k \in 0 .. len - 1 : new[k] = buf[k]
    BY <1>1 DEF Buffer, Cells, Length
<1> HIDE DEF new
<1>3. /\ Slice(new, len + 1) \in Seq(Entry) /\ Len(Slice(new, len + 1)) = len + 1
      /\ \A k \in 1 .. len + 1 : Slice(new, len + 1)[k] = new[k - 1]
    BY <1>1, SliceIs
<1>4. Len(Slice(buf, len)) = len /\ \A k \in 1 .. len : Slice(buf, len)[k] = buf[k - 1]
    BY SliceIs
<1>5. SubSeq(Slice(new, len + 1), 1, len) = [k \in 1 .. len |-> new[k - 1]]
    BY <1>1, <1>3
<1>6. Slice(buf, len) = [k \in 1 .. len |-> new[k - 1]]
    BY <1>1, <1>2 DEF Slice
<1> QED
    BY <1>3, <1>4, <1>5, <1>6 DEF new

-----------------------------------------------------------------------------
(* The mailbox's variables, as the refinement mapping has them.            *)
full == rcvstate = kStopState
message == Slice(rawbuf, rawlen)
taken == IF Taken THEN Slice(ResultsBuf, TakenLen) ELSE <<>>

(* A step of the mailbox, by what becomes of each.                         *)
Listens == /\ ~full /\ Len(message') = Len(message) + 1
           /\ SubSeq(message', 1, Len(message)) = message
           /\ UNCHANGED <<full, taken>>
MailboxStep ==
    \/ Listens
    \/ full' /\ UNCHANGED <<message, taken>>
    \/ ~full' /\ taken' \in {taken, <<>>} /\ UNCHANGED message
    \/ message' = <<>> /\ UNCHANGED <<full, taken>>
    \/ full /\ taken' = message /\ UNCHANGED <<full, message>>
    \/ taken' = <<>> /\ UNCHANGED <<full, message>>
    \/ ~full' /\ message' = <<>> /\ taken' = <<>>

LEMMA MailboxSteps == MailboxStep \/ UNCHANGED <<full, message, taken>>
                        => [Capture!Next]_(Capture!vars)
BY DEF MailboxStep, Listens, full, message, taken, Capture!Next, Capture!Listen,
       Capture!Stop, Capture!Arm, Capture!Discard, Capture!Take, Capture!Release,
       Capture!Restart, Capture!vars

(* What decode() handed out changes only with these.                       *)
LEMMA TakenSame ==
    ASSUME Taken' <=> Taken, TakenLen' = TakenLen, ResultsBuf' = ResultsBuf
    PROVE  UNCHANGED taken
BY DEF taken

(* An edge: one entry more, or the capture stops.                          *)
LEMMA EdgeListens ==
    ASSUME IInv, gpio_intr
    PROVE  MailboxStep
<1>1. (Taken' <=> Taken) /\ TakenLen' = TakenLen
    BY DEF gpio_intr, thread, Taken, TakenLen, ReadingResults, Resuming, At
<1>2. CASE Dropped /\ EdgeDropped
    <2>1. full' /\ UNCHANGED message
        BY <1>2 DEF EdgeDropped, full, message
    <2>2. UNCHANGED taken
        BY <1>1, <1>2, TakenSame DEF EdgeDropped, ResultsBuf, gpio_intr, thread
    <2> QED
        BY <2>1, <2>2 DEF MailboxStep
<1>3. CASE ~Dropped /\ EdgeStored
    <2>1. ~full /\ UNCHANGED full
        BY <1>3 DEF Dropped, EdgeStored, full, kIdleState, kMarkState, kStopState
    <2>2. UNCHANGED taken
        <3>1. CASE SaveBuffer
            BY <1>1, <3>1, TakenSame DEF ResultsBuf, gpio_intr, thread
        <3>2. CASE ~SaveBuffer
            BY <1>1, <2>1, <3>2 DEF IInv, StoppedWhenNeeded, Taken, taken, full
        <3> QED
            BY <3>1, <3>2
    <2>3. /\ rawbuf \in Buffer /\ rawlen \in Length /\ rawlen < BufSize
          /\ rawbuf' = [rawbuf EXCEPT ![rawlen] = Recorded] /\ rawlen' = rawlen + 1
        BY <1>3, BufSizeAssumption DEF IInv, TypeOK, Dropped, EdgeStored, Length
    <2>4. Recorded \in Entry
        BY MaxEdgesAssumption
           DEF IInv, TypeOK, Recorded, Entry, Interval, Gap, Moment
    <2>5. /\ Len(message') = Len(message) + 1
          /\ SubSeq(message', 1, Len(message)) = message
        BY <2>3, <2>4, SliceLonger DEF message
    <2> QED
        BY <2>1, <2>2, <2>5 DEF MailboxStep, Listens
<1> QED
    BY <1>2, <1>3 DEF gpio_intr

(* decode() lets go of what it handed out, and clears an entry behind the  *)
(* message.                                                                *)
LEMMA ClearReleases ==
    ASSUME IInv, decodeClear
    PROVE  MailboxStep
<1>1. taken' = <<>> /\ UNCHANGED full
    BY DEF decodeClear, taken, Taken, ReadingResults, Resuming, At, Goto, full
<1>2. \A k \in 0 .. rawlen - 1 : rawbuf'[k] = rawbuf[k]
    BY BufSizeAssumption DEF decodeClear, IInv, TypeOK, Buffer, Cells, Length
<1>3. UNCHANGED message
    BY <1>2, SliceSame, ZenonT(30) DEF decodeClear, IInv, TypeOK, message
<1> QED
    BY <1>1, <1>3 DEF MailboxStep

(* The last entry is copied: the copy is the stopped message.              *)
LEMMA CopyTakes ==
    ASSUME IInv, copyDone
    PROVE  MailboxStep
<1>1. SaveBuffer /\ full /\ UNCHANGED <<full, message>>
    BY DEF copyDone, IInv, ControlFlow, StoppedWhenNeeded, StopLabels, At, full, message, params
<1>2. Taken' /\ save' = save /\ save.rawlen = rawlen
    BY <1>1 DEF copyDone, IInv, CopyFaithful, Resume, At, Taken, Resuming
<1>3. \A k \in 0 .. rawlen - 1 : save.rawbuf[k] = rawbuf[k]
    BY BufSizeAssumption DEF copyDone, IInv, CopyFaithful, TypeOK, Length, At
<1>4. Slice(save.rawbuf, rawlen) = message
    BY <1>3, SliceSame DEF IInv, TypeOK, message
<1>5. taken' = message
    BY <1>1, <1>2, <1>4 DEF taken, ResultsBuf, TakenLen
<1> QED
    BY <1>1, <1>5 DEF MailboxStep

(* Without a copy results points at the stopped buffer.                    *)
LEMMA AliasTakes ==
    ASSUME IInv, decodeAlias
    PROVE  MailboxStep
<1>1. ~SaveBuffer /\ full /\ UNCHANGED <<full, message>>
    BY DEF decodeAlias, IInv, ControlFlow, StoppedWhenNeeded, StopLabels, At, full, message, params
<1>2. taken' = message
    BY <1>1 DEF decodeAlias, taken, Taken, ReadingResults, At, Goto, ResultsBuf, TakenLen,
                message, params
<1> QED
    BY <1>1, <1>2 DEF MailboxStep

LEMMA StepRefines ==
    ASSUME IInv, [Next]_vars
    PROVE  MailboxStep \/ UNCHANGED <<full, message, taken>>
<1> USE DEF params, hardware, thread, Goto, At, Resume, ReadingResults, Resuming
<1> DEFINE Same == UNCHANGED <<full, message, taken>>
<1>0. /\ ret \in {"loop", "e_attach", "d_results"}
      /\ kStopState # 0 /\ kStopState # kIdleState
    BY DEF IInv, TypeOK, kStopState, kIdleState
<1>1. CASE \/ Unheard \/ CallDecode \/ CallResume \/ CallPause \/ CallEnable \/ CallDisable
           \/ disableTimer \/ disableDetach \/ enableAttach \/ pauseGpio \/ pauseOverflow
           \/ UNCHANGED vars
    <2>1. UNCHANGED <<rcvstate, rawlen, rawbuf, save, results>>
        BY <1>1 DEF Unheard, CallDecode, CallResume, CallPause, CallEnable, CallDisable,
                    disableTimer, disableDetach, enableAttach, pauseGpio, pauseOverflow, vars
    <2>2. Taken' <=> Taken
        BY <1>1 DEF Unheard, CallDecode, CallResume, CallPause, CallEnable, CallDisable,
                    disableTimer, disableDetach, enableAttach, pauseGpio, pauseOverflow, vars,
                    Taken
    <2> QED
        BY <2>1, <2>2, TakenSame DEF full, message, TakenLen, ResultsBuf
<1>2. CASE \/ resumeOverflow \/ resumeTimer \/ resumeGpio \/ decodeCheck
           \/ decodeResults \/ decodeMatched
    <2>1. UNCHANGED <<rcvstate, rawlen, rawbuf, save>> /\ UNCHANGED <<full, message>>
        BY <1>2 DEF resumeOverflow, resumeTimer, resumeGpio, decodeCheck, decodeResults,
                    decodeMatched, full, message
    <2>2. Taken' <=> Taken
        BY <1>0, <1>2 DEF resumeOverflow, resumeTimer, resumeGpio, decodeCheck, decodeResults,
                    decodeMatched, Taken, IInv, ControlFlow
    <2>3. TakenLen' = TakenLen
        BY <1>2, <2>1 DEF resumeOverflow, resumeTimer, resumeGpio, decodeCheck, decodeResults,
                    decodeMatched, TakenLen, IInv, ControlFlow
    <2> QED
        BY <2>1, <2>2, <2>3, TakenSame DEF ResultsBuf
<1>3. CASE copyStruct \/ copyEntry
    <2>1. SaveBuffer /\ ~Taken /\ ~Taken'
        BY <1>3 DEF copyStruct, copyEntry, IInv, ControlFlow, CopyFaithful, Taken
    <2> QED
        BY <1>3, <2>1 DEF copyStruct, copyEntry, taken, full, message
<1>4. CASE gpio_intr
    BY <1>4, EdgeListens
<1>5. CASE read_timeout
    BY <1>5, TakenSame
       DEF read_timeout, MailboxStep, full, message, Taken, TakenLen, ResultsBuf
<1>6. CASE Reboot
    <2>1. ~full' /\ ~Taken' /\ rawlen' = 0
        BY <1>0, <1>6 DEF Reboot, full, Taken
    <2> QED
        BY <2>1, SliceEmpty DEF MailboxStep, message, taken
<1>7. CASE pauseState
    BY <1>7, TakenSame
       DEF pauseState, MailboxStep, full, message, Taken, TakenLen, ResultsBuf
<1>8. CASE pauseRawlen \/ resumeRawlen
    <2>1. UNCHANGED <<rcvstate, rawbuf, save, results>> /\ rawlen' = 0 /\ (Taken' <=> Taken)
        BY <1>8 DEF pauseRawlen, resumeRawlen, Taken
    <2>2. message' = <<>>
        BY <2>1, SliceEmpty DEF message
    <2> QED
        BY <2>1, <2>2, TakenSame DEF MailboxStep, full, TakenLen, ResultsBuf
<1>9. CASE resumeState
    <2>1. ~full' /\ UNCHANGED <<rawbuf, save, results, message>>
        BY <1>0, <1>9 DEF resumeState, full, message
    <2>2. CASE SaveBuffer
        BY <1>9, <2>1, <2>2, TakenSame
           DEF resumeState, MailboxStep, Taken, TakenLen, ResultsBuf
    <2>3. CASE ~SaveBuffer
        BY <1>9, <2>1, <2>3 DEF resumeState, MailboxStep, taken, Taken
    <2> QED
        BY <2>2, <2>3
<1>10. CASE decodeClear
    BY <1>10, ClearReleases
<1>11. CASE decodeAlias
    BY <1>11, AliasTakes
<1>12. CASE copyDone
    BY <1>12, CopyTakes
<1>13. CASE decodeFailed
    <2>1. UNCHANGED <<rcvstate, rawlen, rawbuf, save, results>> /\ UNCHANGED <<full, message>>
        BY <1>13 DEF decodeFailed, full, message
    <2>2. CASE holding
        <3>1. Taken' <=> Taken
            BY <1>13, <2>2 DEF decodeFailed, Taken
        <3> QED
            BY <2>1, <3>1, TakenSame DEF TakenLen, ResultsBuf
    <2>3. CASE ~holding
        BY <1>13, <2>1, <2>3 DEF decodeFailed, MailboxStep, taken, Taken
    <2> QED
        BY <2>2, <2>3
<1> QED
    BY <1>1, <1>2, <1>3, <1>4, <1>5, <1>6, <1>7, <1>8, <1>9, <1>10, <1>11, <1>12, <1>13
       DEF Next, Call, Statement

-----------------------------------------------------------------------------
(***************************************************************************)
(* The statements of decode() and resume(), with the handlers between      *)
(* them, do what the mailbox promises: a message is handed out as it was   *)
(* when the capture had stopped, and nobody changes it afterwards.         *)
(***************************************************************************)
THEOREM CaptureRefined == Spec => CaptureSpec
<1>1. Init => Capture!Init
    BY SliceEmpty
       DEF Init, Capture!Init, Taken, ReadingResults, Resuming, At, kStopState
<1>2. IInv /\ [Next]_vars => [Capture!Next]_(Capture!vars)
    BY StepRefines, MailboxSteps
<1> QED
    BY <1>1, <1>2, Inductive, PTL DEF Spec, CaptureSpec, Capture!Spec
=============================================================================
