------------------------------ MODULE AcFujitsu -------------------------------
(***************************************************************************)
(* Fujitsu's remotes: one object of one of the classes, `Fujitsu'. What    *)
(* belongs to a class has its name in front, as in Fujitsu_Next; after it  *)
(* come the names of the source.                                           *)
(***************************************************************************)
EXTENDS StdAc

VARIABLES
    remote,    \* the class
    ac         \* its object

-----------------------------------------------------------------------------
(***************************************************************************)
(* ir_Fujitsu.h, ir_Fujitsu.cpp: a message is either the whole state or a  *)
(* command alone, which of the two the last call decides, and what is in   *)
(* it depends on the model.  Temperatures are the message's numbers:       *)
(* quarters of a degree above 16, but halves above 8, or degrees           *)
(* Fahrenheit above 44, for ARREW4E.                                       *)
(***************************************************************************)
Fujitsu_Models == {"ARRAH2E", "ARDB1", "ARREB1E", "ARJW2", "ARRY4", "ARREW4E"}
Fujitsu_Short == {"ARDB1", "ARJW2"}
Fujitsu_Modes == <<"Auto", "Cool", "Dry", "Fan", "Heat">>
Fujitsu_Commands == {"TurnOff", "Econo", "Powerful", "StepVert", "ToggleSwingVert",
                     "StepHoriz", "ToggleSwingHoriz"}
Fujitsu_FanAuto == 0
Fujitsu_FanHigh == 1
Fujitsu_FanQuiet == 4
Fujitsu_SwingVert == 1
Fujitsu_SwingBoth == 3
Fujitsu_TimerMax == 720

Fujitsu_Object ==
    [model : Fujitsu_Models, cmd : Fujitsu_Commands \cup {"StayOn", "TurnOn"}, Power : BOOLEAN,
     Fahrenheit : BOOLEAN, Temp : 0..63, Mode : 0..4, Clean : BOOLEAN,
     Filter : BOOLEAN, TimerType : {"Stop", "Sleep", "Off", "On"}, Fan : 0..4,
     Swing : 0..3, OffTimer : 0..Fujitsu_TimerMax, OnTimer : 0..Fujitsu_TimerMax,
     OutsideQuiet : BOOLEAN]

Fujitsu_stateReset ==
    [model |-> "ARRAH2E", cmd |-> "TurnOn", Power |-> FALSE,
     Fahrenheit |-> FALSE, Temp |-> 32, Mode |-> 1, Clean |-> FALSE,
     Filter |-> FALSE, TimerType |-> "Stop", Fan |-> Fujitsu_FanHigh,
     Swing |-> Fujitsu_SwingBoth, OffTimer |-> 0, OnTimer |-> 0,
     OutsideQuiet |-> FALSE]

Fujitsu_setModel(a, model) == [a EXCEPT !.model = model]

Fujitsu_setCmd(a, cmd) ==
    [a EXCEPT !.cmd =
        IF \/ cmd \in {"TurnOff", "TurnOn", "StepVert", "ToggleSwingVert"}
           \/ /\ cmd \in {"StepHoriz", "ToggleSwingHoriz"}
              /\ a.model \in {"ARRAH2E", "ARJW2"}
           \/ /\ cmd \in {"Econo", "Powerful"}
              /\ a.model \in {"ARREB1E", "ARREW4E"}
          THEN cmd ELSE "StayOn"]
Fujitsu_StayOn(a) == Fujitsu_setCmd(a, "StayOn")

Fujitsu_setPower(a, on) == Fujitsu_setCmd(a, IF on THEN "TurnOn" ELSE "TurnOff")
Fujitsu_getPower(a) == a.cmd # "TurnOff"

(* In quarters of a degree above 16, cut off as the code's uint8_t does. *)
Fujitsu_QuartersOfF(f) == ((AtLeast(f, 60) - 32) * 20 - 576) \div 9

Fujitsu_setTemp(a, temp, celsius) ==
    Fujitsu_StayOn(CASE a.model = "ARREW4E" /\ celsius ->
                          [a EXCEPT !.Fahrenheit = FALSE,
                                    !.Temp = (Clamp(temp, 16, 30) - 8) * 2]
                     [] a.model = "ARREW4E" /\ ~celsius ->
                          [a EXCEPT !.Fahrenheit = TRUE,
                                    !.Temp = Clamp(temp, 60, 88) - 44]
                     [] OTHER ->
                          [a EXCEPT !.Fahrenheit = FALSE,
                                    !.Temp = IF celsius
                                               THEN (Clamp(temp, 16, 30) - 16) * 4
                                               ELSE Clamp(Fujitsu_QuartersOfF(temp), 0, 56)])

(* A model that has halves reads them; the inputs here never make one. *)
Fujitsu_getTemp(a) ==
    CASE a.model = "ARREW4E" /\ a.Fahrenheit -> a.Temp + 44
      [] a.model = "ARREW4E" /\ ~a.Fahrenheit -> a.Temp \div 2 + 8
      [] OTHER -> a.Temp \div 4 + 16

Fujitsu_setFanSpeed(a, speed) ==
    Fujitsu_StayOn([a EXCEPT !.Fan = IF speed > Fujitsu_FanQuiet THEN Fujitsu_FanHigh ELSE speed])
Fujitsu_setMode(a, mode) == Fujitsu_StayOn([a EXCEPT !.Mode = AtMost(mode, 4)])
Fujitsu_setSwing(a, swing) ==
    Fujitsu_StayOn([a EXCEPT !.Swing =
        IF a.model \in {"ARDB1", "ARREB1E", "ARRY4"}
          THEN AtMost(swing, Fujitsu_SwingVert) ELSE AtMost(swing, Fujitsu_SwingBoth)])
Fujitsu_setClean(a, on) == Fujitsu_StayOn([a EXCEPT !.Clean = on])
Fujitsu_setFilter(a, on) == Fujitsu_StayOn([a EXCEPT !.Filter = on])
Fujitsu_setOutsideQuiet(a, on) == Fujitsu_StayOn([a EXCEPT !.OutsideQuiet = on])

Fujitsu_toggleSwingVert(a) ==
    Fujitsu_setCmd(Fujitsu_setSwing(a, IF a.Swing % 2 = 1 THEN a.Swing - 1 ELSE a.Swing + 1),
                   "ToggleSwingVert")
Fujitsu_toggleSwingHoriz(a) ==
    Fujitsu_setCmd(Fujitsu_setSwing(a, IF a.Swing > 1 THEN a.Swing - 2 ELSE a.Swing + 2),
                   "ToggleSwingHoriz")

(* To heat to 10C is to clean in Fan mode. *)
Fujitsu_get10CHeat(a) ==
    /\ a.model \in {"ARRAH2E", "ARREW4E"}
    /\ a.Clean /\ a.Power /\ a.Mode = 3 /\ a.Fan = Fujitsu_FanAuto /\ a.Swing = 0
Fujitsu_set10CHeat(a, on) ==
    CASE a.model \notin {"ARRAH2E", "ARREW4E"} -> a
      [] a.model \in {"ARRAH2E", "ARREW4E"} /\ on ->
           [Fujitsu_setClean(a, TRUE) EXCEPT !.Mode = 3, !.Power = TRUE,
                                             !.Fan = Fujitsu_FanAuto, !.Swing = 0]
      [] OTHER -> Fujitsu_setClean(a, FALSE)

Fujitsu_getTimerType(a) ==
    IF a.model \in {"ARRAH2E", "ARREB1E"} THEN a.TimerType ELSE "Stop"
Fujitsu_getOnTimer(a) == IF Fujitsu_getTimerType(a) = "On" THEN a.OnTimer ELSE 0
Fujitsu_getOffSleepTimer(a) ==
    IF Fujitsu_getTimerType(a) \in {"Off", "Sleep"} THEN a.OffTimer ELSE 0

Fujitsu_setOnTimer(a, mins) ==
    [a EXCEPT !.OnTimer = AtMost(mins, Fujitsu_TimerMax),
              !.TimerType = CASE mins > 0 -> "On"
                              [] mins = 0 /\ Fujitsu_getTimerType(a) = "On" -> "Stop"
                              [] OTHER -> @]

(* setOffTimer and setSleepTimer, which share their minutes. *)
Fujitsu_setStopTimer(a, type, mins) ==
    [a EXCEPT !.OffTimer = AtMost(mins, Fujitsu_TimerMax),
              !.TimerType = CASE mins > 0 -> type
                              [] mins = 0 /\ Fujitsu_getTimerType(a) # "On" -> "Stop"
                              [] OTHER -> @]

(* A mutant of checkSum: the minutes of a timer that does not run stay. *)
Fujitsu_checkSum_AllTimers(a) ==
    IF a.cmd \in Fujitsu_Commands THEN a
    ELSE [a EXCEPT !.Power = a.cmd = "TurnOn" \/ Fujitsu_get10CHeat(a)]

(* What a long message has to have, written before it is sent or read. *)
Fujitsu_checkSum(a) ==
    LET m == a.model
        s == [a EXCEPT
                !.Power = a.cmd = "TurnOn" \/ Fujitsu_get10CHeat(a),
                !.OutsideQuiet = @ /\ m \in {"ARREB1E", "ARREW4E"},
                !.TimerType = IF m \in {"ARREB1E", "ARREW4E", "ARRAH2E"}
                                THEN @ ELSE "Stop",
                !.Clean = @ /\ m \in {"ARRAH2E", "ARREW4E", "ARRY4"},
                !.Filter = @ /\ m = "ARRY4",
                !.Swing = IF m \in Fujitsu_Short THEN 0 ELSE @]
    IN IF a.cmd \in Fujitsu_Commands THEN a
       ELSE [s EXCEPT !.OffTimer = Fujitsu_getOffSleepTimer(s),
                      !.OnTimer = Fujitsu_getOnTimer(s)]

(* The object that has read what `a` sends: all it knows of a command is   *)
(* the command, and the model is guessed.                                  *)
Fujitsu_buildFromState(a) ==
    LET s == Fujitsu_checkSum(a)
        blank == [Fujitsu_stateReset EXCEPT !.Temp = 0, !.Mode = 0, !.Fan = 0,
                                            !.Swing = 0]
        asH2E == [s EXCEPT !.model = "ARRAH2E"]
        guessed == CASE s.model \in Fujitsu_Short -> "ARDB1"
                     [] s.model = "ARREW4E" -> "ARREW4E"
                     [] s.model \notin Fujitsu_Short \cup {"ARREW4E"}
                          /\ s.OutsideQuiet -> "ARREB1E"
                     [] s.model \notin Fujitsu_Short \cup {"ARREW4E"}
                          /\ ~s.OutsideQuiet /\ (s.Filter \/ s.Clean)
                          /\ ~Fujitsu_get10CHeat(asH2E) -> "ARRY4"
                     [] OTHER -> "ARRAH2E"
    IN CASE a.cmd \in Fujitsu_Commands /\ a.model \in Fujitsu_Short ->
              Fujitsu_setCmd([blank EXCEPT !.model = "ARDB1"], a.cmd)
         [] a.cmd \in {"Econo", "Powerful"} /\ a.model \notin Fujitsu_Short ->
              Fujitsu_setCmd([blank EXCEPT !.model = "ARREB1E"], a.cmd)
         [] a.cmd \in Fujitsu_Commands \ {"Econo", "Powerful"}
              /\ a.model \notin Fujitsu_Short -> Fujitsu_setCmd(blank, a.cmd)
         [] OTHER -> [s EXCEPT !.model = guessed,
                               !.cmd = IF s.Power THEN "TurnOn" ELSE "StayOn"]

Fujitsu_convertMode(mode) ==
    IF mode = "Off" THEN 0 ELSE (CHOOSE n \in 1..5 : Fujitsu_Modes[n] = mode) - 1
Fujitsu_convertFan(speed) ==
    CASE speed = "Min" -> Fujitsu_FanQuiet [] speed = "Low" -> 3
      [] speed = "Medium" -> 2 [] speed \in {"High", "Max"} -> Fujitsu_FanHigh
      [] OTHER -> Fujitsu_FanAuto
Fujitsu_toCommonFanSpeed(speed) ==
    CASE speed = Fujitsu_FanHigh -> "Max" [] speed = 2 -> "Medium"
      [] speed = 3 -> "Low" [] speed = Fujitsu_FanQuiet -> "Min" [] OTHER -> "Auto"

(* Clean and the filter are read, and overwritten at the end. *)
Fujitsu_Whole(s) ==
    LET vanes == IF s.model \in {"ARREB1E", "ARRAH2E", "ARRY4"} THEN s.Swing
                 ELSE 0
        coldest == IF s.Fahrenheit THEN 50 ELSE 10
    IN [power |-> Fujitsu_getPower(s), mode |-> Fujitsu_Modes[s.Mode + 1],
        celsius |-> ~s.Fahrenheit,
        degrees |-> IF Fujitsu_get10CHeat(s) THEN coldest ELSE Fujitsu_getTemp(s),
        fan |-> Fujitsu_toCommonFanSpeed(s.Fan), swingv |-> OnOff(vanes % 2 = 1),
        swingh |-> OnOff(vanes > 1), quiet |-> s.Fan = Fujitsu_FanQuiet,
        turbo |-> s.cmd = "Powerful", econo |-> s.cmd = "Econo",
        model |-> s.model]

Fujitsu_toCommon(a) == Fujitsu_Whole(Fujitsu_checkSum(a))

(* A command leaves the rest as it was before, but not quiet. *)
Fujitsu_toCommonAfter(a, prev) ==
    IF a.cmd \notin Fujitsu_Commands THEN Fujitsu_toCommon(a)
    ELSE [prev EXCEPT !.power = Fujitsu_getPower(a), !.quiet = a.Fan = Fujitsu_FanQuiet,
                      !.turbo = a.cmd = "Powerful", !.econo = a.cmd = "Econo",
                      !.model = a.model]

(* Powerful and economical are commands of their own, sent before this. *)
Fujitsu_fujitsu(w) ==
    LET new == Fujitsu_setModel(Fujitsu_stateReset, w.model)
        cooled == Fujitsu_setTemp(Fujitsu_setMode(new, Fujitsu_convertMode(w.mode)), w.degrees,
                                  w.celsius)
        swing == (IF w.swingv # "Off" THEN 1 ELSE 0)
                   + (IF w.swingh # "Off" THEN 2 ELSE 0)
        swung == Fujitsu_setSwing(Fujitsu_setFanSpeed(cooled, Fujitsu_convertFan(w.fan)), swing)
        quiet == IF w.quiet THEN Fujitsu_setFanSpeed(swung, Fujitsu_FanQuiet) ELSE swung
        clean == Fujitsu_setClean(Fujitsu_setFilter(quiet, w.filter), w.clean)
    IN IF w.power THEN Fujitsu_setPower(Fujitsu_setStopTimer(clean, "Sleep",
                                                             AtLeast(w.sleep, 0)),
                              TRUE)
       ELSE Fujitsu_setPower(new, FALSE)

Fujitsu_Wishes == [power : BOOLEAN, model : Fujitsu_Models, mode : {"Off", "Fan"},
                   celsius : {TRUE}, degrees : {18}, fan : {"Auto"},
                   swingv : {"Off"}, swingh : {"Off", "Wide"}, quiet : {FALSE},
                   filter : BOOLEAN,
                   clean : BOOLEAN, sleep : {-1}]

Fujitsu_Init == ac \in {Fujitsu_stateReset} \cup {Fujitsu_fujitsu(w) : w \in Fujitsu_Wishes}

(* Bounds: the outside unit is made quiet without filter and cleaning; the *)
(* temperature, cleaning and filter, fan and mode are chosen without swing;*)
(* the swing moves while no timer runs; timers are set where nothing else  *)
(* is.  None of these setters reads what its bound leaves out.             *)
Fujitsu_Next ==
    \/ \E m \in {"ARREB1E", "ARREW4E"} : ac' = Fujitsu_setModel(ac, m)
    \/ \E c \in {"Powerful", "?"} : ac' = Fujitsu_setCmd(ac, c)
    \/ \E on \in BOOLEAN : ac' = Fujitsu_setPower(ac, on)
    \/ /\ ac.OnTimer = 0 /\ ac.OffTimer = 0
       /\ \E on \in BOOLEAN : ac' = Fujitsu_set10CHeat(ac, on)
    \/ ac.Swing = 0 /\ ac' = Fujitsu_setTemp(ac, 70, FALSE)
    \/ ac.Swing = 0 /\ ac.TimerType = "Stop" /\ ac' = Fujitsu_setFanSpeed(ac, 9)
    \/ ac.Swing = 0 /\ ac.TimerType = "Stop" /\ ac' = Fujitsu_setMode(ac, 9)
    \/ /\ ac.TimerType = "Stop" /\ ~ac.OutsideQuiet
       /\ \/ ac' = Fujitsu_setSwing(ac, 9) \/ ac' = Fujitsu_toggleSwingVert(ac)
          \/ ac' = Fujitsu_toggleSwingHoriz(ac)
    \/ ac.Swing = 0 /\ (ac' = Fujitsu_setClean(ac, TRUE) \/ ac' = Fujitsu_setFilter(ac, TRUE))
    \/ ~ac.Filter /\ ~ac.Clean /\ ac' = Fujitsu_setOutsideQuiet(ac, TRUE)
    \/ /\ ac.Swing = 0 /\ ~ac.Clean /\ ~ac.OutsideQuiet /\ ac.Temp = 8
       /\ \/ \E mins \in {0, 800} : ac' = Fujitsu_setOnTimer(ac, mins)
          \/ \E mins \in {0, 60} : ac' = Fujitsu_setStopTimer(ac, "Off", mins)
    \/ ac' = Fujitsu_checkSum(ac)

Fujitsu_TypeOK == ac \in Fujitsu_Object

(* No message tells two timers; a command that was read changes nothing of *)
(* the state before it but what it commands, its model and quiet; and the  *)
(* number of a temperature means the same to two models at 24C alone.      *)
Fujitsu_Rules ==
    /\ LET sent == Fujitsu_checkSum(ac) IN
       ac.cmd \notin Fujitsu_Commands => sent.OffTimer = 0 \/ sent.OnTimer = 0
    /\ LET told == Fujitsu_buildFromState(Fujitsu_setPower(ac, FALSE))
           before == Fujitsu_toCommon(Fujitsu_stateReset)
           after == Fujitsu_toCommonAfter(told, before) IN
       /\ ~after.power /\ ~after.quiet
       /\ \A f \in {"mode", "degrees", "fan", "swingv", "swingh"} :
            after[f] = before[f]
    /\ ac.model = "ARRAH2E" =>
         (Fujitsu_getTemp(Fujitsu_setModel(ac, "ARREW4E")) = Fujitsu_getTemp(ac) <=> ac.Temp \in 32..33)

(* A temperature that this model, and no other before it, was given. *)
Fujitsu_OwnTemp(a) ==
    CASE a.model = "ARREW4E" /\ a.Fahrenheit -> Fujitsu_getTemp(a) \in 60..88
      [] a.model = "ARREW4E" /\ ~a.Fahrenheit -> Fujitsu_getTemp(a) \in 16..30
      [] OTHER -> ~a.Fahrenheit /\ Fujitsu_getTemp(a) \in 16..30

(* A whole state that was read is sent as it was read, but heating to 10C  *)
(* is sent as Fan at the lowest temperature, a model ARREW4E's swing is    *)
(* sent as none, clean and the filter as none; and the horizontal swing of *)
(* a message that is taken for ARRY4's or ARREB1E's as the vertical one.   *)
Fujitsu_Rereads ==
    LET told == Fujitsu_buildFromState(ac)
        read == Fujitsu_toCommon(told)
        wish == [power |-> read.power, model |-> read.model,
                 mode |-> read.mode, celsius |-> read.celsius,
                 degrees |-> read.degrees, fan |-> read.fan,
                 swingv |-> read.swingv, swingh |-> read.swingh,
                 quiet |-> read.quiet, filter |-> FALSE, clean |-> FALSE,
                 sleep |-> -1]
    IN ac.cmd \notin Fujitsu_Commands =>
         SameState(read, Fujitsu_toCommon(Fujitsu_fujitsu(wish)),
                   (IF Fujitsu_get10CHeat(told) \/ ~Fujitsu_OwnTemp(told)
                      THEN {"degrees", "celsius"} ELSE {}) \cup
                   (IF told.Swing > 1 /\ told.model \in {"ARRY4", "ARREB1E"}
                      THEN {"swingv", "swingh"} ELSE {}))

-----------------------------------------------------------------------------
Init ==
    \/ remote = "Fujitsu" /\ Fujitsu_Init

Next ==
    /\ UNCHANGED remote
    /\ \/ remote = "Fujitsu" /\ Fujitsu_Next

Spec == Init /\ [][Next]_<<remote, ac>>

(* The object stays one that its message can carry. *)
TypeOK ==
    CASE remote = "Fujitsu" -> Fujitsu_TypeOK
      [] OTHER -> TRUE

(* What a class says of its settings together, see there. *)
Rules ==
    CASE remote = "Fujitsu" -> Fujitsu_Rules
      [] OTHER -> TRUE

(* A state that was read from a message is sent as it was read, see there. *)
Rereads ==
    CASE remote = "Fujitsu" -> Fujitsu_Rereads
      [] OTHER -> TRUE
=============================================================================
