----------------------------- MODULE AcTclToTeco ------------------------------
(***************************************************************************)
(* The remotes of TCL, Technibel and Teco: one object of one of the classes,*)
(* `Tcl112', `Technibel', `Teco'. What belongs to a class has its name in  *)
(* front, as in Tcl112_Next; after it come the names of the source.        *)
(***************************************************************************)
EXTENDS StdAc

VARIABLES
    remote,    \* the class
    ac         \* its object

-----------------------------------------------------------------------------
(***************************************************************************)
(* ir_Tcl.h, ir_Tcl.cpp, class IRTcl112Ac: quiet is a message of its own,  *)
(* sent before the settings when it has changed since the last send.       *)
(***************************************************************************)
Tcl112_Modes == {"Heat", "Dry", "Cool", "Fan", "Auto"}
Tcl112_Fans == {"Auto", "Min", "Low", "Med", "High"}
Tcl112_SwingVs == {"Off", "Highest", "High", "Middle", "Low", "Lowest", "On"}

(* Temp counts down from 31; a timer counts periods of 20 minutes.         *)
(* quiet, prev and explicit are kept beside the message.                   *)
Tcl112_Object == [isTcl : BOOLEAN, Power : BOOLEAN, Mode : Tcl112_Modes, Temp : 0..15,
                  HalfDegree : 0..1, Fan : Tcl112_Fans, SwingV : Tcl112_SwingVs, SwingH : BOOLEAN,
                  Turbo : BOOLEAN, Econo : BOOLEAN, Health : BOOLEAN,
                  Light : BOOLEAN, OnTimer : 0..63, OffTimer : 0..63,
                  OnTimerEnabled : BOOLEAN, OffTimerEnabled : BOOLEAN,
                  TimerIndicator : BOOLEAN, quiet : BOOLEAN, prev : BOOLEAN,
                  explicit : BOOLEAN]

(* Byte 8 of the reset state, 0x40, has the timer's indicator on. *)
Tcl112_stateReset == [isTcl |-> FALSE, Power |-> TRUE, Mode |-> "Cool", Temp |-> 7,
                      HalfDegree |-> 0, Fan |-> "Auto", SwingV |-> "Off",
                      SwingH |-> FALSE, Turbo |-> FALSE, Econo |-> FALSE,
                      Health |-> FALSE, Light |-> FALSE, OnTimer |-> 0,
                      OffTimer |-> 0, OnTimerEnabled |-> FALSE,
                      OffTimerEnabled |-> FALSE, TimerIndicator |-> TRUE,
                      quiet |-> FALSE, prev |-> FALSE, explicit |-> FALSE]

Tcl112_getModel(a) == IF a.isTcl THEN "TAC09CHSD" ELSE "GZ055BE1"
Tcl112_setModel(a, model) == [a EXCEPT !.isTcl = model # "GZ055BE1"]
Tcl112_setPower(a, on) == [a EXCEPT !.Power = on]
Tcl112_setFan(a, fan) == [a EXCEPT !.Fan = IF fan \in Tcl112_Fans THEN fan ELSE "Auto"]
Tcl112_setEcono(a, on) == [a EXCEPT !.Econo = on]
Tcl112_setHealth(a, on) == [a EXCEPT !.Health = on]
Tcl112_setLight(a, on) == [a EXCEPT !.Light = ~on]
Tcl112_setSwingHorizontal(a, on) == [a EXCEPT !.SwingH = on]
Tcl112_setSwingVertical(a, v) == [a EXCEPT !.SwingV = IF v \in Tcl112_SwingVs THEN v ELSE @]

Tcl112_setMode(a, mode) ==
    IF mode \in Tcl112_Modes
      THEN [(IF mode = "Fan" THEN Tcl112_setFan(a, "High") ELSE a) EXCEPT !.Mode = mode]
      ELSE [a EXCEPT !.Mode = "Auto"]

(* Temperatures are counted in half degrees. *)
Tcl112_setTemp(a, halves) ==
    LET safe == Clamp(halves, 32, 62) IN
    [a EXCEPT !.HalfDegree = safe % 2, !.Temp = 31 - safe \div 2]
Tcl112_getTemp(a) == 2 * (31 - a.Temp) + a.HalfDegree

Tcl112_setTurbo(a, on) ==
    IF on THEN [a EXCEPT !.Turbo = TRUE, !.Fan = "High", !.SwingV = "On"]
          ELSE [a EXCEPT !.Turbo = FALSE]

(* A message of the special kind would carry the bit itself. *)
Tcl112_setQuiet(a, on) == [a EXCEPT !.quiet = on, !.explicit = TRUE]
Tcl112_getQuiet(a, def) == IF a.explicit THEN a.quiet ELSE def

Tcl112_Periods(mins) == AtMost(mins, 720) \div 20

Tcl112_setOnTimer(a, mins) ==
    LET n == Tcl112_Periods(mins) IN
    [a EXCEPT !.OnTimer = n, !.OnTimerEnabled = n > 0,
              !.TimerIndicator = n > 0 \/ a.OffTimerEnabled]

Tcl112_setOffTimer(a, mins) ==
    LET n == Tcl112_Periods(mins) IN
    [a EXCEPT !.OffTimer = n, !.OffTimerEnabled = n > 0,
              !.TimerIndicator = a.OnTimerEnabled \/ n > 0]

(* The special message is built in the object, which is then put back, but *)
(* as the message of the model with isTcl, whatever the model was.         *)
Tcl112_send(a) ==
           IF a.quiet # a.prev
             THEN [Tcl112_setQuiet(a, a.quiet) EXCEPT !.prev = a.quiet, !.isTcl = TRUE]
             ELSE a

Tcl112_convertMode(mode) ==
    IF mode \in {"Cool", "Heat", "Dry", "Fan"} THEN mode ELSE "Auto"

Tcl112_convertFan(fan) ==
    CASE fan \in {"Min", "Low"} -> fan [] fan = "Medium" -> "Med"
      [] fan \in {"High", "Max"} -> "High" [] OTHER -> "Auto"

Tcl112_convertSwingV(v) == IF v \in Tcl112_SwingVs THEN v ELSE "On"

Tcl112_toCommonMode(mode) == mode
Tcl112_toCommonFanSpeed(fan) ==
    CASE fan = "High" -> "Max" [] fan = "Med" -> "Medium" [] OTHER -> fan
Tcl112_toCommonSwingV(v) == IF v = "Off" THEN "Off" ELSE "Auto"

(* before: quiet in the state it was received in. *)
Tcl112_toCommon(a, before) ==
    [model |-> Tcl112_getModel(a), power |-> a.Power, mode |-> Tcl112_toCommonMode(a.Mode),
     degrees |-> Tcl112_getTemp(a), fan |-> Tcl112_toCommonFanSpeed(a.Fan),
     swingv |-> Tcl112_toCommonSwingV(a.SwingV), swingh |-> OnOff(a.SwingH),
     quiet |-> Tcl112_getQuiet(a, before), turbo |-> a.Turbo, light |-> ~a.Light,
     econo |-> a.Econo, filter |-> a.Health]

Tcl112_tcl112(w) ==
    LET cooled == Tcl112_setFan(Tcl112_setTemp(Tcl112_setMode(Tcl112_setPower(Tcl112_setModel(Tcl112_stateReset, w.model),
                                                                              w.power),
                                                              Tcl112_convertMode(w.mode)), w.degrees),
                                Tcl112_convertFan(w.fan))
        swung == Tcl112_setSwingHorizontal(
                   Tcl112_setSwingVertical(cooled, Tcl112_convertSwingV(w.swingv)),
                   w.swingh # "Off")
    IN Tcl112_setHealth(Tcl112_setEcono(Tcl112_setLight(Tcl112_setTurbo(Tcl112_setQuiet(swung, w.quiet), w.turbo),
                                                        w.light), w.econo), w.filter)

Tcl112_Wishes == [model : {"GZ055BE1", "TAC09CHSD"}, power : {TRUE}, mode : opmode_t,
                  degrees : {31, 45, 64}, fan : {"Auto", "Medium", "Max"},
                  swingv : {"Off", "Low", "UpperMiddle"}, swingh : {"Left"},
                  quiet : BOOLEAN, turbo : BOOLEAN, light : {TRUE}, econo : {FALSE},
                  filter : {FALSE}]

Tcl112_Init == ac \in {Tcl112_stateReset} \cup {Tcl112_tcl112(w) : w \in Tcl112_Wishes}

Tcl112_Next ==
    \/ \E m \in {"Fan", "?"} : ac' = Tcl112_setMode(ac, m)
    \/ ac' = Tcl112_setModel(ac, "GZ055BE1")
    \/ ac' = Tcl112_setPower(ac, FALSE)
    \/ ac' = Tcl112_setTemp(ac, 63)
    \/ \E on \in BOOLEAN : ac' = Tcl112_setTurbo(ac, on)
    \/ \E on \in BOOLEAN : ac' = Tcl112_setQuiet(ac, on)
    \/ \E mins \in {19, 1000} : ac' = Tcl112_setOnTimer(ac, mins)
    \/ \E mins \in {19, 40} : ac' = Tcl112_setOffTimer(ac, mins)
    \/ ac' = Tcl112_send(ac)

Tcl112_TypeOK == ac \in Tcl112_Object

(* A timer that runs is shown, one that runs has a time to run, and a send *)
(* leaves nothing to be told by the next one.                              *)
Tcl112_Rules ==
    /\ ac.OnTimerEnabled \/ ac.OffTimerEnabled => ac.TimerIndicator
    /\ ac.OnTimerEnabled = (ac.OnTimer > 0)
    /\ ac.OffTimerEnabled = (ac.OffTimer > 0)
    /\ Tcl112_send(Tcl112_send(ac)) = Tcl112_send(ac)

(* A state that was read is sent as it was read (a place of the swing is   *)
(* read as a swing, though, and sent as one); turbo brings its fan and     *)
(* swing with it.                                                          *)
Tcl112_Rereads ==
    \A before \in BOOLEAN :
      LET read == Tcl112_toCommon(ac, before) IN
      SameState(read, Tcl112_toCommon(Tcl112_tcl112(read), before),
                IF ac.Turbo THEN {"fan", "swingv"} ELSE {})

-----------------------------------------------------------------------------
(***************************************************************************)
(* ir_Technibel.h, ir_Technibel.cpp: Dry has one fan speed, and every      *)
(* change of mode restores the kept temperature in its unit.               *)
(***************************************************************************)
Technibel_Modes == {"Cool", "Dry", "Fan", "Heat"}
Technibel_Fans == {"Low", "Medium", "High"}

Technibel_Object == [Power : BOOLEAN, Mode : Technibel_Modes, Fan : Technibel_Fans,
                     Temp : 0..127,
                     UseFah : BOOLEAN, Sleep : BOOLEAN, Swing : BOOLEAN,
                     TimerEnable : BOOLEAN, TimerHours : 0..24,
                     savedTemp : 16..31 \cup 61..88, savedUnits : BOOLEAN]

(* 0x180101140000EA. *)
Technibel_stateReset == [Power |-> FALSE, Mode |-> "Cool", Fan |-> "Low", Temp |-> 20,
                         UseFah |-> FALSE, Sleep |-> FALSE, Swing |-> FALSE,
                         TimerEnable |-> FALSE, TimerHours |-> 0,
                         savedTemp |-> 20, savedUnits |-> FALSE]

Technibel_Range(fahrenheit) == IF fahrenheit THEN 61..88 ELSE 16..31

Technibel_setPower(a, on) == [a EXCEPT !.Power = on]
Technibel_setSwing(a, on) == [a EXCEPT !.Swing = on]
Technibel_setSleep(a, on) == [a EXCEPT !.Sleep = on]
Technibel_setTempUnit(a, f) == [a EXCEPT !.UseFah = f, !.savedUnits = f]

Technibel_setTemp(a, degrees, f) ==
    LET t == IF f THEN Clamp(degrees, 61, 88) ELSE Clamp(degrees, 16, 31) IN
    [Technibel_setTempUnit(a, f) EXCEPT !.Temp = t, !.savedTemp = t]

Technibel_setFan(a, speed) ==
    [a EXCEPT !.Fan = IF a.Mode = "Dry" \/ speed \notin Technibel_Fans THEN "Low"
                                                                       ELSE speed]

Technibel_setMode(a, mode) ==
    LET m == [a EXCEPT !.Mode = IF mode \in Technibel_Modes THEN mode ELSE "Cool"] IN
    Technibel_setTemp(Technibel_setFan(m, m.Fan), m.savedTemp, m.savedUnits)

(* The hours are one byte. *)
Technibel_setTimer(a, mins) ==
    LET hours == (mins \div 60) % 256 IN
    [a EXCEPT !.TimerHours = AtMost(24, hours), !.TimerEnable = hours > 0]

Technibel_convertMode(mode) == IF mode \in {"Heat", "Dry", "Fan"} THEN mode ELSE "Cool"

Technibel_convertFan(fan) ==
    CASE fan = "Medium" -> "Medium" [] fan \in {"High", "Max"} -> "High"
      [] OTHER -> "Low"

Technibel_toCommon(a) ==
    [power |-> a.Power, mode |-> a.Mode, celsius |-> ~a.UseFah,
     degrees |-> a.Temp, fan |-> a.Fan, swingv |-> OnOff(a.Swing),
     sleep |-> a.Sleep]

Technibel_technibel(w) ==
    Technibel_setSleep(Technibel_setSwing(Technibel_setFan(Technibel_setTemp(Technibel_setMode(Technibel_setPower(Technibel_stateReset, w.power),
                                                                                               Technibel_convertMode(w.mode)),
                                                                             w.degrees, ~w.celsius),
                                                           Technibel_convertFan(w.fan)),
                                          w.swingv # "Off"),
                       w.sleep)

Technibel_Wishes == [power : BOOLEAN, mode : opmode_t, celsius : BOOLEAN,
                     degrees : {15, 24, 32, 60, 75, 89}, fan : fanspeed_t,
                     swingv : {"Off", "Auto", "Low"}, sleep : BOOLEAN]

Technibel_Init == ac \in {Technibel_stateReset} \cup {Technibel_technibel(w) : w \in Technibel_Wishes}

Technibel_Next ==
    \/ \E on \in BOOLEAN : ac' = Technibel_setPower(ac, on)
    \/ \E m \in Technibel_Modes \cup {"?"} : ac' = Technibel_setMode(ac, m)
    \/ \E f \in BOOLEAN : ac' = Technibel_setTempUnit(ac, f)
    \/ \E t \in {15, 75}, f \in BOOLEAN : ac' = Technibel_setTemp(ac, t, f)
    \/ \E f \in Technibel_Fans \cup {"?"} : ac' = Technibel_setFan(ac, f)
    \/ \E on \in BOOLEAN : ac' = Technibel_setSwing(ac, on)
    \/ \E on \in BOOLEAN : ac' = Technibel_setSleep(ac, on)
    \/ \E n \in {0, 59, 60, 25 * 60} : ac' = Technibel_setTimer(ac, n)

Technibel_TypeOK == ac \in Technibel_Object

(* Whatever comes after the mode, Dry has the fan low; the message and what *)
(* is kept beside it never disagree about temperature and unit, so that a  *)
(* change of mode leaves a temperature of the unit in use.                 *)
Technibel_Rules ==
    /\ ac.Mode = "Dry" => ac.Fan = "Low"
    /\ ac.Temp = ac.savedTemp /\ ac.UseFah = ac.savedUnits
    /\ \A m \in Technibel_Modes : Technibel_setMode(ac, m).Temp \in Technibel_Range(ac.UseFah)
    /\ ac.TimerEnable = (ac.TimerHours > 0)

(* A state that was read is sent as it was read, unless a setTempUnit()    *)
(* has left a temperature that its unit does not have.                     *)
Technibel_Rereads ==
    SameState(Technibel_toCommon(ac),
              Technibel_toCommon(Technibel_technibel(Technibel_toCommon(ac))),
              IF ac.Temp \in Technibel_Range(ac.UseFah) THEN {} ELSE {"degrees"})

-----------------------------------------------------------------------------
(***************************************************************************)
(* ir_Teco.h, ir_Teco.cpp: the timer is kept as tens of hours, hours and a *)
(* half hour.                                                              *)
(***************************************************************************)
Teco_Modes == {"Auto", "Cool", "Dry", "Fan", "Heat"}
Teco_Fans == {"Auto", "Low", "Med", "High"}

Teco_Object == [Power : BOOLEAN, Mode : Teco_Modes, Fan : Teco_Fans, Temp : 0..14,
                Swing : BOOLEAN, Sleep : BOOLEAN, Light : BOOLEAN,
                Humid : BOOLEAN, Save : BOOLEAN,
                TimerOn : BOOLEAN, HalfHour : BOOLEAN, TensHours : 0..3,
                UnitHours : 0..15]

(* 0b01001010000000000000010000000000000. *)
Teco_stateReset == [Power |-> FALSE, Mode |-> "Auto", Fan |-> "Auto", Temp |-> 0,
                    Swing |-> FALSE, Sleep |-> FALSE, Light |-> FALSE,
                    Humid |-> FALSE, Save |-> FALSE,
                    TimerOn |-> FALSE, HalfHour |-> FALSE, TensHours |-> 1,
                    UnitHours |-> 0]

Teco_setPower(a, on) == [a EXCEPT !.Power = on]
Teco_setSwing(a, on) == [a EXCEPT !.Swing = on]
Teco_setSleep(a, on) == [a EXCEPT !.Sleep = on]
Teco_setLight(a, on) == [a EXCEPT !.Light = on]
Teco_setHumid(a, on) == [a EXCEPT !.Humid = on]
Teco_setSave(a, on) == [a EXCEPT !.Save = on]
Teco_setMode(a, m) == [a EXCEPT !.Mode = IF m \in Teco_Modes THEN m ELSE "Auto"]
Teco_setFan(a, f) == [a EXCEPT !.Fan = IF f \in Teco_Fans THEN f ELSE "Auto"]
Teco_setTemp(a, temp) == [a EXCEPT !.Temp = Clamp(temp, 16, 30) - 16]

Teco_getTimer(a) ==
    IF a.TimerOn
      THEN (a.TensHours * 10 + a.UnitHours) * 60 + IF a.HalfHour THEN 30 ELSE 0
      ELSE 0

Teco_setTimer(a, nr_mins) ==
    LET mins == AtMost(nr_mins, 24 * 60) IN
    [a EXCEPT !.TimerOn = mins > 0, !.HalfHour = mins % 60 >= 30,
              !.UnitHours = (mins \div 60) % 10,
              !.TensHours = (mins \div 60) \div 10]

Teco_convertMode(mode) ==
    IF mode \in {"Cool", "Heat", "Dry", "Fan"} THEN mode ELSE "Auto"

Teco_convertFan(fan) ==
    CASE fan \in {"Min", "Low"} -> "Low" [] fan = "Medium" -> "Med"
      [] fan \in {"High", "Max"} -> "High" [] OTHER -> "Auto"

Teco_toCommonFanSpeed(fan) ==
    CASE fan = "High" -> "Max" [] fan = "Med" -> "Medium"
      [] fan = "Low" -> "Min" [] OTHER -> "Auto"

Teco_toCommon(a) ==
    [power |-> a.Power, mode |-> a.Mode, degrees |-> a.Temp + 16,
     fan |-> Teco_toCommonFanSpeed(a.Fan), swingv |-> OnOff(a.Swing),
     sleep |-> a.Sleep, light |-> a.Light]

Teco_teco(w) ==
         LET basic == Teco_setFan(Teco_setTemp(Teco_setMode(Teco_setPower(Teco_stateReset,
                                                                          w.power),
                                                            Teco_convertMode(w.mode)),
                                               w.degrees),
                                  Teco_convertFan(w.fan))
         IN Teco_setSleep(Teco_setLight(Teco_setSwing(basic, w.swingv # "Off"), w.light),
                          w.sleep)

Teco_Wishes == [power : BOOLEAN, mode : opmode_t, degrees : {15, 31},
                fan : {"Auto", "Min", "Medium", "Max"}, swingv : {"Off", "Auto", "Low"},
                sleep : BOOLEAN, light : BOOLEAN]

Teco_Minutes == {0, 1, 29, 30, 59, 60, 690, 24 * 60 - 1, 24 * 60, 24 * 60 + 1}

Teco_Init == ac \in {Teco_stateReset} \cup {Teco_teco(w) : w \in Teco_Wishes}

Teco_Next ==
    \/ \E on \in BOOLEAN : ac' = Teco_setPower(ac, on)
    \/ \E m \in {"Heat", "?"} : ac' = Teco_setMode(ac, m)
    \/ \E t \in {15, 31} : ac' = Teco_setTemp(ac, t)
    \/ \E f \in {"Low", "?"} : ac' = Teco_setFan(ac, f)
    \/ \E on \in BOOLEAN : ac' = Teco_setSwing(ac, on)
    \/ \E on \in BOOLEAN : ac' = Teco_setSleep(ac, on)
    \/ \E on \in BOOLEAN : ac' = Teco_setLight(ac, on)
    \/ \E on \in BOOLEAN : ac' = Teco_setHumid(ac, on)
    \/ \E on \in BOOLEAN : ac' = Teco_setSave(ac, on)
    \/ \E n \in {1, 690, 24 * 60 + 1} : ac' = Teco_setTimer(ac, n)

Teco_TypeOK == ac \in Teco_Object

(* The timer that was set is read back to the half hour below, up to a day,*)
(* but for one of less than half an hour, which is on and reads 0.         *)
Teco_Rules ==
    /\ \A n \in Teco_Minutes :
         Teco_getTimer(Teco_setTimer(ac, n)) = AtMost(n - (n % 30), 24 * 60)
    /\ \A n \in Teco_Minutes : Teco_setTimer(ac, n).TimerOn <=> n > 0

(* A state that was read is sent as it was read. *)
Teco_Rereads == SameState(Teco_toCommon(ac), Teco_toCommon(Teco_teco(Teco_toCommon(ac))), {})

-----------------------------------------------------------------------------
Init ==
    \/ remote = "Tcl112" /\ Tcl112_Init
    \/ remote = "Technibel" /\ Technibel_Init
    \/ remote = "Teco" /\ Teco_Init

Next ==
    /\ UNCHANGED remote
    /\ \/ remote = "Tcl112" /\ Tcl112_Next
       \/ remote = "Technibel" /\ Technibel_Next
       \/ remote = "Teco" /\ Teco_Next

Spec == Init /\ [][Next]_<<remote, ac>>

(* The object stays one that its message can carry. *)
TypeOK ==
    CASE remote = "Tcl112" -> Tcl112_TypeOK
      [] remote = "Technibel" -> Technibel_TypeOK
      [] remote = "Teco" -> Teco_TypeOK
      [] OTHER -> TRUE

(* What a class says of its settings together, see there. *)
Rules ==
    CASE remote = "Tcl112" -> Tcl112_Rules
      [] remote = "Technibel" -> Technibel_Rules
      [] remote = "Teco" -> Teco_Rules
      [] OTHER -> TRUE

(* A state that was read from a message is sent as it was read, see there. *)
Rereads ==
    CASE remote = "Tcl112" -> Tcl112_Rereads
      [] remote = "Technibel" -> Technibel_Rereads
      [] remote = "Teco" -> Teco_Rereads
      [] OTHER -> TRUE
=============================================================================
