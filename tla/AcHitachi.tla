------------------------------ MODULE AcHitachi -------------------------------
(***************************************************************************)
(* Hitachi's remotes: one object of one of the classes, `Hitachi',         *)
(* `Hitachi1', `Hitachi424', `Hitachi264', `Hitachi296', `Hitachi344'. What*)
(* belongs to a class has its name in front, as in Hitachi_Next; after it  *)
(* come the names of the source.                                           *)
(***************************************************************************)
EXTENDS StdAc

VARIABLES
    remote,    \* the class
    ac         \* its object

-----------------------------------------------------------------------------
(***************************************************************************)
(* ir_Hitachi.h, ir_Hitachi.cpp, class IRHitachiAc.  Fan is sent with 64   *)
(* degrees; the speeds that a mode has are kept by setMode and setFan.     *)
(***************************************************************************)
Hitachi_ModeNumbers == {"Auto", "Heat", "Cool", "Dry", "Fan"}
Hitachi_MinTemp == 16
Hitachi_MaxTemp == 32
Hitachi_FanTemp == 64
Hitachi_FanAuto == 1
Hitachi_FanLow == 2
Hitachi_FanHigh == 5

(* No mode is set in a new object.  Byte9Low is what byte 9 tells.         *)
Hitachi_Object == [Mode : Hitachi_ModeNumbers \cup {"None"},
                   Temp : (16..32) \cup {Hitachi_FanTemp},
                   _previoustemp : 0..255, Byte9Low : BOOLEAN, Fan : 0..5,
                   SwingV : BOOLEAN, SwingH : BOOLEAN, Power : BOOLEAN]

Hitachi_stateReset == [Mode |-> "None", Temp |-> 23, _previoustemp |-> 23,
                       Byte9Low |-> FALSE, Fan |-> 0, SwingV |-> FALSE,
                       SwingH |-> FALSE, Power |-> FALSE]

Hitachi_setPower(a, on) == [a EXCEPT !.Power = on]

Hitachi_setTemp(a, celsius) ==
    LET t == IF celsius = Hitachi_FanTemp THEN celsius
                                          ELSE Clamp(celsius, Hitachi_MinTemp,
                                                     Hitachi_MaxTemp) IN
    [a EXCEPT !._previoustemp = IF celsius # Hitachi_FanTemp THEN celsius ELSE @,
              !.Temp = t, !.Byte9Low = (t = Hitachi_MinTemp)]

Hitachi_setFan(a, speed) ==
    LET min == IF a.Mode \in {"Dry", "Fan"} THEN Hitachi_FanLow ELSE Hitachi_FanAuto
        max == IF a.Mode = "Dry" THEN Hitachi_FanLow + 1 ELSE Hitachi_FanHigh
    IN [a EXCEPT !.Fan = Clamp(speed, min, max)]

Hitachi_setMode(a, mode) ==
    LET m == IF mode \in Hitachi_ModeNumbers THEN mode ELSE "Auto"
        warm == Hitachi_setTemp([a EXCEPT !.Mode = m],
                                IF m = "Fan" THEN Hitachi_FanTemp ELSE a._previoustemp)
    IN Hitachi_setFan(warm, a.Fan)

Hitachi_setSwingVertical(a, on) == [a EXCEPT !.SwingV = on]
Hitachi_setSwingHorizontal(a, on) == [a EXCEPT !.SwingH = on]

Hitachi_convertMode(mode) == IF mode = "Off" THEN "Auto" ELSE mode
Hitachi_toCommonMode(mode) == IF mode = "None" THEN "Auto" ELSE mode

Hitachi_convertFan(speed) ==
    CASE speed \in {"Min", "Low"} -> Hitachi_FanLow [] speed = "Medium" -> Hitachi_FanLow + 1
      [] speed = "High" -> Hitachi_FanHigh - 1 [] speed = "Max" -> Hitachi_FanHigh
      [] OTHER -> Hitachi_FanAuto
Hitachi_toCommonFanSpeed(speed) ==
    CASE speed = Hitachi_FanHigh -> "Max" [] speed = Hitachi_FanHigh - 1 -> "High"
      [] speed = Hitachi_FanLow + 1 -> "Medium" [] speed = Hitachi_FanLow -> "Low"
      [] OTHER -> "Auto"

Hitachi_toCommon(a) ==
    [power |-> a.Power, mode |-> Hitachi_toCommonMode(a.Mode), degrees |-> a.Temp,
     fan |-> Hitachi_toCommonFanSpeed(a.Fan), swingv |-> OnOff(a.SwingV),
     swingh |-> OnOff(a.SwingH)]

(* The degrees of the wish take the place of Fan's 64. *)
Hitachi_hitachi(w) ==
    LET cooled == Hitachi_setFan(Hitachi_setTemp(Hitachi_setMode(Hitachi_setPower(Hitachi_stateReset, w.power),
                                                                 Hitachi_convertMode(w.mode)), w.degrees),
                                 Hitachi_convertFan(w.fan))
    IN Hitachi_setSwingHorizontal(Hitachi_setSwingVertical(cooled, w.swingv # "Off"),
                                  w.swingh # "Off")

Hitachi_Wishes == [power : BOOLEAN, mode : {"Off", "Dry", "Fan"},
                   degrees : {15, 16, 33}, fan : fanspeed_t, swingv : {"Off", "Low"},
                   swingh : {"Left"}]

Hitachi_Init == ac \in {Hitachi_stateReset} \cup {Hitachi_hitachi(w) : w \in Hitachi_Wishes}

Hitachi_Next ==
    \/ ac' = Hitachi_setPower(ac, TRUE)
    \/ \E m \in {"Cool", "Dry", "Fan", "?"} : ac' = Hitachi_setMode(ac, m)
    \/ \E t \in {0, 16, 40} : ac' = Hitachi_setTemp(ac, t)
    \/ \E s \in {0, 1, 5} : ac' = Hitachi_setFan(ac, s)
    \/ ac' = Hitachi_setSwingVertical(ac, FALSE) \/ ac' = Hitachi_setSwingHorizontal(ac, TRUE)

Hitachi_TypeOK == ac \in Hitachi_Object

(* The speed is one that the mode has; Fan alone is blown at 64 degrees,   *)
(* and forgets no temperature; byte 9 tells the lowest one.                *)
Hitachi_Rules ==
    /\ ac.Mode = "Dry" => ac.Fan \in {2, 3}
    /\ ac.Mode = "Fan" => ac.Fan \in 2..5
    /\ ac.Mode \notin {"Dry", "Fan", "None"} => ac.Fan \in 1..5
    /\ ac.Temp = Hitachi_FanTemp => ac.Mode = "Fan"
    /\ ac.Byte9Low <=> (ac.Temp = Hitachi_MinTemp)
    /\ Hitachi_setMode(Hitachi_setMode(ac, "Fan"), "Cool").Temp = Hitachi_setMode(ac, "Cool").Temp

(* A state that was read is sent as it was read: the 64 degrees of Fan     *)
(* too, when they are asked for.                                           *)
Hitachi_Rereads ==
    LET read == Hitachi_toCommon(ac) IN SameState(read, Hitachi_toCommon(Hitachi_hitachi(read)),
                                                  {})

Hitachi_PowerCycles == Hitachi_setPower(Hitachi_setPower(ac, FALSE),
                                        TRUE) = Hitachi_setPower(ac, TRUE)

-----------------------------------------------------------------------------
(***************************************************************************)
(* ir_Hitachi.h, ir_Hitachi.cpp, class IRHitachiAc1: power and swing are   *)
(* told as they are and as toggles; a mode has its temperature, speeds and *)
(* sleep.                                                                  *)
(***************************************************************************)
Hitachi1_Models == {"A", "B"}
Hitachi1_Modes == {"Dry", "Fan", "Cool", "Heat", "Auto"}
Hitachi1_Fans == {"Auto", "High", "Med", "Low"}
Hitachi1_MinTemp == 16
Hitachi1_MaxTemp == 32
Hitachi1_TempAuto == 25

Hitachi1_Object == [Model : Hitachi1_Models, Fan : Hitachi1_Fans, Mode : Hitachi1_Modes,
                    Temp : 16..32,
                    OffTimer : 0..65535, OnTimer : 0..65535, SwingToggle : BOOLEAN,
                    Sleep : 0..4, PowerToggle : BOOLEAN, Power : BOOLEAN,
                    SwingV : BOOLEAN, SwingH : BOOLEAN]

Hitachi1_stateReset == [Model |-> "A", Fan |-> "Auto", Mode |-> "Auto", Temp |-> 25,
                        OffTimer |-> 0, OnTimer |-> 0, SwingToggle |-> TRUE,
                        Sleep |-> 0, PowerToggle |-> FALSE, Power |-> TRUE,
                        SwingV |-> TRUE, SwingH |-> FALSE]

Hitachi1_setModel(a, model) == [a EXCEPT !.Model = IF model = "B" THEN "B" ELSE "A"]
Hitachi1_setPowerToggle(a, on) == [a EXCEPT !.PowerToggle = on]
Hitachi1_setPower(a, on) ==
    [a EXCEPT !.PowerToggle = @ \/ on # a.Power, !.Power = on]

Hitachi1_setTemp(a, celsius) ==
    IF a.Mode = "Auto" THEN a
    ELSE [a EXCEPT !.Temp = Clamp(celsius, Hitachi1_MinTemp, Hitachi1_MaxTemp)]

(* In Heat and Fan nothing but Auto is changed. *)
Hitachi1_setFan(a, speed) ==
    [a EXCEPT !.Fan =
        CASE a.Mode = "Dry" -> "Low"
          [] a.Mode = "Auto" -> "Auto"
          [] a.Mode \in {"Heat", "Fan"} ->
               IF speed = "Auto" \/ @ = "Auto" THEN "Low" ELSE @
          [] OTHER -> IF speed \in Hitachi1_Fans THEN speed ELSE "Auto"]

Hitachi1_setSleep(a, mode) ==
    [a EXCEPT !.Sleep = IF a.Mode \in {"Auto", "Cool"} THEN AtMost(mode, 4)
                                                       ELSE 0]

Hitachi1_setMode(a, mode) ==
    LET m == IF mode \in Hitachi1_Modes THEN mode ELSE "Auto"
        warm == IF m = "Auto" THEN Hitachi1_setTemp(a, Hitachi1_TempAuto) ELSE a
        b == [warm EXCEPT !.Mode = m]
    IN Hitachi1_setFan(Hitachi1_setSleep(b, b.Sleep), b.Fan)

Hitachi1_setSwingToggle(a, on) == [a EXCEPT !.SwingToggle = on]
Hitachi1_setSwingV(a, on) == [a EXCEPT !.SwingV = on]
Hitachi1_setSwingH(a, on) == [a EXCEPT !.SwingH = on]

(* Sixteen bits, sent with the last one first. *)
Hitachi1_setOnTimer(a, mins) == [a EXCEPT !.OnTimer = mins % 65536]
Hitachi1_setOffTimer(a, mins) == [a EXCEPT !.OffTimer = mins % 65536]

Hitachi1_convertMode(mode) == IF mode = "Off" THEN "Auto" ELSE mode
Hitachi1_convertFan(speed) ==
    CASE speed \in {"Min", "Low"} -> "Low" [] speed = "Medium" -> "Med"
      [] speed \in {"High", "Max"} -> "High" [] OTHER -> "Auto"
Hitachi1_toCommonFanSpeed(speed) == IF speed = "Med" THEN "Medium" ELSE speed

Hitachi1_toCommon(a) ==
    [model |-> a.Model, power |-> a.Power, mode |-> a.Mode,
     degrees |-> a.Temp, fan |-> Hitachi1_toCommonFanSpeed(a.Fan),
     swingv |-> OnOff(a.SwingV), swingh |-> OnOff(a.SwingH),
     sleep |-> a.Sleep > 0]

(* What toggles is the difference from the state that was sent before. *)
Hitachi1_hitachi1(w, power_toggle, swing_toggle) ==
    LET on == Hitachi1_setPowerToggle(Hitachi1_setPower(Hitachi1_setModel(Hitachi1_stateReset,
                                                                          w.model), w.power),
                                      power_toggle)
        cooled == Hitachi1_setFan(Hitachi1_setTemp(Hitachi1_setMode(on, Hitachi1_convertMode(w.mode)), w.degrees),
                                  Hitachi1_convertFan(w.fan))
        swung == Hitachi1_setSwingH(Hitachi1_setSwingV(cooled, w.swingv # "Off"),
                                    w.swingh # "Off")
    IN Hitachi1_setSleep(Hitachi1_setSwingToggle(swung, swing_toggle), IF w.sleep THEN 2 ELSE 0)

Hitachi1_Wishes == [model : Hitachi1_Models, power : BOOLEAN, mode : {"Off", "Heat", "Cool"},
                    degrees : {15, 33}, fan : {"Low", "Max"}, swingv : {"Low"},
                    swingh : {"Off"}, sleep : BOOLEAN]

Hitachi1_Init ==
    ac \in {Hitachi1_stateReset} \cup {Hitachi1_hitachi1(w, p, p) : w \in Hitachi1_Wishes,
                                       p \in BOOLEAN}

Hitachi1_Next ==
    \/ ac' = Hitachi1_setModel(ac, "?") \/ \E on \in BOOLEAN : ac' = Hitachi1_setPower(ac, on)
    \/ ac' = Hitachi1_setPowerToggle(ac, FALSE)
    \/ \E m \in Hitachi1_Modes \cup {"?"} : ac' = Hitachi1_setMode(ac, m)
    \/ ac' = Hitachi1_setTemp(ac, 20)
    \/ \E s \in {"Auto", "Med", "?"} : ac' = Hitachi1_setFan(ac, s)
    \/ ac' = Hitachi1_setSleep(ac, 9) \/ ac' = Hitachi1_setSwingToggle(ac, FALSE)
    \/ ac' = Hitachi1_setSwingV(ac, TRUE) \/ ac' = Hitachi1_setSwingH(ac, FALSE)
    \/ ac' = Hitachi1_setOnTimer(ac, 0) \/ ac' = Hitachi1_setOffTimer(ac, 0)

Hitachi1_TypeOK == ac \in Hitachi1_Object

(* Each mode has what it allows: Auto its 25 degrees and speed, Dry the    *)
(* low one, Heat and Fan any but Auto, and sleep is for Auto and Cool.  In *)
(* Heat and Fan, though, setFan sets no speed at all: what blows is what   *)
(* the mode before had.  A change of the power is a toggle.                *)
Hitachi1_Rules ==
    /\ ac.Mode = "Auto" => ac.Temp = Hitachi1_TempAuto /\ ac.Fan = "Auto"
    /\ ac.Mode = "Dry" => ac.Fan = "Low"
    /\ ac.Mode \in {"Heat", "Fan"} =>
         /\ ac.Fan # "Auto"
         /\ \A s \in Hitachi1_Fans \ {"Auto"} : Hitachi1_setFan(ac, s) = ac
    /\ ac.Sleep > 0 => ac.Mode \in {"Auto", "Cool"}
    /\ Hitachi1_setPower(ac, ~ac.Power).PowerToggle

(* A state that was read is sent as it was read, but for the speed in Heat *)
(* and Fan, which is always the low one.                                   *)
Hitachi1_Rereads ==
    LET read == Hitachi1_toCommon(ac)
        sent == Hitachi1_toCommon(Hitachi1_hitachi1(read, FALSE, FALSE))
        fanLost == read.mode \in {"Heat", "Fan"} /\ read.fan # "Low"
    IN /\ SameState(read, sent, IF fanLost THEN {"fan"} ELSE {})
       /\ fanLost => sent.fan = "Low"

Hitachi1_PowerCycles ==
    Hitachi1_toCommon(Hitachi1_setPower(Hitachi1_setPower(ac, FALSE),
                                        TRUE)) = Hitachi1_toCommon(Hitachi1_setPower(ac, TRUE))

-----------------------------------------------------------------------------
(***************************************************************************)
(* ir_Hitachi.h, ir_Hitachi.cpp, class IRHitachiAc424: a message tells the *)
(* button that was pressed, and the swing is nothing but such a button.    *)
(***************************************************************************)
Hitachi424_Modes == {"Fan", "Cool", "Dry", "Heat"}
Hitachi424_Buttons == {"PowerMode", "Fan", "TempDown", "TempUp", "SwingV", "SwingH"}
Hitachi424_MinTemp == 16
Hitachi424_MaxTemp == 32
Hitachi424_FanTemp == 27
Hitachi424_FanMin == 1
Hitachi424_FanAuto == 5
Hitachi424_FanMax == 6
Hitachi424_FanMaxDry == 2

Hitachi424_Object == [Button : Hitachi424_Buttons, Temp : 16..32, Mode : Hitachi424_Modes,
                      Fan : 1..6,
                      Power : BOOLEAN, _previoustemp : 16..32]

Hitachi424_stateReset == [Button |-> "Fan", Temp |-> 23, Mode |-> "Cool",
                          Fan |-> Hitachi424_FanAuto, Power |-> TRUE, _previoustemp |-> 23]

Hitachi424_setButton(a, button) == [a EXCEPT !.Button = button]
Hitachi424_setPower(a, on) == Hitachi424_setButton([a EXCEPT !.Power = on], "PowerMode")

Hitachi424_setTemp(a, celsius, setPrevious) ==
    LET t == Clamp(celsius, Hitachi424_MinTemp, Hitachi424_MaxTemp) IN
    [a EXCEPT !.Temp = t, !._previoustemp = IF setPrevious THEN t ELSE @,
              !.Button = CASE a._previoustemp > t -> "TempDown"
                           [] a._previoustemp < t -> "TempUp"
                           [] OTHER -> @]

Hitachi424_setFan(a, speed) ==
    LET low == AtLeast(speed, Hitachi424_FanMin)
        new == CASE a.Mode = "Dry" /\ speed # Hitachi424_FanAuto -> AtMost(low, Hitachi424_FanMaxDry)
                 [] a.Mode = "Fan" /\ speed = Hitachi424_FanAuto -> Hitachi424_FanMin
                 [] OTHER -> AtMost(low, Hitachi424_FanMax)
    IN [a EXCEPT !.Fan = new, !.Button = IF new # a.Fan THEN "Fan" ELSE @]

Hitachi424_setMode(a, mode) ==
    LET m == IF mode \in Hitachi424_Modes THEN mode ELSE "Cool"
        warm == Hitachi424_setTemp([a EXCEPT !.Mode = m],
                                   IF m = "Fan" THEN Hitachi424_FanTemp ELSE a._previoustemp,
                                   m # "Fan")
    IN Hitachi424_setButton(Hitachi424_setFan(warm, a.Fan), "PowerMode")

Hitachi424_setSwingVToggle(a, on) ==
    Hitachi424_setButton(a, CASE on -> "SwingV"
                              [] ~on /\ a.Button = "SwingV" -> "PowerMode"
                              [] OTHER -> a.Button)
Hitachi424_getSwingVToggle(a) == a.Button = "SwingV"

Hitachi424_convertMode(mode) == IF mode \in Hitachi424_Modes THEN mode ELSE "Cool"
Hitachi424_convertFan(speed) ==
    CASE speed \in {"Min", "Low", "Medium", "High"} -> FanNumber(speed)
      [] speed = "Max" -> Hitachi424_FanMax [] OTHER -> Hitachi424_FanAuto
Hitachi424_toCommonFanSpeed(speed) ==
    CASE speed \in 1..4 -> FanOfNumber(speed) [] speed = Hitachi424_FanMax -> "Max"
      [] OTHER -> "Auto"

Hitachi424_toCommon(a) ==
    [power |-> a.Power, mode |-> a.Mode, degrees |-> a.Temp,
     fan |-> Hitachi424_toCommonFanSpeed(a.Fan), swingv |-> OnOff(Hitachi424_getSwingVToggle(a))]

(* The button of the swing is the last one. *)
Hitachi424_hitachi424(w) ==
    LET cooled == Hitachi424_setFan(Hitachi424_setTemp(Hitachi424_setMode(Hitachi424_stateReset,
                                                                          Hitachi424_convertMode(w.mode)),
                                                       w.degrees, TRUE), Hitachi424_convertFan(w.fan))
    IN Hitachi424_setSwingVToggle(Hitachi424_setPower(cooled, w.power), w.swingv # "Off")

Hitachi424_Wishes == [power : BOOLEAN, mode : opmode_t, degrees : {15, 23, 33},
                      fan : fanspeed_t, swingv : {"Off", "Low"}]

Hitachi424_Init == ac \in {Hitachi424_stateReset} \cup {Hitachi424_hitachi424(w) : w \in Hitachi424_Wishes}

Hitachi424_Next ==
    \/ ac' = Hitachi424_setButton(ac, "SwingH") \/ ac' = Hitachi424_setPower(ac, TRUE)
    \/ \E t \in {16, 23, 33} : ac' = Hitachi424_setTemp(ac, t, TRUE)
    \/ \E s \in {0, 4, Hitachi424_FanAuto, 9} : ac' = Hitachi424_setFan(ac, s)
    \/ \E m \in {"Fan", "Dry", "?"} : ac' = Hitachi424_setMode(ac, m)
    \/ \E on \in BOOLEAN : ac' = Hitachi424_setSwingVToggle(ac, on)

Hitachi424_TypeOK == ac \in Hitachi424_Object

(* The speed is one that the mode has; Fan forgets no temperature; and a   *)
(* message that swings tells no other button, so that a press of any other *)
(* takes the swing back.                                                   *)
Hitachi424_Rules ==
    /\ ac.Mode = "Dry" => ac.Fan \in {1, 2, Hitachi424_FanAuto}
    /\ ac.Mode = "Fan" => ac.Fan # Hitachi424_FanAuto
    /\ Hitachi424_setMode(Hitachi424_setMode(ac, "Fan"), "Cool").Temp = Hitachi424_setMode(ac, "Cool").Temp
    /\ LET swung == Hitachi424_setSwingVToggle(ac, TRUE) IN
       /\ ~Hitachi424_getSwingVToggle(Hitachi424_setPower(swung, TRUE))
       /\ ~Hitachi424_getSwingVToggle(Hitachi424_setMode(swung, "Cool"))
       /\ \A t \in {16, 23} :
            Hitachi424_getSwingVToggle(Hitachi424_setTemp(swung, t, TRUE)) <=> t = ac._previoustemp

(* A state that was read is sent as it was read. *)
Hitachi424_Rereads ==
    LET read == Hitachi424_toCommon(ac) IN SameState(read, Hitachi424_toCommon(Hitachi424_hitachi424(read)), {})

-----------------------------------------------------------------------------
(***************************************************************************)
(* ir_Hitachi.h, ir_Hitachi.cpp, class IRHitachiAc264: IRHitachiAc424 with *)
(* speeds of its own, which no mode limits, and without a swing.           *)
(***************************************************************************)
Hitachi264_Fans == {1, 3, 4, 5}                              \* Min, Medium, High, Auto
Hitachi264_FanAuto == 5

Hitachi264_Object == [Button : Hitachi424_Buttons, Temp : 16..32, Mode : Hitachi424_Modes,
                      Fan : Hitachi264_Fans,
                      Power : BOOLEAN, _previoustemp : 16..32]

(* Byte 27 is written after setPower(true), without it. *)
Hitachi264_stateReset == [Button |-> "PowerMode", Temp |-> 23, Mode |-> "Cool",
                          Fan |-> Hitachi264_FanAuto, Power |-> FALSE, _previoustemp |-> 23]

Hitachi264_setFan(a, speed) ==
    [a EXCEPT !.Fan = IF speed \in Hitachi264_Fans THEN speed ELSE Hitachi264_FanAuto]

(* IRHitachiAc424::setMode, which calls the setFan of this class. *)
Hitachi264_setMode(a, mode) ==
    Hitachi424_setButton(Hitachi264_setFan([Hitachi424_setMode(a, mode) EXCEPT !.Fan = a.Fan],
                                           a.Fan),
                         "PowerMode")

Hitachi264_convertFan(speed) ==
    CASE speed \in {"Min", "Low"} -> 1 [] speed = "Medium" -> 3
      [] speed \in {"High", "Max"} -> 4 [] OTHER -> Hitachi264_FanAuto
Hitachi264_toCommonFanSpeed(speed) ==
    CASE speed = 4 -> "High" [] speed = 3 -> "Medium" [] speed = 1 -> "Min"
      [] OTHER -> "Auto"

Hitachi264_toCommon(a) ==
    [power |-> a.Power, mode |-> a.Mode, degrees |-> a.Temp,
     fan |-> Hitachi264_toCommonFanSpeed(a.Fan), swingv |-> "Off"]

Hitachi264_hitachi264(w) ==
    LET warm == Hitachi424_setTemp(Hitachi264_setMode(Hitachi264_stateReset,
                                                      Hitachi424_convertMode(w.mode)),
                                   w.degrees, TRUE)
    IN Hitachi424_setPower(Hitachi264_setFan(warm, Hitachi264_convertFan(w.fan)), w.power)

Hitachi264_Wishes == [power : BOOLEAN, mode : opmode_t, degrees : {15, 23, 33},
                      fan : fanspeed_t]

Hitachi264_Init == ac \in {Hitachi264_stateReset} \cup {Hitachi264_hitachi264(w) : w \in Hitachi264_Wishes}

Hitachi264_Next ==
    \/ ac' = Hitachi424_setPower(ac, TRUE)
    \/ \E t \in {16, 23} : ac' = Hitachi424_setTemp(ac, t, TRUE)
    \/ \E s \in {2, 3} : ac' = Hitachi264_setFan(ac, s)
    \/ \E m \in Hitachi424_Modes \cup {"?"} : ac' = Hitachi264_setMode(ac, m)
    \/ \E b \in {"TempUp", "Fan"} : ac' = Hitachi424_setButton(ac, b)

Hitachi264_TypeOK == ac \in Hitachi264_Object

(* No mode changes the speed, and a speed is no press of the fan's button. *)
Hitachi264_Rules ==
    /\ \A m \in Hitachi424_Modes : Hitachi264_setMode(ac, m).Fan = ac.Fan
    /\ \A s \in Hitachi264_Fans : Hitachi264_setFan(ac, s).Button = ac.Button
    /\ Hitachi264_setMode(Hitachi264_setMode(ac, "Fan"), "Cool").Temp = Hitachi264_setMode(ac, "Cool").Temp

(* A state that was read is sent as it was read. *)
Hitachi264_Rereads ==
    LET read == Hitachi264_toCommon(ac) IN SameState(read, Hitachi264_toCommon(Hitachi264_hitachi264(read)), {})

-----------------------------------------------------------------------------
(***************************************************************************)
(* ir_Hitachi.h, ir_Hitachi.cpp, class IRHitachiAc296: Auto has a          *)
(* temperature of its own, 1.                                              *)
(***************************************************************************)
Hitachi296_Modes == {"Cool", "Dehumidify", "Heat", "Auto", "AutoDehumidifying"}
Hitachi296_TempAuto == 1
Hitachi296_MinTemp == 16
Hitachi296_MaxTemp == 31
Hitachi296_FanSilent == 1
Hitachi296_FanAuto == 5

Hitachi296_Object == [Temp : 0..31, Mode : Hitachi296_Modes, Fan : 1..5, Power : BOOLEAN]

Hitachi296_stateReset == [Temp |-> 24, Mode |-> "Heat", Fan |-> Hitachi296_FanAuto,
                          Power |-> TRUE]

Hitachi296_setPower(a, on) == [a EXCEPT !.Power = on]

Hitachi296_setTemp(a, celsius) ==
    [a EXCEPT !.Temp = IF a.Mode = "Auto" THEN Hitachi296_TempAuto
                       ELSE Clamp(celsius, Hitachi296_MinTemp, Hitachi296_MaxTemp)]

Hitachi296_setMode(a, mode) ==
    Hitachi296_setTemp([a EXCEPT !.Mode = IF mode \in Hitachi296_Modes THEN mode ELSE "Auto"],
                       a.Temp)

Hitachi296_setFan(a, speed) == [a EXCEPT !.Fan = Clamp(speed, Hitachi296_FanSilent, Hitachi296_FanAuto)]

Hitachi296_convertMode(mode) ==
    CASE mode \in {"Cool", "Heat"} -> mode [] mode = "Dry" -> "Dehumidify"
      [] OTHER -> "Auto"
Hitachi296_toCommonMode(mode) ==
    CASE mode \in {"Dehumidify", "AutoDehumidifying"} -> "Dry" [] OTHER -> mode

Hitachi296_convertFan(speed) ==
    CASE speed \in {"Min", "Low", "Medium", "High"} -> FanNumber(speed)
      [] speed = "Max" -> 4 [] OTHER -> Hitachi296_FanAuto
Hitachi296_toCommonFanSpeed(speed) ==
    IF speed \in 1..4 THEN FanOfNumber(speed) ELSE "Auto"

Hitachi296_toCommon(a) ==
    [power |-> a.Power, mode |-> Hitachi296_toCommonMode(a.Mode), degrees |-> a.Temp,
     fan |-> Hitachi296_toCommonFanSpeed(a.Fan), quiet |-> a.Fan = Hitachi296_FanSilent]

Hitachi296_hitachi296(w) ==
    Hitachi296_setPower(Hitachi296_setFan(Hitachi296_setTemp(Hitachi296_setMode(Hitachi296_stateReset, Hitachi296_convertMode(w.mode)),
                                                             w.degrees), Hitachi296_convertFan(w.fan)), w.power)

Hitachi296_Wishes == [power : BOOLEAN, mode : opmode_t, degrees : Around(16, 31),
                      fan : fanspeed_t]

Hitachi296_Init == ac \in {Hitachi296_stateReset} \cup {Hitachi296_hitachi296(w) : w \in Hitachi296_Wishes}

Hitachi296_Next ==
    \/ ac' = Hitachi296_setPower(ac, FALSE)
    \/ \E m \in {"AutoDehumidifying", "Heat", "?"} : ac' = Hitachi296_setMode(ac, m)
    \/ \E t \in {1, 25} : ac' = Hitachi296_setTemp(ac, t)
    \/ \E s \in {0, 9} : ac' = Hitachi296_setFan(ac, s)

Hitachi296_TypeOK == ac \in Hitachi296_Object

(* Auto, and no other mode, has the temperature that stands for it; the    *)
(* mode after it starts at the lowest, not at what there was before.       *)
Hitachi296_Rules ==
    /\ (ac.Temp = Hitachi296_TempAuto) <=> (ac.Mode = "Auto")
    /\ ac.Mode # "Auto" => ac.Temp \in Hitachi296_MinTemp..Hitachi296_MaxTemp
    /\ Hitachi296_setMode(Hitachi296_setMode(ac, "Auto"), "Cool").Temp = Hitachi296_MinTemp

(* A state that was read is sent as it was read. *)
Hitachi296_Rereads ==
    LET read == Hitachi296_toCommon(ac) IN SameState(read, Hitachi296_toCommon(Hitachi296_hitachi296(read)), {})

Hitachi296_PowerCycles == Hitachi296_setPower(Hitachi296_setPower(ac, FALSE),
                                              TRUE) = Hitachi296_setPower(ac, TRUE)

-----------------------------------------------------------------------------
(***************************************************************************)
(* ir_Hitachi.h, ir_Hitachi.cpp, class IRHitachiAc344: IRHitachiAc424 with *)
(* the swing as a setting too, and a horizontal one.                       *)
(***************************************************************************)
Hitachi344_SwingHs == <<"Auto", "RightMax", "Right", "Middle", "Left", "LeftMax">>
Hitachi344_SwingHMiddle == 3

Hitachi344_Object == [Button : Hitachi424_Buttons, Temp : 16..32, Mode : Hitachi424_Modes,
                      Fan : 1..6,
                      Power : BOOLEAN, _previoustemp : 16..32, SwingV : BOOLEAN,
                      SwingH : 0..7]

Hitachi344_stateReset == [Button |-> "Fan", Temp |-> 23, Mode |-> "Cool", Fan |-> 5,
                          Power |-> TRUE, _previoustemp |-> 23, SwingV |-> FALSE,
                          SwingH |-> 0]

Hitachi344_setSwingV(a, on) == [Hitachi424_setSwingVToggle(a, on) EXCEPT !.SwingV = on]

Hitachi344_setSwingH(a, position) ==
    Hitachi424_setButton([a EXCEPT !.SwingH = IF position > 5 THEN Hitachi344_SwingHMiddle
                                                              ELSE position],
                         "SwingH")

Hitachi344_convertSwingH(position) ==
    IF \E n \in (0..5) \ {Hitachi344_SwingHMiddle} : Hitachi344_SwingHs[n + 1] = position
      THEN CHOOSE n \in 0..5 : Hitachi344_SwingHs[n + 1] = position ELSE Hitachi344_SwingHMiddle
Hitachi344_toCommonSwingH(pos) ==
    IF pos \in (0..5) \ {Hitachi344_SwingHMiddle} THEN Hitachi344_SwingHs[pos + 1] ELSE "Off"

Hitachi344_toCommon(a) ==
    [power |-> a.Power, mode |-> a.Mode, degrees |-> a.Temp,
     fan |-> Hitachi424_toCommonFanSpeed(a.Fan), swingv |-> OnOff(a.SwingV),
     swingh |-> Hitachi344_toCommonSwingH(a.SwingH)]

(* The button of the vertical swing, not its setting. *)
Hitachi344_hitachi344(w) ==
    LET cooled == Hitachi424_setFan(Hitachi424_setTemp(
                      Hitachi424_setMode(Hitachi344_stateReset, Hitachi424_convertMode(w.mode)),
                      w.degrees, TRUE), Hitachi424_convertFan(w.fan))
    IN Hitachi424_setSwingVToggle(
          Hitachi424_setPower(Hitachi344_setSwingH(cooled, Hitachi344_convertSwingH(w.swingh)),
                              w.power),
          w.swingv # "Off")

Hitachi344_Wishes == [power : BOOLEAN, mode : {"Off", "Fan"}, degrees : {15, 23, 33},
                      fan : {"Auto", "Max"}, swingv : {"Off", "Low"},
                      swingh : {"Off", "Auto", "LeftMax", "Wide"}]

Hitachi344_Init == ac \in {Hitachi344_stateReset} \cup {Hitachi344_hitachi344(w) : w \in Hitachi344_Wishes}

Hitachi344_Next ==
    \/ ac' = Hitachi424_setPower(ac, TRUE) \/ ac' = Hitachi424_setTemp(ac, 20, TRUE)
    \/ ac' = Hitachi424_setFan(ac, 2) \/ ac' = Hitachi424_setMode(ac, "Dry")
    \/ \E on \in BOOLEAN : ac' = Hitachi344_setSwingV(ac, on)
    \/ \E on \in BOOLEAN : ac' = Hitachi424_setSwingVToggle(ac, on)
    \/ \E p \in {2, 9} : ac' = Hitachi344_setSwingH(ac, p)

Hitachi344_TypeOK == ac \in Hitachi344_Object

(* A setting of the swing is read as it was set, whatever is pressed after *)
(* it; a swing that IRac is asked for, though, is a button only, and is    *)
(* not read at all.                                                        *)
Hitachi344_Rules ==
    /\ \A on \in BOOLEAN :
         LET swung == Hitachi344_setSwingV(ac, on) IN
         /\ Hitachi344_toCommon(swung).swingv = OnOff(on)
         /\ Hitachi344_toCommon(Hitachi424_setPower(swung, TRUE)).swingv = OnOff(on)
    /\ ac.SwingH \in 0..5

(* A state that was read is sent as it was read, but for that swing. *)
Hitachi344_Rereads ==
    LET read == Hitachi344_toCommon(ac)
        sent == Hitachi344_hitachi344(read)
    IN /\ SameState(read, Hitachi344_toCommon(sent), {"swingv"})
       /\ Hitachi344_toCommon(sent).swingv = "Off"
       /\ Hitachi424_getSwingVToggle(sent) = (read.swingv # "Off")

-----------------------------------------------------------------------------
Init ==
    \/ remote = "Hitachi" /\ Hitachi_Init
    \/ remote = "Hitachi1" /\ Hitachi1_Init
    \/ remote = "Hitachi424" /\ Hitachi424_Init
    \/ remote = "Hitachi264" /\ Hitachi264_Init
    \/ remote = "Hitachi296" /\ Hitachi296_Init
    \/ remote = "Hitachi344" /\ Hitachi344_Init

Next ==
    /\ UNCHANGED remote
    /\ \/ remote = "Hitachi" /\ Hitachi_Next
       \/ remote = "Hitachi1" /\ Hitachi1_Next
       \/ remote = "Hitachi424" /\ Hitachi424_Next
       \/ remote = "Hitachi264" /\ Hitachi264_Next
       \/ remote = "Hitachi296" /\ Hitachi296_Next
       \/ remote = "Hitachi344" /\ Hitachi344_Next

Spec == Init /\ [][Next]_<<remote, ac>>

(* The object stays one that its message can carry. *)
TypeOK ==
    CASE remote = "Hitachi" -> Hitachi_TypeOK
      [] remote = "Hitachi1" -> Hitachi1_TypeOK
      [] remote = "Hitachi424" -> Hitachi424_TypeOK
      [] remote = "Hitachi264" -> Hitachi264_TypeOK
      [] remote = "Hitachi296" -> Hitachi296_TypeOK
      [] remote = "Hitachi344" -> Hitachi344_TypeOK
      [] OTHER -> TRUE

(* What a class says of its settings together, see there. *)
Rules ==
    CASE remote = "Hitachi" -> Hitachi_Rules
      [] remote = "Hitachi1" -> Hitachi1_Rules
      [] remote = "Hitachi424" -> Hitachi424_Rules
      [] remote = "Hitachi264" -> Hitachi264_Rules
      [] remote = "Hitachi296" -> Hitachi296_Rules
      [] remote = "Hitachi344" -> Hitachi344_Rules
      [] OTHER -> TRUE

(* A state that was read from a message is sent as it was read, see there. *)
Rereads ==
    CASE remote = "Hitachi" -> Hitachi_Rereads
      [] remote = "Hitachi1" -> Hitachi1_Rereads
      [] remote = "Hitachi424" -> Hitachi424_Rereads
      [] remote = "Hitachi264" -> Hitachi264_Rereads
      [] remote = "Hitachi296" -> Hitachi296_Rereads
      [] remote = "Hitachi344" -> Hitachi344_Rereads
      [] OTHER -> TRUE

(* Off and on again is on as before, see there. *)
PowerCycles ==
    CASE remote = "Hitachi" -> Hitachi_PowerCycles
      [] remote = "Hitachi1" -> Hitachi1_PowerCycles
      [] remote = "Hitachi296" -> Hitachi296_PowerCycles
      [] OTHER -> TRUE
=============================================================================
