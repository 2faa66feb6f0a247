-------------------------------- MODULE IRac --------------------------------
(***************************************************************************)
(* src/src/IRac.cpp: the object that sends a common A/C state, `next`, and *)
(* remembers the last one sent, `_prev`, because many remotes have no      *)
(* message for "light on", only one for "toggle the light".  sendAc() and  *)
(* the functions of the protocols that toggle a setting are modelled       *)
(* together with the appliance they talk to, which is external.            *)
(***************************************************************************)
EXTENDS FiniteSets

CONSTANTS
    Remotes,   \* the protocols, with their model where it matters
    Careful    \* the sketch sends only what CanBeSent says

ASSUME CarefulAssumption == Careful \in BOOLEAN

VARIABLES
    remote,    \* the protocol of the appliance in the room
    next,      \* the state to be sent, a public member
    prev,      \* _prev
    appliance  \* the settings that are on at the appliance

vars == <<remote, next, prev, appliance>>

-----------------------------------------------------------------------------
(***************************************************************************)
(* stdAc::state_t: the settings that are on; swing and sleep are on or     *)
(* off, as the toggles only tell that apart.  Settings that no protocol    *)
(* toggles (temperature, fan, ...) are left out.                           *)
(***************************************************************************)
Unknown == "UNKNOWN"
Modes == {"Off", "Cool", "Heat"}
Settings == {"power", "swingv", "swingh", "turbo", "light", "clean", "sleep",
             "econo", "beep"}
State == [remote : Remotes \cup {Unknown}, mode : Modes, on : SUBSET Settings]

InitState == [remote |-> Unknown, mode |-> "Off", on |-> {}]

Changed(s, t) == (s \ t) \cup (t \ s)

-----------------------------------------------------------------------------
(* handleToggles(): what each protocol toggles.                            *)

PowerToggled == {"KELON", "AIRWELL", "DAIKIN64", "DAIKIN128", "PANASONIC_AC32",
                 "WHIRLPOOL_AC", "PANASONIC_CKP"}
SwingToggled == {"COOLIX", "TRANSCOLD", "MIDEA", "CORONA_AC", "HITACHI_AC344",
                 "HITACHI_AC424", "SHARP_AC", "KELON"}
LightToggled == {"COOLIX", "TRANSCOLD", "DAIKIN128", "ELECTRA_AC", "MIDEA",
                 "SHARP_AC", "MIRAGE_KKG29AC1"}
TurboToggled == {"COOLIX", "TRANSCOLD", "FUJITSU_ARREB1E", "MIDEA"}
EconoToggled == {"FUJITSU_ARREB1E", "MIDEA"}
CleanToggled == {"COOLIX", "TRANSCOLD", "MIDEA", "MIRAGE_KKG29AC1", "SAMSUNG_AC"}
SleepToggled == {"COOLIX", "TRANSCOLD"}
BeepToggled == {"SAMSUNG_AC"}

Toggles(r) ==
    {s \in Settings :
        \/ s = "power" /\ r \in PowerToggled
        \/ s = "swingv" /\ r \in SwingToggled
        \/ s = "light" /\ r \in LightToggled
        \/ s = "turbo" /\ r \in TurboToggled
        \/ s = "econo" /\ r \in EconoToggled
        \/ s = "clean" /\ r \in CleanToggled
        \/ s = "sleep" /\ r \in SleepToggled
        \/ s = "beep" /\ r \in BeepToggled}

(* A mutant of handleToggles: what is on is toggled, changed or not. *)
handleToggles_Raw(desired, last) == desired

(* A toggled setting is sent as on exactly when it has changed. *)
handleToggles(desired, last) ==
    IF desired.remote = last.remote
      THEN [desired EXCEPT !.on =
              (@ \ Toggles(desired.remote))
                \cup (Changed(@, last.on) \cap Toggles(desired.remote))]
      ELSE desired

cleanState(state) ==
    IF state.mode = "Off" THEN [state EXCEPT !.on = @ \ {"power"}] ELSE state

-----------------------------------------------------------------------------
(* What the functions of the protocols make of the state they are given.   *)

(* lg() and haier160() compare these with _prev themselves, and send a     *)
(* toggle when they differ.                                                *)
Compared(r) ==
    CASE r = "LG6711A20083V" -> {"swingv"}
      [] r = "HAIER_AC160" -> {"light"}
      [] OTHER -> {}

(* For HITACHI_AC1 sendAc() compares these with _prev.  Its message has    *)
(* their values, and a bit that asks the appliance to take them.           *)
Marked(r) == IF r = "HITACHI_AC1" THEN {"power", "swingv"} ELSE {}

(* The settings that are told as a change.  GREE stands for the protocols  *)
(* that have none.                                                         *)
Relative(r) == Toggles(r) \cup Compared(r) \cup Marked(r)

Supported ==
    PowerToggled \cup SwingToggled \cup LightToggled \cup TurboToggled
      \cup EconoToggled \cup CleanToggled \cup SleepToggled \cup BeepToggled
      \cup {"LG6711A20083V", "HAIER_AC160", "HITACHI_AC1", "GREE"}

ASSUME RemotesAssumption == Remotes \subseteq Supported

(* These send nothing but "off" for an off. *)
OffIsShort == {"COOLIX", "TRANSCOLD", "FUJITSU_ARREB1E", "LG6711A20083V"}

(* coolix() and transcold() have one swing message, for both directions. *)
OneSwing == {"COOLIX", "TRANSCOLD"}

(* transcold() has no parameter for these; what sharp() asks for the light *)
(* is overwritten by its setMode() and setPower() before it is sent.       *)
NotPassed(r) ==
    CASE r = "TRANSCOLD" -> {"turbo", "light", "clean", "sleep"}
      [] r = "SHARP_AC" -> {"light"}
      [] OTHER -> {}

(* The settings whose change gets into a message when it is asked for; the *)
(* class of Midea drops clean outside cool, dry and auto.                  *)
Carried(send) ==
    IF send.remote \in OffIsShort /\ "power" \notin send.on
      THEN {}
      ELSE (Relative(send.remote) \ NotPassed(send.remote))
             \ (IF send.remote = "MIDEA" /\ send.mode = "Heat"
                  THEN {"clean"} ELSE {})

(* sharp() sends the swing that handleToggles() made only if it is not the *)
(* one in _prev.                                                           *)
SharpSwing(send) == {"swingv"} \cap (IF send.remote = "SHARP_AC" THEN prev.on ELSE {})

(* A mutant of Flipped: a swingh that no protocol toggles is flipped too. *)
Flipped_Swingh(send) == send.on \cap (Carried(send) \cup {"swingh"})

(* The settings that the message asks the appliance to turn over. *)
Flipped(send) ==
    ((send.on \cap Toggles(send.remote) \cap Carried(send)) \ SharpSwing(send))
      \cup (Changed(send.on, prev.on) \cap Compared(send.remote) \cap Carried(send))
      \cup (IF send.remote \in OneSwing /\ "swingh" \in send.on
              THEN Carried(send) \cap {"swingv"} ELSE {})

(* The settings that the message asks it to take as they are sent: power   *)
(* where it is no change, what is marked, and the "off" that sharp() sends *)
(* for a swing which did not change.                                       *)
Taken(send) ==
    ({"power"} \ Relative(send.remote))
      \cup (Changed(send.on, prev.on) \cap Marked(send.remote))
      \cup (SharpSwing(send) \ send.on)

(* The settings an appliance of this kind has, power always among them. *)
Offered(r) == {"power"} \cup (Relative(r) \ NotPassed(r))

Receive(send) ==
    appliance' = (Changed(appliance, Flipped(send)) \ Taken(send))
                   \cup (send.on \cap Taken(send))

-----------------------------------------------------------------------------
Init ==
    /\ remote \in Remotes
    /\ next = InitState
    /\ prev = InitState
    /\ appliance = {}

(* The sketch edits `next`: what the appliance offers, and swingh, which no *)
(* protocol toggles.                                                       *)
SetProtocol ==
    /\ next.remote = Unknown
    /\ next' = [next EXCEPT !.remote = remote]
    /\ UNCHANGED <<remote, prev, appliance>>

SetMode(m) ==
    /\ next.mode # m
    /\ next' = [next EXCEPT !.mode = m]
    /\ UNCHANGED <<remote, prev, appliance>>

Editable == Offered(remote) \cup {"swingh"}

Edit(s) ==
    /\ s \in Editable
    /\ next' = [next EXCEPT !.on = Changed(@, {s})]
    /\ UNCHANGED <<remote, prev, appliance>>

(***************************************************************************)
(* What a careful sketch sends: it switches a power that is told as a      *)
(* change off by `power` and not by the mode; it changes such a setting    *)
(* only when the message that says so will be sent; it does not use swingh *)
(* with a protocol that has one swing, nor swingv with SHARP_AC.           *)
(***************************************************************************)
CanBeSent ==
    LET state == cleanState(next) IN
    /\ next.mode = "Off" /\ "power" \in Relative(next.remote)
         => "power" \notin next.on
    /\ Changed(next.on, prev.on) \cap (Relative(next.remote) \ NotPassed(next.remote))
         \subseteq Carried(state)
    /\ next.remote \in OneSwing => "swingh" \notin next.on
    /\ next.remote = "SHARP_AC" => "swingv" \notin next.on

(* sendAc(): next is sent as it differs from _prev, and becomes _prev.     *)
(* With no known protocol it fails and nothing changes.                    *)
SendAc ==
    /\ next.remote = remote
    /\ Careful => CanBeSent
    /\ Receive(handleToggles(cleanState(next), prev))
    /\ prev' = next
    /\ UNCHANGED <<remote, next>>

Next ==
    \/ SetProtocol
    \/ \E m \in Modes : SetMode(m)
    \/ \E s \in Settings : Edit(s)
    \/ SendAc

Spec == Init /\ [][Next]_vars

-----------------------------------------------------------------------------
(* Properties.                                                             *)

TypeOK ==
    /\ remote \in Remotes
    /\ next \in State /\ next.remote \in {Unknown, remote}
    /\ prev \in State /\ prev.remote \in {Unknown, remote}
    /\ next.on \cup prev.on \subseteq Editable
    /\ appliance \subseteq Offered(remote)

(***************************************************************************)
(* getStatePrev() (IRac.cpp:189): _prev is "what the A/C unit should       *)
(* already be set to".  After any number of edits and sends the appliance  *)
(* has on, of the settings it offers, what the last state sent had on: a   *)
(* toggle is never sent twice, never left out, never sent for nothing.     *)
(***************************************************************************)
InStep == appliance = cleanState(prev).on \cap Offered(remote)

(***************************************************************************)
(* cleanState() (IRac.cpp:2964): "enforce the power is off if the mode is  *)
(* also off".  Whenever a state with mode Off has been sent, once or       *)
(* again, the appliance is off.                                            *)
(***************************************************************************)
OffIsOff == [][SendAc /\ next.mode = "Off" => "power" \notin appliance']_vars

(***************************************************************************)
(* handleToggles() (IRac.cpp:3022-3026): "It changed, so toggle.", "No     *)
(* change, so no toggle."  A send turns the swing of an appliance that is  *)
(* on and stays on over exactly when the swing that is asked for is not    *)
(* the one asked for last.                                                 *)
(***************************************************************************)
SwingFollows ==
    [][SendAc /\ "power" \in appliance \cap appliance'
         => ("swingv" \in Changed(appliance, appliance')
               <=> "swingv" \in Changed(next.on, prev.on))]_vars
=============================================================================
