------------------------------ MODULE Remotes -------------------------------
(***************************************************************************)
(* Every remote of an air conditioner that is modelled, side by side: a    *)
(* state of Remotes is one object of one of the classes, and a step is one *)
(* call of a setter. The library has no class above them (IRac picks one by*)
(* protocol, IRac.cpp:3139), but they all promise the same four things.    *)
(***************************************************************************)
VARIABLES remote, ac

AirtonToBosch           == INSTANCE AcAirtonToBosch
Argo                    == INSTANCE AcArgo
CarrierToDelonghi       == INSTANCE AcCarrierToDelonghi
Daikin                  == INSTANCE AcDaikin
DaikinSmall             == INSTANCE AcDaikinSmall
EcoclimToEurom          == INSTANCE AcEcoclimToEurom
Fujitsu                 == INSTANCE AcFujitsu
GoodweatherToKelvinator == INSTANCE AcGoodweatherToKelvinator
Haier                   == INSTANCE AcHaier
Hitachi                 == INSTANCE AcHitachi
Kelon                   == INSTANCE AcKelon
MideaToRhoss            == INSTANCE AcMideaToRhoss
Mitsubishi              == INSTANCE AcMitsubishi
Panasonic               == INSTANCE AcPanasonic
SamsungLg               == INSTANCE AcSamsungLg
SanyoSharp              == INSTANCE AcSanyoSharp
TclToTeco               == INSTANCE AcTclToTeco
ToshibaToTruma          == INSTANCE AcToshibaToTruma
VestelToYork            == INSTANCE AcVestelToYork

vars == <<remote, ac>>

Init ==
    \/ AirtonToBosch!Init
    \/ Argo!Init
    \/ CarrierToDelonghi!Init
    \/ Daikin!Init
    \/ DaikinSmall!Init
    \/ EcoclimToEurom!Init
    \/ Fujitsu!Init
    \/ GoodweatherToKelvinator!Init
    \/ Haier!Init
    \/ Hitachi!Init
    \/ Kelon!Init
    \/ MideaToRhoss!Init
    \/ Mitsubishi!Init
    \/ Panasonic!Init
    \/ SamsungLg!Init
    \/ SanyoSharp!Init
    \/ TclToTeco!Init
    \/ ToshibaToTruma!Init
    \/ VestelToYork!Init

Next ==
    \/ AirtonToBosch!Next
    \/ Argo!Next
    \/ CarrierToDelonghi!Next
    \/ Daikin!Next
    \/ DaikinSmall!Next
    \/ EcoclimToEurom!Next
    \/ Fujitsu!Next
    \/ GoodweatherToKelvinator!Next
    \/ Haier!Next
    \/ Hitachi!Next
    \/ Kelon!Next
    \/ MideaToRhoss!Next
    \/ Mitsubishi!Next
    \/ Panasonic!Next
    \/ SamsungLg!Next
    \/ SanyoSharp!Next
    \/ TclToTeco!Next
    \/ ToshibaToTruma!Next
    \/ VestelToYork!Next

Spec == Init /\ [][Next]_vars

-----------------------------------------------------------------------------
(* The object stays one that its message can carry. *)
TypeOK ==
    /\ AirtonToBosch!TypeOK
    /\ Argo!TypeOK
    /\ CarrierToDelonghi!TypeOK
    /\ Daikin!TypeOK
    /\ DaikinSmall!TypeOK
    /\ EcoclimToEurom!TypeOK
    /\ Fujitsu!TypeOK
    /\ GoodweatherToKelvinator!TypeOK
    /\ Haier!TypeOK
    /\ Hitachi!TypeOK
    /\ Kelon!TypeOK
    /\ MideaToRhoss!TypeOK
    /\ Mitsubishi!TypeOK
    /\ Panasonic!TypeOK
    /\ SamsungLg!TypeOK
    /\ SanyoSharp!TypeOK
    /\ TclToTeco!TypeOK
    /\ ToshibaToTruma!TypeOK
    /\ VestelToYork!TypeOK

(* What a class says of its settings together: see the module of each. *)
Rules ==
    /\ AirtonToBosch!Rules
    /\ Argo!Rules
    /\ CarrierToDelonghi!Rules
    /\ Daikin!Rules
    /\ DaikinSmall!Rules
    /\ EcoclimToEurom!Rules
    /\ Fujitsu!Rules
    /\ GoodweatherToKelvinator!Rules
    /\ Haier!Rules
    /\ Hitachi!Rules
    /\ Kelon!Rules
    /\ MideaToRhoss!Rules
    /\ Mitsubishi!Rules
    /\ Panasonic!Rules
    /\ SamsungLg!Rules
    /\ SanyoSharp!Rules
    /\ TclToTeco!Rules
    /\ ToshibaToTruma!Rules
    /\ VestelToYork!Rules

(* A state that was read from a message is sent as it was read: a program  *)
(* that passes on what another remote said does not change the unit.       *)
Rereads ==
    /\ AirtonToBosch!Rereads
    /\ Argo!Rereads
    /\ CarrierToDelonghi!Rereads
    /\ Daikin!Rereads
    /\ DaikinSmall!Rereads
    /\ EcoclimToEurom!Rereads
    /\ Fujitsu!Rereads
    /\ GoodweatherToKelvinator!Rereads
    /\ Haier!Rereads
    /\ Hitachi!Rereads
    /\ Kelon!Rereads
    /\ MideaToRhoss!Rereads
    /\ Mitsubishi!Rereads
    /\ Panasonic!Rereads
    /\ SamsungLg!Rereads
    /\ SanyoSharp!Rereads
    /\ TclToTeco!Rereads
    /\ ToshibaToTruma!Rereads
    /\ VestelToYork!Rereads

(* Where power and mode are told in one place, a remote that is switched   *)
(* off and on again says what it said before.                              *)
PowerCycles ==
    /\ AirtonToBosch!PowerCycles
    /\ CarrierToDelonghi!PowerCycles
    /\ EcoclimToEurom!PowerCycles
    /\ Haier!PowerCycles
    /\ Hitachi!PowerCycles
    /\ MideaToRhoss!PowerCycles
    /\ SamsungLg!PowerCycles
    /\ ToshibaToTruma!PowerCycles
=============================================================================
