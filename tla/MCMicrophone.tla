--------------------------- MODULE MCMicrophone ---------------------------
(***************************************************************************)
(* The instance of Microphone that TLC checks: a conference microphone and *)
(* a headset on a radio link, in two orders, with a mapper beside them,   *)
(* and a registry in which the conference microphone is there or not.      *)
(***************************************************************************)
EXTENDS Microphone

CONSTANTS h1, h2, ls

Conference == [api |-> "WASAPI", head |-> "Speakerphone", tail |-> "USB Audio", inputs |-> 1,
               rate |-> 48000, default |-> FALSE, marker |-> "none"]
Headset == [api |-> "WASAPI", head |-> "Headset", tail |-> "Hands-Free", inputs |-> 1,
            rate |-> 48000, default |-> TRUE, marker |-> "none"]
Mapper == [api |-> "MME", head |-> "Sound Mapper", tail |-> "", inputs |-> 2,
           rate |-> 44100, default |-> TRUE, marker |-> "virtual"]

TwoOrders == {<<Mapper, Conference, Headset>>, <<Conference, Headset>>}

Endpoint(d, bus, there) == [description |-> d.head, adapter |-> d.tail, bus |-> bus, active |-> there]
InOrOut == {{Endpoint(Headset, "BLUETOOTH", TRUE), Endpoint(Conference, "USB", there)} :
               there \in BOOLEAN}
=============================================================================
