------------------------------ MODULE Devices ------------------------------
(***************************************************************************)
(* Which microphone is meant: src/mom_igd/audio/devices.py.  A device of   *)
(* the backend's list is a record                                          *)
(*   [api, head, tail, inputs, rate, default, marker]                      *)
(* (its name is "head (tail)"; marker is "loopback" or "virtual" when the  *)
(* name says so, "none" otherwise), its index the place in the list.  An   *)
(* endpoint is what the Windows registry knows of a recording device,      *)
(*   [description, adapter, bus, active].                                  *)
(***************************************************************************)
EXTENDS Integers, Sequences, FiniteSets

NoDevice == 0           \* an index of no list
Nobody == <<>>          \* the fingerprint of no device
HostApis == <<"WASAPI", "WDM-KS", "DirectSound", "MME">>      \* best first
SampleRates ==
    {8000, 11025, 16000, 22050, 32000, 44100, 48000, 88200, 96000, 176400, 192000}

\* Host API, name and channel count; never the index.
Fingerprint(d) == <<d.api, d.head, d.tail, d.inputs>>

\* The endpoints of a device: those with its description, failing that those
\* with its adapter.  Equality, never containment.
Matching(d, endpoints) ==
    LET heads == {e \in endpoints : d.head # "" /\ e.description = d.head}
    IN  IF heads # {} THEN heads
        ELSE {e \in endpoints : d.tail # "" /\ e.adapter = d.tail}

\* The bus of a device, only when every endpoint asked agrees on it.
Transport(d, endpoints) ==
    LET matches == Matching(d, endpoints)
        live == {e \in matches : e.active}
        asked == IF live # {} THEN live ELSE matches
        buses == {e.bus : e \in asked} \ {"UNKNOWN"}
    IN  IF Cardinality(buses) = 1 THEN CHOOSE b \in buses : TRUE ELSE "UNKNOWN"

Usable(d, endpoints) ==
    /\ d.inputs > 0 /\ d.marker = "none"
    /\ endpoints # {} => \E e \in Matching(d, endpoints) : e.active

UsableIn(list, endpoints) == {i \in DOMAIN list : Usable(list[i], endpoints)}

Rank(d) == IF \E k \in DOMAIN HostApis : HostApis[k] = d.api
           THEN CHOOSE k \in DOMAIN HostApis : HostApis[k] = d.api ELSE 50

\* The first of the usable devices, sorted by rank, default and place (the name,
\* which decides before the place, is left out); the default of the best host
\* API that has one, if there is one.
Best(list, S) ==
    CHOOSE i \in S : \A j \in S :
        \/ Rank(list[i]) < Rank(list[j])
        \/ Rank(list[i]) = Rank(list[j]) /\ i <= j

DefaultInput(list, endpoints) ==
    LET usable == UsableIn(list, endpoints)
        defaults == {i \in usable : list[i].default}
    IN  IF usable = {} THEN NoDevice
        ELSE Best(list, IF defaults # {} THEN defaults ELSE usable)

\* The first device with the fingerprint, whether it can be used or not.
FindByFingerprint(list, fingerprint) ==
    LET same == {i \in DOMAIN list : Fingerprint(list[i]) = fingerprint}
    IN  IF same = {} THEN NoDevice ELSE CHOOSE i \in same : \A j \in same : i <= j

\* MUTANT: the place the device had when it was chosen is tried first.
ResolveByIndex(list, endpoints, selection) ==
    IF selection.index \in UsableIn(list, endpoints) THEN selection.index
    ELSE FindByFingerprint(list, selection.fingerprint)

\* The device that was chosen, or none: never another one.
ResolveSelection(list, endpoints, selection) ==
    LET i == FindByFingerprint(list, selection.fingerprint)
    IN  IF i \in UsableIn(list, endpoints) THEN i ELSE NoDevice

\* RecordingService.resolve_device.
ResolveDevice(list, endpoints, selection) ==
    IF selection.fingerprint = Nobody THEN DefaultInput(list, endpoints)
    ELSE ResolveSelection(list, endpoints, selection)

Chosen(list, i) == [fingerprint |-> Fingerprint(list[i]), index |-> i]
NotChosen == [fingerprint |-> Nobody, index |-> NoDevice]

\* profile_for: the device's rate, which the capture profile refuses when it is
\* not a rate the application records at, and its channels, two at most.
Profile(d) == [rate |-> d.rate, channels |-> IF d.inputs > 2 THEN 2 ELSE d.inputs]
ProfileValid(p) == p.rate \in SampleRates /\ p.channels \in 1..2
=============================================================================
