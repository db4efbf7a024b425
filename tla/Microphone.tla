---------------------------- MODULE Microphone ----------------------------
(***************************************************************************)
(* The microphone of one process: RecordingService of                      *)
(* src/mom_igd/audio/service.py seen from the threads that serve the       *)
(* window's requests, with the device list, the level meter and the live   *)
(* preview; the window (shell/launcher.py), the server thread              *)
(* (api/server.py) and what the application does as it shuts down          *)
(* (api/app.py).                                                           *)
(*                                                                         *)
(* Only start, stop and the end of the process hold _state_lock.  The      *)
(* window gives a request sixty seconds and then lets it go on alone, so a *)
(* thread may serve any request at any time.  PortAudio reads the list of  *)
(* devices once for a process; the registry and the stored choice are read *)
(* anew each time, and a choice that cannot be read reads as none (no      *)
(* device is preferred in the configuration, which is the default).  What  *)
(* a failing start or stop leaves in the database, in the lock file and    *)
(* capturing is in RecordingService, pause and resume are in               *)
(* CaptureSession.                                                         *)
(***************************************************************************)
EXTENDS Devices, Preview

CONSTANTS
    Handler,        \* threads that serve requests
    Lifespan,       \* the event loop of the server, as it shuts the application down
    Lists,          \* the lists of devices a process may find
    Registries,     \* what the registry may hold
    ProductionRequiresUsb,
    MaxRequests,    \* bound: requests made
    MaxChanges      \* bound: launches after the first, changes of registry and database

ASSUME MicrophoneAssumption ==
    /\ Lifespan \notin Handler /\ ProductionRequiresUsb \in BOOLEAN
    /\ MaxRequests \in Nat /\ MaxChanges \in Nat
    /\ \A l \in Lists : Len(l) \in Nat /\ DOMAIN l = 1..Len(l)

VARIABLES
    list, endpoints,    \* the devices of this process; the registry
    selection,          \* app_settings: the device the operator chose
    ready,              \* what _database_ready answers
    active,             \* _active: nothing, or the recording's device, its preview, and
                        \* whether a stop of it has failed
    live,               \* _live
    level,              \* _live_level["active"]
    lock,               \* who holds _state_lock
    at, dev, own,       \* of each thread: step, device, preview
    server,             \* "up", "closing", "stopping" (the lifespan handler stops a
                        \* recording), "finished" (its thread has ended), "gone"
    requests, changes

deviceVars == <<list, endpoints, selection, ready>>
serviceVars == <<active, live, level, lock>>
threadVars == <<at, dev, own>>
appVars == <<server, requests, changes>>
microphoneVars == <<deviceVars, serviceVars, threadVars, preview, appVars>>

Threads == Handler \cup {Lifespan}
NoRecording == <<>>

MicrophoneTypeOK ==
    /\ PreviewTypeOK
    /\ list \in Lists /\ endpoints \in Registries
    /\ selection.index \in Nat /\ ready \in BOOLEAN
    /\ active # NoRecording => active.dev \in DOMAIN list /\ active.stuck \in BOOLEAN
    /\ live \in Preview \cup {NoPreview} /\ level \in BOOLEAN
    /\ lock \in Threads \cup {"nobody"}
    /\ dev \in [Threads -> 0..Len(list)] /\ own \in [Threads -> Preview \cup {NoPreview}]
    /\ server \in {"up", "closing", "stopping", "finished", "gone"}
    /\ requests \in 0..MaxRequests /\ changes \in 0..MaxChanges

NothingYet(x) == [t \in Threads |-> x]

MicrophoneInit ==
    /\ list \in Lists /\ endpoints \in Registries /\ selection = NotChosen /\ ready = TRUE
    /\ active = NoRecording /\ live = NoPreview /\ level = FALSE /\ lock = "nobody"
    /\ at = NothingYet("idle") /\ dev = NothingYet(NoDevice) /\ own = NothingYet(NoPreview)
    /\ PreviewInit /\ server = "up" /\ requests = 0 /\ changes = 0

-----------------------------------------------------------------------------
StepTo(t, step) == at' = [at EXCEPT ![t] = step]
Hold(t) == lock = "nobody" /\ lock' = t
LetGo(t) == lock' = IF lock = t THEN "nobody" ELSE lock

\* The call returns or raises; a with block gives the lock back.
EndRequest(t) ==
    /\ StepTo(t, "idle") /\ LetGo(t)
    /\ dev' = [dev EXCEPT ![t] = NoDevice] /\ own' = [own EXCEPT ![t] = NoPreview]

Quit(t) ==
    /\ EndRequest(t)
    /\ UNCHANGED <<deviceVars, active, live, level, preview, appVars>>

Request(t, step) ==
    /\ server = "up" /\ at[t] = "idle" /\ requests < MaxRequests
    /\ requests' = requests + 1 /\ StepTo(t, step)
    /\ UNCHANGED <<deviceVars, serviceVars, preview, dev, own, server, changes>>

\* selected_selection: the choice is not read when the database is not ready.
Resolved == ResolveDevice(list, endpoints, IF ready THEN selection ELSE NotChosen)

\* resolve_device and profile_for, on the way from one step to the next.
Resolve(t, from, to) ==
    /\ at[t] = from
    /\ \/ /\ Resolved # NoDevice /\ ProfileValid(Profile(list[Resolved]))
          /\ StepTo(t, to) /\ dev' = [dev EXCEPT ![t] = Resolved]
          /\ UNCHANGED <<deviceVars, serviceVars, preview, own, appVars>>
       \/ /\ Resolved # NoDevice => ~ProfileValid(Profile(list[Resolved]))
          /\ Quit(t)

\* A LiveTranscriber is started and becomes the service's, or cannot be.
BeginPreview(t, from, to) ==
    /\ at[t] = from /\ StepTo(t, to)
    /\ \/ UNCHANGED <<live, own, preview>>
       \/ \E p \in Preview :
              /\ preview[p] = Unused /\ \A q \in Preview : q < p => preview[q] # Unused
              /\ preview' = [preview EXCEPT ![p] = Started(@)]
              /\ live' = p /\ own' = [own EXCEPT ![t] = p]
    /\ UNCHANGED <<deviceVars, active, level, lock, dev, appVars>>

-----------------------------------------------------------------------------
(* select_device *)

\* The device is returned as chosen, whether it could be stored or not.
SelectDevice(t, i) ==
    /\ server = "up" /\ at[t] = "idle" /\ requests < MaxRequests
    /\ FindByFingerprint(list, Fingerprint(list[i])) \in UsableIn(list, endpoints)
    /\ \/ ready /\ selection' = Chosen(list, FindByFingerprint(list, Fingerprint(list[i])))
       \/ UNCHANGED selection
    /\ requests' = requests + 1
    /\ UNCHANGED <<list, endpoints, ready, serviceVars, threadVars, preview, server, changes>>

-----------------------------------------------------------------------------
(* start *)

\* A second start finds the first one's recording, and does nothing.
EnterStart(t) ==
    /\ at[t] = "start" /\ Hold(t)
    /\ StepTo(t, IF active = NoRecording THEN "preflight" ELSE "leave")
    /\ UNCHANGED <<deviceVars, active, live, level, preview, dev, own, appVars>>

LeaveCall(t) == at[t] = "leave" /\ Quit(t)

\* A radio link is refused where a meeting needs a cable, which is the default.
DeviceFit ==
    ProductionRequiresUsb => Transport(list[Resolved], endpoints) # "BLUETOOTH"

\* The device is resolved and judged ...
Preflight(t) ==
    /\ at[t] = "preflight"
    /\ IF Resolved # NoDevice /\ ProfileValid(Profile(list[Resolved])) /\ DeviceFit
       THEN StepTo(t, "room") ELSE StepTo(t, "leave")
    /\ UNCHANGED <<deviceVars, serviceVars, preview, dev, own, appVars>>

\* ... and the database is looked at anew.  The checks that are about neither fail
\* when they fail: the disk, a recording of another process.
RoomFit(t) ==
    /\ at[t] = "room"
    /\ \/ ready /\ StepTo(t, "resolve")
       \/ StepTo(t, "leave")
    /\ UNCHANGED <<deviceVars, serviceVars, preview, dev, own, appVars>>

\* The device is looked up a second time; the file lock and the rows may be refused.
ResolveAgain(t) ==
    \/ Resolve(t, "resolve", "arm")
    \/ at[t] = "resolve" /\ Quit(t)

\* session.start opens the stream.  When it cannot, the recording is given up, and
\* the preview that was started for it is not.
OpenRecording(t) ==
    /\ at[t] = "open" /\ EndRequest(t)
    /\ \/ active' = [dev |-> dev[t], preview |-> own[t], stuck |-> FALSE]
       \/ UNCHANGED active
    /\ UNCHANGED <<deviceVars, live, level, preview, appVars>>

\* The session's writer thread hands each block to the preview.
RecordBlock ==
    /\ active # NoRecording /\ active.preview # NoPreview
    /\ preview[active.preview].fed < MaxFed
    /\ preview' = [preview EXCEPT ![active.preview] = Fed(@)]
    /\ UNCHANGED <<deviceVars, serviceVars, threadVars, appVars>>

Start(t) ==
    \/ Request(t, "start") \/ EnterStart(t) \/ LeaveCall(t)
    \/ Preflight(t) \/ RoomFit(t) \/ ResolveAgain(t)
    \/ BeginPreview(t, "arm", "open") \/ OpenRecording(t)

-----------------------------------------------------------------------------
(* stop *)

\* _stop_live_preview takes the preview, whoever's it is, and asks it to end ...
TakePreview(t) ==
    /\ at[t] = "stop"
    /\ StepTo(t, IF live = NoPreview THEN "finalise" ELSE "join")
    /\ own' = [own EXCEPT ![t] = live] /\ live' = NoPreview
    /\ preview' = [p \in Preview |-> IF p = live THEN Asked(preview[p]) ELSE preview[p]]
    /\ UNCHANGED <<deviceVars, active, level, lock, dev, appVars>>

\* MUTANT: the thread of the preview is waited for without a limit.
JoinPreviewForever(t, from, to) ==
    /\ at[t] = from /\ StepTo(t, to) /\ ~Working(own[t])
    /\ preview' = [preview EXCEPT ![own[t]] = Joined(@)]
    /\ UNCHANGED <<deviceVars, active, level, lock, dev, own, appVars>>

\* ... and waits for its thread, for eight seconds.
JoinPreview(t, from, to) ==
    /\ at[t] = from /\ StepTo(t, to)
    /\ preview' = [preview EXCEPT ![own[t]] = Joined(@)]
    /\ UNCHANGED <<deviceVars, active, level, lock, dev, own, appVars>>

JoinStopped(t) == JoinPreview(t, "join", "finalise") /\ UNCHANGED live

Stoppable == active # NoRecording /\ ~active.stuck

\* A recording whose stop has failed is in a state that no other stop accepts.
EnterStop(t) ==
    /\ at[t] = "finalise" /\ Hold(t)
    /\ StepTo(t, IF Stoppable THEN "drain" ELSE "leave")
    /\ UNCHANGED <<deviceVars, active, live, level, preview, dev, own, appVars>>

\* The session drains and closes, the manifest is written and checked; a step that
\* raises leaves the recording in the service, past the states that can be stopped.
Finalise(t) ==
    /\ at[t] = "drain" /\ EndRequest(t)
    /\ \/ active' = NoRecording
       \/ active' = [active EXCEPT !.stuck = TRUE]
    /\ UNCHANGED <<deviceVars, live, level, preview, appVars>>

Stop(t) == TakePreview(t) \/ JoinStopped(t) \/ EnterStop(t) \/ LeaveCall(t) \/ Finalise(t)

-----------------------------------------------------------------------------
(* The level meter: run_calibration, which calibrate and voice_check share *)

\* The meter is on before the stream is opened; if it cannot be opened, that is
\* what the result says.
OpenMeter(t, from, to, after) ==
    /\ at[t] = from
    /\ \/ StepTo(t, to) /\ level' = TRUE
       \/ StepTo(t, after) /\ level' = FALSE
    /\ UNCHANGED <<deviceVars, active, live, lock, preview, dev, own, appVars>>

\* A block is measured and its level published; a voice check decodes it, too.
Measure(t) ==
    /\ at[t] \in {"calibrate", "speak"}
    /\ level' = TRUE
    /\ own[t] # NoPreview => preview[own[t]].fed < MaxFed
    /\ preview' = [p \in Preview |-> IF p = own[t] THEN Fed(preview[p]) ELSE preview[p]]
    /\ UNCHANGED <<deviceVars, active, live, lock, at, dev, own, appVars>>

\* The stream is closed and the level withdrawn, whoever else is measuring.
CloseMeter(t, from, to) ==
    /\ at[t] = from /\ StepTo(t, to) /\ level' = FALSE
    /\ UNCHANGED <<deviceVars, active, live, lock, preview, dev, own, appVars>>

Calibrate(t) ==
    \/ Request(t, "calibration")
    \/ Resolve(t, "calibration", "meter")
    \/ OpenMeter(t, "meter", "calibrate", "leave")
    \/ CloseMeter(t, "calibrate", "leave")

\* microphone_open_test: no level.
OpenTest(t) == Request(t, "test") \/ Resolve(t, "test", "leave")

-----------------------------------------------------------------------------
(* voice_check *)

\* Refused while a recording is in progress, which is looked at once, here.
EnterVoiceCheck(t) ==
    /\ at[t] = "voice" /\ StepTo(t, IF active = NoRecording THEN "voiceDevice" ELSE "leave")
    /\ UNCHANGED <<deviceVars, serviceVars, preview, dev, own, appVars>>

EndVoicePreview(t) ==
    /\ at[t] = "spoken"
    /\ StepTo(t, IF own[t] = NoPreview THEN "decode" ELSE "voiceJoin")
    /\ preview' = [p \in Preview |-> IF p = own[t] THEN Asked(preview[p]) ELSE preview[p]]
    /\ UNCHANGED <<deviceVars, serviceVars, dev, own, appVars>>

\* _live is cleared, whoever's it has become.
JoinVoice(t) == JoinPreview(t, "voiceJoin", "decode") /\ live' = NoPreview

\* _final_transcription: a second model is loaded and decodes the whole check in the
\* thread of the request, for as long as it takes.
DecodeOnce(t) ==
    /\ at[t] = "decode" /\ StepTo(t, "leave")
    /\ UNCHANGED <<deviceVars, serviceVars, preview, dev, own, appVars>>

VoiceCheck(t) ==
    \/ Request(t, "voice") \/ EnterVoiceCheck(t)
    \/ Resolve(t, "voiceDevice", "voicePreview")
    \/ BeginPreview(t, "voicePreview", "voiceMeter")
    \/ OpenMeter(t, "voiceMeter", "speak", "spoken")
    \/ CloseMeter(t, "speak", "spoken")
    \/ EndVoicePreview(t) \/ JoinVoice(t) \/ DecodeOnce(t)

-----------------------------------------------------------------------------
(* The window, the server and the end of the process *)

\* The window is closed: the server takes no more requests.
CloseWindow ==
    /\ server = "up" /\ server' = "closing"
    /\ UNCHANGED <<deviceVars, serviceVars, threadVars, preview, requests, changes>>

\* MUTANT: the server's thread ends without a look at the service.
ShutDownLeavingRecording ==
    /\ server = "closing" /\ \A t \in Handler : at[t] = "idle"
    /\ server' = "finished"
    /\ UNCHANGED <<deviceVars, serviceVars, threadVars, preview, requests, changes>>

\* The requests being served are waited for, then the lifespan handler looks once
\* whether a recording is in progress and calls stop once.  Whether that returns or
\* raises, the server's thread ends.
ShutDown ==
    /\ \A t \in Handler : at[t] = "idle"
    /\ \/ /\ server = "closing" /\ active # NoRecording
          /\ server' = "stopping" /\ StepTo(Lifespan, "stop")
       \/ /\ \/ server = "closing" /\ active = NoRecording
             \/ server = "stopping" /\ at[Lifespan] = "idle"
          /\ server' = "finished" /\ UNCHANGED at
    /\ UNCHANGED <<deviceVars, serviceVars, dev, own, preview, requests, changes>>

\* BackgroundServer.stop has waited for the thread, or for shutdown_timeout_s: the
\* process ends, and every thread in it.
Exit ==
    /\ server \in {"closing", "stopping", "finished"} /\ server' = "gone"
    /\ active' = NoRecording /\ live' = NoPreview /\ level' = FALSE /\ lock' = "nobody"
    /\ at' = NothingYet("idle") /\ dev' = NothingYet(NoDevice) /\ own' = NothingYet(NoPreview)
    /\ preview' = [p \in Preview |-> Unused]
    /\ UNCHANGED <<deviceVars, requests, changes>>

\* The application is started again; the devices may be others, in another order.
Launch ==
    /\ server = "gone" /\ changes < MaxChanges /\ changes' = changes + 1
    /\ server' = "up" /\ list' \in Lists
    /\ UNCHANGED <<endpoints, selection, ready, serviceVars, threadVars, preview, requests>>

\* A microphone is plugged in or pulled out.
RoomChanges ==
    /\ server = "up" /\ changes < MaxChanges /\ changes' = changes + 1
    /\ endpoints' \in Registries \ {endpoints}
    /\ UNCHANGED <<list, selection, ready, serviceVars, threadVars, preview, server, requests>>

\* The database file is lost, locked or of another version, or it answers again; a
\* stored choice that is not the JSON it was reads like this, too.
DatabaseChanges ==
    /\ server = "up" /\ changes < MaxChanges /\ changes' = changes + 1
    /\ ready' = ~ready
    /\ UNCHANGED <<list, endpoints, selection, serviceVars, threadVars, preview, server,
                   requests>>

-----------------------------------------------------------------------------
Alone == UNCHANGED <<deviceVars, serviceVars, threadVars, appVars>>

Serve(t) ==
    \/ Start(t) \/ Request(t, "stop") \/ Calibrate(t) \/ OpenTest(t) \/ VoiceCheck(t)
    \/ \E i \in DOMAIN list : SelectDevice(t, i)
    \/ Measure(t)

MicrophoneNext ==
    \/ \E t \in Handler : Serve(t)
    \/ \E t \in Threads : Stop(t)
    \/ \E p \in Preview : WorkerStep(p) /\ Alone
    \/ RecordBlock
    \/ CloseWindow \/ ShutDown \/ Exit \/ Launch \/ RoomChanges \/ DatabaseChanges

\* A thread goes on when it can, takes the lock when it is free for good, and stops
\* measuring when its time is over; nothing is assumed of a model, neither a preview's
\* nor that of a voice check's last pass.
Proceed(t) ==
    /\ at[t] \notin {"idle", "decode"}
    /\ Start(t) \/ Stop(t) \/ Calibrate(t) \/ OpenTest(t) \/ VoiceCheck(t)

MicrophoneFairness == \A t \in Threads : WF_microphoneVars(Proceed(t))

MicrophoneSpec == MicrophoneInit /\ [][MicrophoneNext]_microphoneVars /\ MicrophoneFairness

-----------------------------------------------------------------------------
(* Properties *)

\* A thread takes up a device only now that it resolves one, and the operator's choice
\* is known.
TakesDevice(t) == dev'[t] \notin {NoDevice, dev[t]} /\ selection.fingerprint # Nobody

\* Whatever the devices were when the operator chose one, in this process or in an
\* earlier one, a stream is opened on the device chosen and on no other as long as the
\* choice can be read; when it cannot, on the default one.
ChosenIfRead ==
    [][\A t \in Handler :
          TakesDevice(t) => IF ready THEN Fingerprint(list[dev'[t]]) = selection.fingerprint
                            ELSE dev'[t] = DefaultInput(list, endpoints)]_microphoneVars

\* resolve_device, audio/service.py:474: "Resolve the stored selection, or fall back to
\* nothing (never to another microphone)."  It does not hold.
ChosenOrNothing ==
    [][\A t \in Handler :
          TakesDevice(t) => Fingerprint(list[dev'[t]]) = selection.fingerprint]_microphoneVars

\* The level on the screen moves only while a microphone is being measured.
LevelIsLive == level => \E t \in Handler : at[t] \in {"calibrate", "speak"}

Blocks(p) == {i \in DOMAIN preview[p].queue : preview[p].queue[i] = Block}

\* The audio held for a preview is what its counter says, and never more than the
\* budget: a slow or dead model costs no memory, and one that catches up hears again.
QueueIsCounted ==
    \A p \in Preview :
        Cardinality(Blocks(p)) = preview[p].queued /\ preview[p].queued <= QueueBudget

\* What is live besides a recording neither outlasts its measurement nor outgrows its
\* budget.
LiveIsBounded == LevelIsLive /\ QueueIsCounted

\* When the server's thread ends, a recording that was in progress when the window was
\* closed is finalised, or a stop of it has failed: by the handler's one call, or
\* before.  Nobody starts another meanwhile.
LeftAfterFailedStop == server = "finished" /\ active # NoRecording => active.stuck

\* Whatever the models do, no request waits for a preview, for the lock or for another
\* request for ever: it returns, or it is a voice check in its last pass, which waits
\* for its own model.
CallsReturn == \A t \in Threads : at[t] # "idle" ~> at[t] \in {"idle", "decode"}

\* _stop_live_preview, line 1418 of audio/service.py: "Release the preview model.
\* Called on every exit path from a recording."
PreviewsAreReleased ==
    server = "up" /\ active = NoRecording /\ (\A t \in Threads : at[t] = "idle")
      => \A p \in Preview : Working(p) => preview[p].stop

\* preflight's refusal of a radio link is about the device that is recorded.
GateHolds ==
    active # NoRecording /\ endpoints # {} /\ ProductionRequiresUsb
      => Transport(list[active.dev], endpoints) # "BLUETOOTH"

\* lifespan, api/app.py: "A recording in progress must be finalised, not dropped".
ClosedIsFinalised == [][server' = "gone" => active = NoRecording]_microphoneVars
=============================================================================
