---------------------------- MODULE SetupWizard ----------------------------
(***************************************************************************)
(* The setup wizard of the terminal interface: OdiaApp (tui/app.py), the   *)
(* screens for speaker, microphone, camera and models and their summary    *)
(* (tui/device_setup_screen.py), the choice of the runtime, and the device *)
(* tests that run in worker threads (device_setup/probe.py) or in a child  *)
(* process (opencv_preview/camera_preview.py) while the screen is shown.   *)
(*                                                                         *)
(* Textual delivers messages: a click, a change of the selection and the   *)
(* result of a test are queued, and handled one after the other; so a      *)
(* button may have been disabled between its click and the handling.       *)
(* Nothing is delivered to a screen that has been left.                    *)
(***************************************************************************)
EXTENDS Naturals, Sequences, FiniteSets

CONSTANTS Choice,      (* what each step may offer: devices, model presets  *)
          NoValue,     (* None, a blank selection                           *)
          MaxInputs,   (* bound on the inputs of the user not yet handled   *)
          MaxTests     (* bound on the tests that run at once               *)

Step == 1..4           (* speaker, microphone, camera, models               *)
Device == 1..3         (* the steps with devices and tests                  *)
Welcome == 0
Summary == 5
RuntimeMode == 6

ASSUME WizardAssumption ==
       /\ DOMAIN Choice = Step
       /\ \A n \in Step : NoValue \notin Choice[n]
       /\ Choice[4] # {}
       /\ MaxInputs \in Nat /\ MaxTests \in Nat \ {0}

VARIABLES app,      (* whether the application runs, and how it ended       *)
          session,  (* SetupSession: the choices so far                     *)
          context,  (* _completed_context                                   *)
          screen,   (* the screen shown                                     *)
          inbox,    (* the messages it has not handled yet                  *)
          tests,    (* the worker threads of the tests                      *)
          hasty     (* the user has not waited for an input to be handled   *)

vars == <<app, session, context, screen, inbox, tests, hasty>>

Value == (UNION {Choice[n] : n \in Step}) \cup {NoValue}
Choices == [Step -> Value]
Nothing == [n \in Step |-> NoValue]

TestThread == 1..MaxTests
NoTest == 0
Off == [kind |-> "off"]
Test == {Off} \cup [kind : {"sample", "monitor", "playback", "snapshot", "stream"},
                    device : Value, here : BOOLEAN, stopped : BOOLEAN]
Running(t) == tests[t] # Off

Control == {"select", "prev", "test", "second", "next"}
Input == [what : {"prev", "test", "second", "next", "changed"}]
            \cup [what : {"tab"}, to : 1..5]
Result == [what : {"finished"}, kind : {"sample", "monitor", "playback", "snapshot", "stream"},
           device : Value, ok : BOOLEAN]
Changed == [what |-> "changed"]

TypeOK ==
    /\ app \in {"running", "launched", "quit", "failed"}
    /\ session \in Choices /\ context \in Choices
    /\ screen \in [page : 0..6, available : 1..5, offered : SUBSET Value,
                   selected : Value, enabled : SUBSET Control, busy : BOOLEAN,
                   monitoring : BOOLEAN, passed : Value, bell : {NoTest} \cup TestThread]
    /\ inbox \in Seq(Input \cup Result)
    /\ tests \in [TestThread -> Test]
    /\ hasty \in BOOLEAN

-----------------------------------------------------------------------------
(* Opening a screen.                                                        *)

(* The furthest tab whose prerequisites are complete.                       *)
Available(s) ==
    CHOOSE n \in 1..5 : /\ \A k \in 1..(n - 1) : s[k] # NoValue
                        /\ n = 5 \/ s[n] = NoValue

(* The devices found when the screen opens; discovery may fail.             *)
Offers(n) == IF n \in Device THEN SUBSET Choice[n]
             ELSE IF n = 4 THEN {Choice[4]} ELSE {{}}

(* The earlier choice, if it is still there; models have a default.         *)
Preselected(n, s, found) ==
    IF n \in Step /\ s[n] \in found THEN s[n]
    ELSE IF n = 4 /\ s[4] = NoValue THEN CHOOSE m \in Choice[4] : TRUE
    ELSE NoValue

(* What each kind of screen enables when it opens.                          *)
WelcomeControls == {"next"}
DeviceControls == {"select", "prev"}
ModelControls == {"select", "prev", "next"}
SummaryControls == {"prev", "next"}
RuntimeModeControls == {"prev", "next"}

EnabledAtFirst(n) == IF n = Welcome THEN WelcomeControls
                     ELSE IF n \in Device THEN DeviceControls
                     ELSE IF n = 4 THEN ModelControls
                     ELSE IF n = Summary THEN SummaryControls ELSE RuntimeModeControls

NewScreen(n, s, found) ==
    [page |-> n, available |-> Available(s), offered |-> found,
     selected |-> Preselected(n, s, found), enabled |-> EnabledAtFirst(n),
     busy |-> FALSE, monitoring |-> FALSE, passed |-> NoValue, bell |-> NoTest]

(* Variant: a screen that is left does not stop its recording.              *)
LeftRunning ==
    [t \in TestThread |-> IF Running(t) THEN [tests[t] EXCEPT !.here = FALSE, !.device = NoValue]
                        ELSE Off]

(* The tests once their screen is gone and nobody hears of their result;    *)
(* on_unmount sets the stop event.                                          *)
Left ==
    [t \in TestThread |->
        IF Running(t)
        THEN [tests[t] EXCEPT !.here = FALSE, !.device = NoValue,
                              !.kind = IF @ = "monitor" THEN @ ELSE "sample",
                              !.stopped = @ \/ t = screen.bell]
        ELSE Off]

(* The current screen is dismissed and screen n opens with session s;       *)
(* _open_setup_step and build_context raise if a choice is missing.         *)
Open(n, s) ==
    /\ session' = s
    /\ tests' = Left
    /\ IF n > Available(s) /\ (n = RuntimeMode => Available(s) < Summary)
       THEN app' = "failed" /\ UNCHANGED <<screen, inbox>>
       ELSE /\ \E found \in Offers(n) : screen' = NewScreen(n, s, found)
            /\ inbox' = IF n \in Device /\ screen'.selected # NoValue
                        THEN <<Changed>> ELSE <<>>
            /\ UNCHANGED app

Init ==
    /\ app = "running"
    /\ session = Nothing /\ context = Nothing
    /\ screen = NewScreen(Welcome, Nothing, {})
    /\ inbox = <<>>
    /\ tests = [t \in TestThread |-> Off]
    /\ hasty = FALSE

-----------------------------------------------------------------------------
(* The user.                                                                *)
Pending == {i \in DOMAIN inbox : inbox[i].what # "finished"}
StartsTest(m) == m.what \in {"test", "second"}

Send(m) ==
    /\ app = "running"
    /\ Cardinality(Pending) < MaxInputs
    /\ inbox' = Append(inbox, m)
    /\ hasty' = (hasty \/ Pending # {})
    /\ UNCHANGED <<app, session, context, tests>>

(* A button is pressed: only enabled ones can be.                           *)
Click(b) ==
    /\ b \in screen.enabled \ {"select"}
    /\ LET m == [what |-> b]
           starting == Cardinality({i \in Pending : StartsTest(inbox[i])})
           running == Cardinality({t \in TestThread : Running(t)})
       IN  /\ StartsTest(m) => running + starting < MaxTests
                                \/ (screen.monitoring /\ starting = 0)
           /\ Send(m)
    /\ UNCHANGED screen

(* The tabs that _step_tabs does not disable.                               *)
TabEnabled(n) == screen.page \in 1..5 /\ n # screen.page /\ n <= screen.available

ClickTab(n) == TabEnabled(n) /\ Send([what |-> "tab", to |-> n]) /\ UNCHANGED screen

(* Another device or model, or the blank choice that only devices have.     *)
Choose(d) ==
    /\ "select" \in screen.enabled
    /\ d \in screen.offered \/ (d = NoValue /\ screen.page \in Device)
    /\ d # screen.selected
    /\ screen' = [screen EXCEPT !.selected = d]
    /\ Send(Changed)

(* q ends the application, and unmounts the screen.                         *)
Quit ==
    /\ app = "running" /\ app' = "quit"
    /\ tests' = Left
    /\ inbox' = <<>>
    /\ UNCHANGED <<session, context, screen, hasty>>

-----------------------------------------------------------------------------
(* The handlers.  A handler that does not leave the screen turns it into sc.*)
Stay(sc) ==
    /\ screen' = sc
    /\ inbox' = Tail(inbox)
    /\ UNCHANGED <<app, session, context>>

Ignore == Stay(screen) /\ UNCHANGED tests

(* Variant: the value of the screen is taken over even if it is blank.      *)
TakenOver == [session EXCEPT ![screen.page] = screen.selected]

(* The session with the value of the screen, if it has one.                 *)
Kept == IF screen.page \in Step /\ screen.selected # NoValue
        THEN [session EXCEPT ![screen.page] = screen.selected]
        ELSE session

(* navigate_to_step and _apply_navigation                                   *)
HandleTab(m) ==
    /\ m.what = "tab"
    /\ IF screen.busy \/ m.to > screen.available \/ m.to = screen.page
       THEN Ignore
       ELSE Open(m.to, Kept) /\ UNCHANGED context

MayLeave == ~screen.busy /\ ~screen.monitoring

(* dismiss(None): the value of the screen is dropped.                       *)
HandlePrevious(m) ==
    /\ m.what = "prev"
    /\ IF MayLeave THEN Open(screen.page - 1, session) /\ UNCHANGED context ELSE Ignore

(* Variant: the context that was built first is kept.                       *)
ContextBuiltOnce == IF context = Nothing THEN session ELSE context

(* build_context                                                            *)
ContextBuilt == session

(* Begin, Next, Choose Runtime and Launch; none of them looks at _busy.     *)
HandleNext(m) ==
    /\ m.what = "next"
    /\ \/ screen.page = Welcome /\ Open(1, session) /\ UNCHANGED context
       \/ /\ screen.page \in Step
          /\ IF screen.selected = NoValue
             THEN Ignore
             ELSE Open(screen.page + 1, Kept) /\ UNCHANGED context
       \/ screen.page = Summary /\ Open(RuntimeMode, session) /\ context' = ContextBuilt
       \/ /\ screen.page = RuntimeMode
          /\ app' = IF context = Nothing THEN "failed" ELSE "launched"
          /\ tests' = Left
          /\ inbox' = <<>>
          /\ UNCHANGED <<session, context, screen>>

(* The selection has changed: what was tested before no longer counts.      *)
IfSelected(controls) == IF screen.selected = NoValue THEN {} ELSE controls
IfIdle(controls) == IF screen.busy THEN {} ELSE controls
Enabled(controls) == (screen.enabled \ {"test", "second", "next"}) \cup controls

OutputChanged(m) ==
    /\ m.what = "changed" /\ screen.page = 1
    /\ Stay([screen EXCEPT !.enabled =
                Enabled(IfSelected({"next"} \cup IfIdle({"test"})))])
    /\ UNCHANGED tests

(* Variant: the recording of the microphone chosen before stays.            *)
InputChangedOnly(m) ==
    /\ m.what = "changed" /\ screen.page = 2
    /\ Stay([screen EXCEPT !.enabled = Enabled(IfSelected({"test", "next"}))])
    /\ UNCHANGED tests

InputChanged(m) ==
    /\ m.what = "changed" /\ screen.page = 2
    /\ Stay([screen EXCEPT !.passed = NoValue,
                           !.enabled = Enabled(IfSelected({"test", "next"}))])
    /\ UNCHANGED tests

CameraChanged(m) ==
    /\ m.what = "changed" /\ screen.page = 3
    /\ Stay([screen EXCEPT !.passed = NoValue,
                           !.enabled = Enabled(IfSelected({"next"} \cup IfIdle({"test"})))])
    /\ UNCHANGED tests

ModelChanged(m) ==
    /\ m.what = "changed" /\ screen.page = 4
    /\ Stay([screen EXCEPT !.enabled = Enabled(IfSelected({"next"}))])
    /\ UNCHANGED tests

-----------------------------------------------------------------------------
(* The tests: what the screen does when one is asked for and when it ends.  *)
FreeThread == CHOOSE t \in TestThread : ~Running(t) /\ \A u \in 1..(t - 1) : Running(u)

Start(kind, device) ==
    tests' = [tests EXCEPT ![FreeThread] =
                 [kind |-> kind, device |-> device, here |-> TRUE, stopped |-> FALSE]]

Finished(m, kinds) == m.what = "finished" /\ m.kind \in kinds

PlaySample(m) ==
    /\ m.what = "test" /\ screen.page = 1
    /\ \/ screen.selected = NoValue /\ Ignore
       \/ /\ screen.selected # NoValue
          /\ Stay([screen EXCEPT !.busy = TRUE, !.enabled = {}])
          /\ Start("sample", screen.selected)

SampleFinished(m) ==
    /\ Finished(m, {"sample"})
    /\ Stay([screen EXCEPT !.busy = FALSE, !.enabled = {"select", "prev", "test", "next"}])
    /\ UNCHANGED tests

(* toggle_monitor: Monitor ...                                              *)
StartMonitor(m) ==
    /\ m.what = "test" /\ screen.page = 2 /\ ~screen.monitoring
    /\ \/ screen.selected = NoValue /\ Ignore
       \/ /\ screen.selected # NoValue
          /\ Stay([screen EXCEPT !.passed = NoValue, !.busy = TRUE, !.monitoring = TRUE,
                                 !.bell = FreeThread, !.enabled = @ \cap {"test"}])
          /\ Start("monitor", screen.selected)

(* ... or Done, which sets the stop event of the recording.                 *)
StopMonitor(m) ==
    /\ m.what = "test" /\ screen.page = 2 /\ screen.monitoring
    /\ Stay([screen EXCEPT !.monitoring = FALSE, !.enabled = @ \ {"test"}])
    /\ tests' = [t \in TestThread |-> IF t = screen.bell /\ Running(t)
                                      THEN [tests[t] EXCEPT !.stopped = TRUE]
                                      ELSE tests[t]]

RecordingFinished(m) ==
    /\ Finished(m, {"monitor"})
    /\ Stay([screen EXCEPT !.busy = FALSE, !.monitoring = FALSE, !.bell = NoTest,
                           !.passed = IF m.ok THEN m.device ELSE @,
                           !.enabled = (@ \cup {"select", "prev", "test", "next"})
                                          \cup (IF m.ok THEN {"second"} ELSE {})])
    /\ UNCHANGED tests

PlayRecording(m) ==
    /\ m.what = "second" /\ screen.page = 2
    /\ \/ screen.passed = NoValue /\ Ignore
       \/ /\ screen.passed # NoValue
          /\ Stay([screen EXCEPT !.busy = TRUE, !.enabled = {}])
          /\ Start("playback", screen.passed)

PlaybackFinished(m) ==
    /\ Finished(m, {"playback"})
    /\ Stay([screen EXCEPT !.busy = FALSE, !.enabled = Control])
    /\ UNCHANGED tests

StartCameraTest(m) ==
    /\ m.what = "test" /\ screen.page = 3
    /\ \/ screen.selected = NoValue /\ Ignore
       \/ /\ screen.selected # NoValue
          /\ Stay([screen EXCEPT !.passed = NoValue, !.busy = TRUE, !.enabled = {}])
          /\ Start("snapshot", screen.selected)

(* Without a selection Next is disabled, and nothing else happens.          *)
StartStreamingTest(m) ==
    /\ m.what = "second" /\ screen.page = 3
    /\ \/ screen.passed = NoValue /\ Ignore
       \/ /\ screen.passed # NoValue /\ screen.selected = NoValue
          /\ Stay([screen EXCEPT !.enabled = @ \ {"next"}])
          /\ UNCHANGED tests
       \/ /\ screen.passed # NoValue /\ screen.selected # NoValue
          /\ Stay([screen EXCEPT !.busy = TRUE, !.enabled = {}])
          /\ Start("stream", screen.selected)

(* Only a snapshot that was seen makes the stream test possible.            *)
CameraTestFinished(m) ==
    /\ Finished(m, {"snapshot", "stream"})
    /\ LET passed == IF m.kind = "snapshot" /\ m.ok THEN m.device ELSE screen.passed
       IN  Stay([screen EXCEPT !.busy = FALSE, !.passed = passed,
                               !.enabled = IF passed = NoValue THEN Control \ {"second"}
                                           ELSE Control])
    /\ UNCHANGED tests

Handle ==
    /\ app = "running" /\ inbox # <<>>
    /\ LET m == Head(inbox)
       IN  \/ HandleTab(m) \/ HandlePrevious(m) \/ HandleNext(m)
           \/ OutputChanged(m) \/ InputChanged(m) \/ CameraChanged(m) \/ ModelChanged(m)
           \/ PlaySample(m) \/ SampleFinished(m)
           \/ StartMonitor(m) \/ StopMonitor(m) \/ RecordingFinished(m)
           \/ PlayRecording(m) \/ PlaybackFinished(m)
           \/ StartCameraTest(m) \/ StartStreamingTest(m) \/ CameraTestFinished(m)
    /\ UNCHANGED hasty

-----------------------------------------------------------------------------
(* A test ends: a sample or a recording has been played, the user has closed*)
(* the preview, the recording was stopped; or the device has failed.  The   *)
(* result goes to the screen that started the test, if it is still there.   *)
TestEnds(t) ==
    /\ Running(t)
    /\ \E ok \in BOOLEAN :
          /\ ok => tests[t].kind # "monitor" \/ tests[t].stopped
          /\ inbox' = IF tests[t].here
                      THEN Append(inbox, [what |-> "finished", kind |-> tests[t].kind,
                                          device |-> tests[t].device, ok |-> ok])
                      ELSE inbox
    /\ tests' = [tests EXCEPT ![t] = Off]
    /\ UNCHANGED <<app, session, context, screen, hasty>>

Next ==
    \/ \E b \in Control : Click(b)
    \/ \E n \in 1..5 : ClickTab(n)
    \/ \E d \in Value : Choose(d)
    \/ Quit
    \/ Handle
    \/ \E t \in TestThread : TestEnds(t)

Spec == Init /\ [][Next]_vars

(* The event loop runs, what is played comes to its end, the user closes    *)
(* preview windows, and a recording that was stopped returns.  Nobody has   *)
(* to press a button.                                                       *)
EndsByItself(t) == (tests[t].kind = "monitor" => tests[t].stopped) /\ TestEnds(t)

FairSpec ==
    /\ Spec
    /\ WF_vars(Handle)
    /\ \A t \in TestThread : WF_vars(EndsByItself(t))

-----------------------------------------------------------------------------
(* PROPERTIES *)

(* However the user walks through the tabs, no screen is opened before the  *)
(* choices it needs (the errors of app.py:346 and device_setup_screen.py:140*)
(* are never raised), and what is launched is what the session holds and    *)
(* the last summary has shown, with nothing missing.                        *)
LaunchFitsTheSession ==
    /\ app # "failed"
    /\ (screen.page = RuntimeMode \/ app = "launched") =>
          context = session /\ \A n \in Step : session[n] # NoValue

(* A choice that the session has is never lost, and going to a later step,  *)
(* by Next or by a tab, takes the value of the screen along (tab navigation *)
(* "does not lose it", device_setup_screen.py:101).                         *)
ChoicesAreKept ==
    [][/\ \A n \in Step : session[n] # NoValue => session'[n] # NoValue
       /\ (screen.page \in Step /\ screen'.page > screen.page /\ screen.selected # NoValue)
              => session'[screen.page] = screen.selected]_vars

(* If the user waits for each input to be handled, a test never runs on     *)
(* once its screen is left (so the next step, or the runtime, finds the     *)
(* devices free), and the recording that is played and the camera whose     *)
(* stream may be tested are those of the device selected.                   *)
TestsBelongToTheScreen ==
    (~hasty /\ app # "quit") =>
        /\ \A t \in TestThread : Running(t) => tests[t].here /\ app = "running"
        /\ (screen.passed # NoValue /\ \A i \in Pending : inbox[i] # Changed)
              => screen.passed = screen.selected

(* A test gives the screen back to the user, unless it is a recording that  *)
(* waits for Done; and the microphone is let go when the user quits in the  *)
(* middle of a recording.                                                   *)
TestsEnd ==
    /\ screen.busy ~> (~screen.busy \/ screen.monitoring \/ app # "running")
    /\ \A t \in TestThread : (app = "quit" /\ ~hasty /\ Running(t)) ~> ~Running(t)
=============================================================================
