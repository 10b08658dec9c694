-------------------------- MODULE SetupWizardProofs --------------------------
(***************************************************************************)
(* Proofs about SetupWizard, for any devices, presets and number of clicks *)
(* and tests: nothing incomplete is launched and no choice is lost; and as *)
(* long as the user waits for each input to be handled, tests stay with    *)
(* their screen and device and give the screen back.                       *)
(***************************************************************************)
EXTENDS SetupWizard, SequenceTheorems, TLAPS

-----------------------------------------------------------------------------
(* Screens are opened in order                                              *)

MessagesOK == inbox \in Seq(Input \cup Result) /\ tests \in [TestThread -> Test]

(* The fields of a screen.                                                  *)
ScreenOK ==
    /\ screen = [page |-> screen.page, available |-> screen.available,
                 offered |-> screen.offered, selected |-> screen.selected,
                 enabled |-> screen.enabled, busy |-> screen.busy,
                 monitoring |-> screen.monitoring, passed |-> screen.passed,
                 bell |-> screen.bell]
    /\ screen.page \in 0..6 /\ screen.selected \in Value /\ screen.passed \in Value
    /\ screen.busy \in BOOLEAN /\ screen.monitoring \in BOOLEAN

(* The screen shown knows how far the session goes, and is not beyond it;   *)
(* from the runtime screen on the session is the one that was completed.    *)
LaunchIInv ==
    /\ app \in {"running", "launched", "quit"}
    /\ session \in Choices /\ context \in Choices
    /\ app = "running" => screen.available = Available(session)
    /\ screen.page <= Available(session)
          \/ (screen.page = RuntimeMode /\ Available(session) = Summary)
    /\ screen.page = RuntimeMode \/ app = "launched" =>
          context = session /\ Available(session) = Summary

(* On the welcome screen there is nothing but Begin.                        *)
WelcomeIInv ==
    screen.page = Welcome =>
        /\ screen.enabled = {"next"}
        /\ \A i \in DOMAIN inbox : inbox[i].what = "next"
        /\ \A t \in TestThread : Running(t) => ~tests[t].here

-----------------------------------------------------------------------------
(* Tests stay with their screen                                             *)

Finishes == {i \in DOMAIN inbox : inbox[i].what = "finished"}

(* A test whose result the screen remembers belongs to the device selected. *)
Remembered == {"monitor", "snapshot"}

(* What the test under way, or its result, allows.                          *)
OfTheScreen(test) ==
    test.kind \in Remembered => screen.page \in {2, 3} /\ test.device = screen.selected

(* The user waits: one input at a time.                                     *)
OneInput == \A i, j \in Pending : i = j

(* The screen is busy while a test runs and until its result is handled,    *)
(* and there is one at most.                                                *)
OneTest ==
    /\ \A t \in TestThread : Running(t) =>
          tests[t].here /\ screen.busy /\ Finishes = {} /\ OfTheScreen(tests[t])
    /\ \A t, u \in TestThread : Running(t) /\ Running(u) => t = u
    /\ \A i, j \in Finishes : i = j
    /\ \A i \in Finishes : screen.busy /\ OfTheScreen(inbox[i])

(* A busy screen lets nobody do anything but end a recording.               *)
BusyScreen ==
    /\ screen.busy => screen.enabled \subseteq (IF screen.monitoring THEN {"test"} ELSE {})
    /\ screen.monitoring => screen.page = 2
    /\ \A i \in Pending :
          /\ inbox[i].what \in {"second", "next", "changed"} => ~screen.busy
          /\ inbox[i].what = "test" => (screen.busy => screen.monitoring)

PassedIsSelected ==
    /\ screen.passed # NoValue => screen.page \in {2, 3}
    /\ (screen.passed # NoValue /\ \A i \in Pending : inbox[i] # Changed)
          => screen.passed = screen.selected

Orderly == OneInput /\ OneTest /\ BusyScreen /\ PassedIsSelected

TestIInv ==
    /\ (~hasty /\ app = "running") => Orderly
    /\ (~hasty /\ app = "launched") => /\ \A t \in TestThread : ~Running(t)
                                       /\ screen.passed = NoValue

(* The inductive invariant.                                                 *)
WizardIInv == MessagesOK /\ ScreenOK /\ LaunchIInv /\ WelcomeIInv /\ TestIInv

-----------------------------------------------------------------------------
(* How far a session goes *)

LEMMA Constants ==
    /\ MaxTests \in Nat /\ MaxTests > 0 /\ 1 \in TestThread
    /\ DOMAIN Choice = Step /\ Choice[4] # {} /\ NoValue \in Value
    /\ \A n \in Step : NoValue \notin Choice[n] /\ Choice[n] \subseteq Value
<1>1. MaxTests \in Nat /\ MaxTests > 0 /\ DOMAIN Choice = Step /\ Choice[4] # {}
      /\ \A n \in Step : NoValue \notin Choice[n]
  BY WizardAssumption
<1>2. 1 \in TestThread
  BY <1>1 DEF TestThread
<1>3. NoValue \in Value /\ \A n \in Step : Choice[n] \subseteq Value
  <2>1. ASSUME NEW n \in Step, NEW x \in Choice[n] PROVE x \in Value
    <3>1. Choice[n] \in {Choice[k] : k \in Step}
      OBVIOUS
    <3>2. x \in UNION {Choice[k] : k \in Step}
      BY <2>1, <3>1
    <3>3. QED
      BY <3>2 DEF Value
  <2>2. NoValue \in Value
    BY Zenon DEF Value
  <2>3. QED
    BY <2>1, <2>2
<1>4. QED
  BY <1>1, <1>2, <1>3

LEMMA AvailableIs ==
    ASSUME NEW s \in Choices
    PROVE  /\ Available(s) \in 1..5
           /\ \A k \in 1..(Available(s) - 1) : s[k] # NoValue
           /\ Available(s) = 5 \/ s[Available(s)] = NoValue
           /\ Available(s) = Summary <=> \A k \in Step : s[k] # NoValue
           /\ \A n \in 1..5 : (\A k \in 1..(n - 1) : s[k] # NoValue) => n <= Available(s)
<1> DEFINE Fits(n) == /\ \A k \in 1..(n - 1) : s[k] # NoValue
                      /\ n = 5 \/ s[n] = NoValue
<1>1. \E n \in 1..5 : Fits(n)
  <2>1. CASE s[1] = NoValue
    <3>1. Fits(1)
      BY <2>1
    <3>2. QED
      BY <3>1
  <2>2. CASE s[1] # NoValue /\ s[2] = NoValue
    <3>1. \A k \in 1..(2 - 1) : k = 1
      OBVIOUS
    <3>2. Fits(2)
      BY <2>2, <3>1
    <3>3. QED
      BY <3>2
  <2>3. CASE s[1] # NoValue /\ s[2] # NoValue /\ s[3] = NoValue
    <3>1. \A k \in 1..(3 - 1) : k \in {1, 2}
      OBVIOUS
    <3>2. Fits(3)
      BY <2>3, <3>1
    <3>3. QED
      BY <3>2
  <2>4. CASE s[1] # NoValue /\ s[2] # NoValue /\ s[3] # NoValue /\ s[4] = NoValue
    <3>1. \A k \in 1..(4 - 1) : k \in {1, 2, 3}
      OBVIOUS
    <3>2. Fits(4)
      BY <2>4, <3>1
    <3>3. QED
      BY <3>2
  <2>5. CASE s[1] # NoValue /\ s[2] # NoValue /\ s[3] # NoValue /\ s[4] # NoValue
    <3>1. \A k \in 1..(5 - 1) : k \in {1, 2, 3, 4}
      OBVIOUS
    <3>2. Fits(5)
      BY <2>5, <3>1
    <3>3. QED
      BY <3>2
  <2>6. QED
    BY <2>1, <2>2, <2>3, <2>4, <2>5
<1>2. Available(s) = CHOOSE n \in 1..5 : Fits(n)
  BY DEF Available
<1>3. Available(s) \in 1..5 /\ Fits(Available(s))
  BY <1>1, <1>2
<1>4. Available(s) = Summary <=> \A k \in Step : s[k] # NoValue
  <2>1. Available(s) = 5 => \A k \in Step : k \in 1..(Available(s) - 1)
    BY DEF Step
  <2>2. Available(s) # 5 => Available(s) \in Step
    BY <1>3 DEF Step
  <2>3. QED
    BY <1>3, <2>1, <2>2 DEF Summary
<1>5. \A n \in 1..5 : (\A k \in 1..(n - 1) : s[k] # NoValue) => n <= Available(s)
  BY <1>3
<1>6. QED
  BY <1>3, <1>4, <1>5

(* The value of the screen only takes the session further.                  *)
LEMMA KeptGoesFurther ==
    ASSUME session \in Choices, screen.page \in 0..6, screen.selected \in Value
    PROVE  /\ Kept \in Choices
           /\ \A n \in Step : session[n] # NoValue => Kept[n] # NoValue
           /\ Available(session) <= Available(Kept)
           /\ (screen.page \in Step /\ screen.selected # NoValue) =>
                 /\ Kept[screen.page] = screen.selected
                 /\ screen.page <= Available(session) => screen.page + 1 <= Available(Kept)
<1>1. Kept \in Choices /\ \A n \in Step : session[n] # NoValue => Kept[n] # NoValue
  BY DEF Kept, Choices
<1>2. \A k \in 1..(Available(session) - 1) : k \in Step /\ session[k] # NoValue
  BY AvailableIs DEF Step
<1>3. Available(session) \in 1..5 /\ Available(Kept) \in 1..5
  BY <1>1, AvailableIs
<1>4. Available(session) <= Available(Kept)
  BY <1>1, <1>2, <1>3, AvailableIs
<1>5. ASSUME screen.page \in Step, screen.selected # NoValue
      PROVE  /\ Kept[screen.page] = screen.selected
             /\ screen.page <= Available(session) => screen.page + 1 <= Available(Kept)
  <2>1. Kept[screen.page] = screen.selected
    BY <1>5 DEF Kept, Choices
  <2>2. ASSUME screen.page <= Available(session)
        PROVE  screen.page + 1 <= Available(Kept)
    <3>1. screen.page + 1 \in 1..5 /\ screen.page \in 1..4
      BY <1>5 DEF Step
    <3>2. ASSUME NEW k \in 1..(screen.page + 1 - 1) PROVE Kept[k] # NoValue
      <4>1. k = screen.page \/ k \in 1..(Available(session) - 1)
        BY <1>3, <2>2, <3>1
      <4>2. QED
        BY <1>1, <1>2, <1>5, <2>1, <4>1
    <3>3. QED
      BY <1>1, <3>1, <3>2, AvailableIs
  <2>3. QED
    BY <2>1, <2>2
<1>6. QED
  BY <1>1, <1>4, <1>5

LEMMA LeftTests ==
    ASSUME tests \in [TestThread -> Test]
    PROVE  /\ Left \in [TestThread -> Test]
           /\ \A t \in TestThread : Left[t] # Off => ~Left[t].here
           /\ (\A t \in TestThread : ~Running(t)) => \A t \in TestThread : Left[t] = Off
<1>1. ASSUME NEW t \in TestThread
      PROVE  Left[t] \in Test /\ (Left[t] # Off => ~Left[t].here) /\ (~Running(t) => Left[t] = Off)
  <2>1. CASE ~Running(t)
    <3>1. Left[t] = Off
      BY <2>1 DEF Left
    <3>2. QED
      BY <2>1, <3>1 DEF Test
  <2>2. CASE Running(t)
    <3>1. tests[t] \in [kind : {"sample", "monitor", "playback", "snapshot", "stream"},
                        device : Value, here : BOOLEAN, stopped : BOOLEAN]
      BY <2>2 DEF Running, Test
    <3> DEFINE kind == IF tests[t].kind = "monitor" THEN tests[t].kind ELSE "sample"
               stopped == tests[t].stopped \/ t = screen.bell
    <3>2. Left[t] = [tests[t] EXCEPT !.here = FALSE, !.device = NoValue, !.kind = kind,
                                     !.stopped = stopped]
      BY <2>2 DEF Left
    <3>3. kind \in {"sample", "monitor"} /\ stopped \in BOOLEAN /\ NoValue \in Value
      BY <3>1, Constants
    <3> HIDE DEF kind, stopped
    <3>4. Left[t] \in [kind : {"sample", "monitor", "playback", "snapshot", "stream"},
                       device : Value, here : BOOLEAN, stopped : BOOLEAN] /\ Left[t].here = FALSE
      BY <3>1, <3>2, <3>3
    <3>5. QED
      BY <2>2, <3>4 DEF Test
  <2>3. QED
    BY <2>1, <2>2
<1>2. Left = [t \in TestThread |-> Left[t]]
  BY DEF Left
<1>3. QED
  BY <1>1, <1>2

-----------------------------------------------------------------------------
(* A screen opens *)

(* What the new screen n for session s is like.                             *)
Opened(n, s) ==
    /\ app' = app /\ session' = s /\ tests' = Left
    /\ screen'.page = n /\ screen'.available = Available(s)
    /\ screen'.enabled = EnabledAtFirst(n)
    /\ screen'.busy = FALSE /\ screen'.monitoring = FALSE /\ screen'.passed = NoValue
    /\ ScreenOK'
    /\ inbox' \in {<<>>, <<Changed>>} /\ (n = Welcome => inbox' = <<>>)

LEMMA ScreenOpens ==
    ASSUME NEW n \in 0..6, NEW s \in Choices, Open(n, s),
           n <= Available(s) \/ (n = RuntimeMode /\ Available(s) = Summary)
    PROVE  Opened(n, s)
<1>1. Available(s) \in 1..5
  BY AvailableIs
<1>2. ~(n > Available(s) /\ (n = RuntimeMode => Available(s) < Summary))
  BY <1>1 DEF RuntimeMode, Summary
<1>3. PICK found \in Offers(n) : screen' = NewScreen(n, s, found)
  BY <1>2 DEF Open
<1>4. Preselected(n, s, found) \in Value
  <2>1. (CHOOSE m \in Choice[4] : TRUE) \in Value
    BY Constants DEF Step
  <2>2. n \in Step => s[n] \in Value
    BY DEF Choices
  <2>3. QED
    BY <2>1, <2>2, Constants DEF Preselected
<1>5. screen' = [page |-> n, available |-> Available(s), offered |-> found,
                 selected |-> Preselected(n, s, found), enabled |-> EnabledAtFirst(n),
                 busy |-> FALSE, monitoring |-> FALSE, passed |-> NoValue, bell |-> NoTest]
  BY <1>3 DEF NewScreen
<1>6. ScreenOK'
  BY <1>4, <1>5, Constants DEF ScreenOK
<1>7. inbox' \in {<<>>, <<Changed>>} /\ (n = Welcome => inbox' = <<>>)
      /\ app' = app /\ session' = s /\ tests' = Left
  BY <1>2 DEF Open, Welcome, Device
<1>8. QED
  BY <1>5, <1>6, <1>7 DEF Opened

-----------------------------------------------------------------------------
(* What a handler does: it opens a screen, or launches, or keeps the screen *)

(* A message is taken, and the screen stays where it is.                    *)
Stays ==
    /\ UNCHANGED <<app, session, context, hasty>>
    /\ ScreenOK'
    /\ screen'.page = screen.page /\ screen'.available = screen.available
    /\ screen'.selected = screen.selected
    /\ inbox' = Tail(inbox)

(* The screen n opens with the choices s, which suffice for it.             *)
MovesOn(n, s) ==
    /\ Opened(n, s) /\ s \in Choices /\ n \in 0..6 /\ hasty' = hasty
    /\ n <= Available(s) \/ (n = RuntimeMode /\ Available(s) = Summary)
    /\ \A k \in Step : session[k] # NoValue => s[k] # NoValue
    /\ (screen.page \in Step /\ n > screen.page /\ screen.selected # NoValue)
          => s[screen.page] = screen.selected
    /\ context' = IF n = RuntimeMode THEN s ELSE context

Launches ==
    /\ app' = "launched" /\ screen.page = RuntimeMode /\ tests' = Left /\ inbox' = <<>>
    /\ UNCHANGED <<session, context, screen, hasty>>

(* The messages that a screen keeps to itself.                              *)
ScreenHandles(m) ==
    \/ OutputChanged(m) \/ InputChanged(m) \/ CameraChanged(m) \/ ModelChanged(m)
    \/ PlaySample(m) \/ SampleFinished(m)
    \/ StartMonitor(m) \/ StopMonitor(m) \/ RecordingFinished(m)
    \/ PlayRecording(m) \/ PlaybackFinished(m)
    \/ StartCameraTest(m) \/ StartStreamingTest(m) \/ CameraTestFinished(m)

LEMMA ScreenStays ==
    ASSUME ScreenOK, NEW m \in Input \cup Result, ScreenHandles(m), hasty' = hasty
    PROVE  Stays
<1>0. NoValue \in Value /\ (m.what = "finished" => m.device \in Value)
  BY Constants DEF Input, Result
<1>1. CASE OutputChanged(m)
  BY <1>1 DEF OutputChanged, Stay, Stays, ScreenOK
<1>2. CASE InputChanged(m)
  BY <1>0, <1>2 DEF InputChanged, Stay, Stays, ScreenOK
<1>3. CASE CameraChanged(m)
  BY <1>0, <1>3 DEF CameraChanged, Stay, Stays, ScreenOK
<1>4. CASE ModelChanged(m)
  BY <1>4 DEF ModelChanged, Stay, Stays, ScreenOK
<1>5. CASE PlaySample(m)
  BY <1>5 DEF PlaySample, Ignore, Stay, Stays, ScreenOK
<1>6. CASE SampleFinished(m)
  BY <1>6 DEF SampleFinished, Stay, Stays, ScreenOK
<1>7. CASE StartMonitor(m)
  BY <1>0, <1>7 DEF StartMonitor, Ignore, Stay, Stays, ScreenOK
<1>8. CASE StopMonitor(m)
  BY <1>8 DEF StopMonitor, Stay, Stays, ScreenOK
<1>9. CASE RecordingFinished(m)
  BY <1>0, <1>9 DEF RecordingFinished, Finished, Stay, Stays, ScreenOK
<1>10. CASE PlayRecording(m)
  BY <1>10 DEF PlayRecording, Ignore, Stay, Stays, ScreenOK
<1>11. CASE PlaybackFinished(m)
  BY <1>11 DEF PlaybackFinished, Stay, Stays, ScreenOK
<1>12. CASE StartCameraTest(m)
  BY <1>0, <1>12 DEF StartCameraTest, Ignore, Stay, Stays, ScreenOK
<1>13. CASE StartStreamingTest(m)
  BY <1>13 DEF StartStreamingTest, Ignore, Stay, Stays, ScreenOK
<1>14. CASE CameraTestFinished(m)
  BY <1>0, <1>14 DEF CameraTestFinished, Finished, Stay, Stays, ScreenOK
<1>15. QED
  BY <1>1, <1>2, <1>3, <1>4, <1>5, <1>6, <1>7, <1>8, <1>9, <1>10, <1>11, <1>12, <1>13, <1>14
     DEF ScreenHandles

(* Navigation: the prerequisites of the screen that opens are complete, so  *)
(* nothing is raised.                                                       *)
LEMMA Navigation ==
    ASSUME MessagesOK, ScreenOK, LaunchIInv, WelcomeIInv, app = "running", inbox # <<>>,
           hasty' = hasty,
           HandleTab(Head(inbox)) \/ HandlePrevious(Head(inbox)) \/ HandleNext(Head(inbox))
    PROVE  \/ Stays /\ screen' = screen /\ tests' = tests
           \/ \E n \in 0..6, s \in Choices : MovesOn(n, s)
           \/ Launches
<1> DEFINE m == Head(inbox)
           a == Available(session)
           p == screen.page
<1>1. /\ session \in Choices /\ a \in 1..5 /\ screen.available = a /\ p \in 0..6
      /\ screen.selected \in Value
      /\ p <= a \/ (p = RuntimeMode /\ a = Summary)
  BY AvailableIs DEF LaunchIInv, ScreenOK
<1>2. /\ Kept \in Choices /\ a <= Available(Kept) /\ Available(Kept) \in 1..5
      /\ \A n \in Step : session[n] # NoValue => Kept[n] # NoValue
      /\ (p \in Step /\ screen.selected # NoValue) =>
            Kept[p] = screen.selected /\ (p <= a => p + 1 <= Available(Kept))
  BY <1>1, KeptGoesFurther, AvailableIs
<1>3. m \in Input \cup Result /\ 1 \in DOMAIN inbox /\ m = inbox[1]
  BY HeadTailProperties DEF MessagesOK
<1> HIDE DEF a, p, m
<1>4. CASE Ignore
  <2>1. screen' = screen /\ tests' = tests /\ inbox' = Tail(inbox)
        /\ UNCHANGED <<app, session, context>>
    BY <1>4 DEF Ignore, Stay
  <2>2. ScreenOK'
    BY <2>1 DEF ScreenOK
  <2>3. QED
    BY <2>1, <2>2 DEF Stays
<1>5. CASE HandleTab(m) /\ ~Ignore
  <2>0. m.what = "tab" /\ m.to \in 1..5
    BY <1>3, <1>5 DEF HandleTab, Input, Result
  <2>1. m.to <= a /\ m.to # p /\ Open(m.to, Kept) /\ context' = context
    <3>1. ~(screen.busy \/ m.to > screen.available \/ m.to = screen.page)
          /\ Open(m.to, Kept) /\ context' = context
      BY <1>5, Zenon DEF HandleTab
    <3>2. QED
      BY <1>1, <2>0, <3>1 DEF p
  <2>2. m.to \in 1..5
    BY <2>0
  <2>3. Opened(m.to, Kept)
    BY <1>1, <1>2, <2>1, <2>2, ScreenOpens
  <2>4. MovesOn(m.to, Kept)
    BY <1>1, <1>2, <2>1, <2>2, <2>3 DEF MovesOn, RuntimeMode, p
  <2>5. QED
    BY <1>2, <2>2, <2>4
<1>6. CASE HandlePrevious(m) /\ ~Ignore
  <2>1. m.what = "prev" /\ Open(p - 1, session) /\ context' = context
    BY <1>6 DEF HandlePrevious, p
  <2>2. p # 0
    BY <1>3, <2>1 DEF WelcomeIInv, Welcome, p
  <2>3. p - 1 \in 0..6 /\ p - 1 <= a /\ p - 1 # RuntimeMode /\ ~(p - 1 > p)
    BY <1>1, <2>2 DEF RuntimeMode, Summary
  <2>4. Opened(p - 1, session)
    BY <1>1, <2>1, <2>3, ScreenOpens DEF a
  <2>5. MovesOn(p - 1, session)
    BY <1>1, <2>1, <2>3, <2>4 DEF MovesOn, p, a
  <2>6. QED
    BY <1>1, <2>3, <2>5
<1>7. CASE HandleNext(m) /\ ~Ignore
  <2>1. CASE p = Welcome /\ Open(1, session) /\ context' = context
    <3>1. Opened(1, session) /\ 1 <= Available(session)
      BY <1>1, <2>1, ScreenOpens DEF a
    <3>2. MovesOn(1, session)
      BY <1>1, <2>1, <3>1 DEF MovesOn, RuntimeMode, Welcome, Step, p
    <3>3. QED
      BY <1>1, <3>2
  <2>2. CASE p \in Step /\ screen.selected # NoValue /\ Open(p + 1, Kept)
             /\ context' = context
    <3>1. p + 1 \in 0..6 /\ p + 1 # RuntimeMode /\ p <= a
      BY <1>1, <2>2 DEF Step, RuntimeMode
    <3>2. Opened(p + 1, Kept)
      BY <1>2, <2>2, <3>1, ScreenOpens
    <3>3. MovesOn(p + 1, Kept)
      BY <1>2, <2>2, <3>1, <3>2 DEF MovesOn, p
    <3>4. QED
      BY <1>2, <3>1, <3>3
  <2>3. CASE p = Summary /\ Open(RuntimeMode, session) /\ context' = ContextBuilt
    <3>1. a = Summary /\ RuntimeMode \in 0..6
      BY <1>1, <2>3 DEF Summary, RuntimeMode
    <3>2. Opened(RuntimeMode, session)
      BY <1>1, <2>3, <3>1, ScreenOpens DEF a
    <3>3. MovesOn(RuntimeMode, session)
      BY <1>1, <2>3, <3>1, <3>2 DEF MovesOn, ContextBuilt, Summary, Step, p, a
    <3>4. QED
      BY <1>1, <3>1, <3>3
  <2>4. CASE p = RuntimeMode /\ app' = (IF context = Nothing THEN "failed" ELSE "launched")
             /\ tests' = Left /\ inbox' = <<>> /\ UNCHANGED <<session, context, screen>>
    <3>1. context = session /\ Available(session) = Summary
      BY <2>4 DEF LaunchIInv, p
    <3>2. context[1] # NoValue
      BY <1>1, <3>1, AvailableIs DEF Step
    <3>3. context # Nothing
      BY <3>2 DEF Nothing, Step
    <3>4. QED
      BY <2>4, <3>3 DEF Launches, p
  <2>5. QED
    BY <1>7, <2>1, <2>2, <2>3, <2>4 DEF HandleNext, p
<1>8. QED
  BY <1>4, <1>5, <1>6, <1>7 DEF m

LEMMA HandleIs ==
    ASSUME MessagesOK, ScreenOK, LaunchIInv, WelcomeIInv, Handle
    PROVE  \/ Stays /\ screen' = screen /\ tests' = tests
              /\ Head(inbox).what \in {"tab", "prev", "next"}
           \/ Stays /\ ScreenHandles(Head(inbox))
           \/ /\ \E n \in 0..6, s \in Choices : MovesOn(n, s)
              /\ Head(inbox).what \in {"tab", "prev", "next"}
              /\ Head(inbox).what # "next" => ~screen.busy
           \/ Launches /\ Head(inbox).what = "next"
<1> DEFINE m == Head(inbox)
<1>1. app = "running" /\ inbox # <<>> /\ hasty' = hasty /\ m \in Input \cup Result
  BY HeadTailProperties DEF Handle, MessagesOK
<1>2. \/ HandleTab(m) \/ HandlePrevious(m) \/ HandleNext(m)
      \/ ScreenHandles(m)
  BY DEF Handle, ScreenHandles
<1> HIDE DEF m
<1>3. CASE ScreenHandles(m)
  BY <1>1, <1>3, ScreenStays DEF m
<1>4. CASE HandleTab(m) \/ HandlePrevious(m) \/ HandleNext(m)
  <2>1. /\ m.what \in {"tab", "prev", "next"}
        /\ m.what # "next" => Ignore \/ ~screen.busy
        /\ app' = "launched" => m.what = "next"
    BY <1>1, <1>4 DEF HandleTab, HandlePrevious, HandleNext, MayLeave, Ignore, Stay, Open
  <2>2. ASSUME Ignore PROVE screen' = screen /\ tests' = tests /\ Stays
    <3>1. screen' = screen /\ tests' = tests /\ inbox' = Tail(inbox)
          /\ UNCHANGED <<app, session, context>>
      BY <2>2 DEF Ignore, Stay
    <3>2. ScreenOK'
      BY <3>1 DEF ScreenOK
    <3>3. QED
      BY <1>1, <3>1, <3>2 DEF Stays
  <2>3. \/ Stays /\ screen' = screen /\ tests' = tests
        \/ \E n \in 0..6, s \in Choices : MovesOn(n, s)
        \/ Launches
    BY <1>1, <1>4, Navigation DEF m
  <2>4. QED
    BY <2>1, <2>2, <2>3 DEF Launches, m
<1>5. QED
  BY <1>2, <1>3, <1>4

LEMMA HandleOutcome ==
    ASSUME MessagesOK, ScreenOK, LaunchIInv, WelcomeIInv, Handle
    PROVE  \/ Stays /\ screen' = screen /\ tests' = tests
           \/ Stays /\ ScreenHandles(Head(inbox))
           \/ \E n \in 0..6, s \in Choices : MovesOn(n, s)
           \/ Launches
<1> DEFINE Moves == \E n \in 0..6, s \in Choices : MovesOn(n, s)
<1>1. \/ Stays /\ screen' = screen /\ tests' = tests
      \/ Stays /\ ScreenHandles(Head(inbox))
      \/ Moves
      \/ Launches
  BY HandleIs
<1>2. QED
  BY <1>1

-----------------------------------------------------------------------------
(* Messages come and go *)

LEMMA MessageSent ==
    ASSUME inbox \in Seq(Input \cup Result), NEW m \in Input \cup Result,
           inbox' = Append(inbox, m)
    PROVE  /\ inbox' \in Seq(Input \cup Result)
           /\ DOMAIN inbox' = DOMAIN inbox \cup {Len(inbox) + 1}
           /\ \A i \in DOMAIN inbox : inbox'[i] = inbox[i]
           /\ inbox'[Len(inbox) + 1] = m
           /\ m.what = "finished" =>
                 Pending' = Pending /\ Finishes' = Finishes \cup {Len(inbox) + 1}
           /\ m.what # "finished" =>
                 Finishes' = Finishes /\ Pending' = Pending \cup {Len(inbox) + 1}
<1>1. /\ inbox' \in Seq(Input \cup Result)
      /\ Len(inbox) \in Nat /\ Len(inbox') = Len(inbox) + 1
      /\ \A i \in 1..Len(inbox) : inbox'[i] = inbox[i]
      /\ inbox'[Len(inbox) + 1] = m
  BY AppendProperties
<1>2. DOMAIN inbox = 1..Len(inbox) /\ DOMAIN inbox' = 1..Len(inbox')
  BY <1>1
<1>3. DOMAIN inbox' = DOMAIN inbox \cup {Len(inbox) + 1}
  BY <1>1, <1>2
<1>4. \A i \in DOMAIN inbox : inbox'[i] = inbox[i]
  BY <1>1, <1>2
<1>5. Pending' = {i \in DOMAIN inbox' : inbox'[i].what # "finished"}
      /\ Finishes' = {i \in DOMAIN inbox' : inbox'[i].what = "finished"}
  BY DEF Pending, Finishes
<1>6. m.what = "finished" =>
         Pending' = Pending /\ Finishes' = Finishes \cup {Len(inbox) + 1}
  BY <1>1, <1>3, <1>4, <1>5 DEF Pending, Finishes
<1>7. m.what # "finished" =>
         Finishes' = Finishes /\ Pending' = Pending \cup {Len(inbox) + 1}
  BY <1>1, <1>3, <1>4, <1>5 DEF Pending, Finishes
<1>8. QED
  BY <1>1, <1>3, <1>4, <1>6, <1>7

LEMMA MessageTaken ==
    ASSUME inbox \in Seq(Input \cup Result), inbox # <<>>, inbox' = Tail(inbox)
    PROVE  /\ inbox' \in Seq(Input \cup Result)
           /\ 1 \in DOMAIN inbox /\ inbox[1] = Head(inbox)
           /\ \A i \in DOMAIN inbox' :
                 i \in Nat \ {0} /\ i + 1 \in DOMAIN inbox /\ inbox'[i] = inbox[i + 1]
           /\ \A i \in Pending' : i + 1 \in Pending
           /\ \A i \in Finishes' : i + 1 \in Finishes
           /\ \A i \in Pending : i = 1 \/ (i - 1 \in Pending' /\ inbox'[i - 1] = inbox[i])
           /\ \A i \in Finishes : i = 1 \/ i - 1 \in Finishes'
<1>1. /\ inbox' \in Seq(Input \cup Result) /\ Len(inbox') = Len(inbox) - 1
      /\ Len(inbox) \in Nat /\ Len(inbox) > 0
      /\ \A i \in 1..Len(inbox') : inbox'[i] = inbox[i + 1]
  BY HeadTailProperties
<1>2. DOMAIN inbox = 1..Len(inbox) /\ DOMAIN inbox' = 1..Len(inbox')
  BY <1>1
<1>3. 1 \in DOMAIN inbox /\ inbox[1] = Head(inbox)
  BY <1>1, <1>2
<1>4. \A i \in DOMAIN inbox' :
         i \in Nat \ {0} /\ i + 1 \in DOMAIN inbox /\ inbox'[i] = inbox[i + 1]
  BY <1>1, <1>2
<1>5. \A i \in DOMAIN inbox :
         i = 1 \/ (i - 1 \in DOMAIN inbox' /\ inbox'[i - 1] = inbox[i])
  <2> TAKE i \in DOMAIN inbox
  <2>1. CASE i # 1
    <3>1. i - 1 \in 1..Len(inbox') /\ i - 1 + 1 = i
      BY <1>1, <1>2, <2>1
    <3>2. QED
      BY <1>1, <1>2, <3>1
  <2>2. QED
    BY <2>1
<1>6. Pending' = {i \in DOMAIN inbox' : inbox'[i].what # "finished"}
      /\ Finishes' = {i \in DOMAIN inbox' : inbox'[i].what = "finished"}
  BY DEF Pending, Finishes
<1>7. \A i \in Pending' : i + 1 \in Pending
  BY <1>4, <1>6 DEF Pending
<1>8. \A i \in Finishes' : i + 1 \in Finishes
  BY <1>4, <1>6 DEF Finishes
<1>9. \A i \in Pending : i = 1 \/ (i - 1 \in Pending' /\ inbox'[i - 1] = inbox[i])
  BY <1>5, <1>6 DEF Pending
<1>10. \A i \in Finishes : i = 1 \/ i - 1 \in Finishes'
  BY <1>5, <1>6 DEF Finishes
<1>11. QED
  BY <1>1, <1>3, <1>4, <1>7, <1>8, <1>9, <1>10

-----------------------------------------------------------------------------
(* Messages and tests have the form they are given *)

LEMMA StartedTest ==
    ASSUME tests \in [TestThread -> Test], NEW device \in Value,
           NEW kind \in {"sample", "monitor", "playback", "snapshot", "stream"},
           Start(kind, device)
    PROVE  /\ tests' \in [TestThread -> Test]
           /\ \A t \in TestThread :
                 IF t = FreeThread
                 THEN tests'[t] = [kind |-> kind, device |-> device, here |-> TRUE,
                                   stopped |-> FALSE]
                 ELSE tests'[t] = tests[t]
<1> DEFINE new == [kind |-> kind, device |-> device, here |-> TRUE, stopped |-> FALSE]
<1>1. new \in Test
  BY DEF Test
<1>2. tests' = [tests EXCEPT ![FreeThread] = new]
  BY DEF Start
<1> HIDE DEF new
<1>3. tests' \in [TestThread -> Test]
  BY <1>1, <1>2
<1>4. \A t \in TestThread : tests'[t] = IF t = FreeThread THEN new ELSE tests[t]
  BY <1>2
<1>5. QED
  BY <1>3, <1>4 DEF new

(* Done changes nothing about the recording but that it has been stopped.   *)
LEMMA StoppedTest ==
    ASSUME tests \in [TestThread -> Test],
           tests' = [t \in TestThread |-> IF t = screen.bell /\ Running(t)
                                          THEN [tests[t] EXCEPT !.stopped = TRUE]
                                          ELSE tests[t]]
    PROVE  /\ tests' \in [TestThread -> Test]
           /\ \A t \in TestThread :
                 /\ tests'[t] # Off <=> Running(t)
                 /\ Running(t) => /\ tests'[t].kind = tests[t].kind
                                  /\ tests'[t].device = tests[t].device
                                  /\ tests'[t].here = tests[t].here
<1>1. ASSUME NEW t \in TestThread
      PROVE  /\ tests'[t] \in Test /\ (tests'[t] # Off <=> Running(t))
             /\ Running(t) => /\ tests'[t].kind = tests[t].kind
                              /\ tests'[t].device = tests[t].device
                              /\ tests'[t].here = tests[t].here
  <2>1. CASE Running(t)
    <3>1. tests[t] \in [kind : {"sample", "monitor", "playback", "snapshot", "stream"},
                        device : Value, here : BOOLEAN, stopped : BOOLEAN]
      BY <2>1 DEF Running, Test
    <3>2. tests'[t] \in {tests[t], [tests[t] EXCEPT !.stopped = TRUE]}
      OBVIOUS
    <3>3. tests'[t] \in [kind : {"sample", "monitor", "playback", "snapshot", "stream"},
                         device : Value, here : BOOLEAN, stopped : BOOLEAN]
          /\ tests'[t].kind = tests[t].kind /\ tests'[t].device = tests[t].device
          /\ tests'[t].here = tests[t].here
      BY <3>1, <3>2
    <3>4. tests'[t].kind # Off.kind
      BY <3>3 DEF Off
    <3>5. QED
      BY <2>1, <3>3, <3>4 DEF Test
  <2>2. CASE ~Running(t)
    BY <2>2 DEF Running
  <2>3. QED
    BY <2>1, <2>2
<1>2. QED
  BY <1>1

LEMMA EndedTest ==
    ASSUME MessagesOK, NEW t \in TestThread, TestEnds(t)
    PROVE  /\ Running(t) /\ tests' = [tests EXCEPT ![t] = Off]
           /\ tests' \in [TestThread -> Test]
           /\ \/ ~tests[t].here /\ inbox' = inbox
              \/ /\ tests[t].here
                 /\ \E m \in Result :
                       /\ m.what = "finished" /\ m.kind = tests[t].kind
                       /\ m.device = tests[t].device
                       /\ inbox' = Append(inbox, m)
<1>1. Running(t) /\ tests' = [tests EXCEPT ![t] = Off]
  BY DEF TestEnds
<1>2. tests[t] \in [kind : {"sample", "monitor", "playback", "snapshot", "stream"},
                    device : Value, here : BOOLEAN, stopped : BOOLEAN]
  BY <1>1 DEF Running, Test, MessagesOK
<1>3. tests' \in [TestThread -> Test]
  BY <1>1 DEF MessagesOK, Test
<1>4. PICK ok \in BOOLEAN :
         inbox' = IF tests[t].here
                  THEN Append(inbox, [what |-> "finished", kind |-> tests[t].kind,
                                      device |-> tests[t].device, ok |-> ok])
                  ELSE inbox
  BY DEF TestEnds
<1>5. [what |-> "finished", kind |-> tests[t].kind, device |-> tests[t].device,
       ok |-> ok] \in Result
  BY <1>2 DEF Result
<1>6. QED
  BY <1>1, <1>3, <1>4, <1>5

-----------------------------------------------------------------------------
(* The invariants of the screens and of the messages are kept *)

(* What the user does: an enabled control sends its message.                *)
Sends(m) ==
    /\ inbox' = Append(inbox, m) /\ m.what # "finished"
    /\ IF m.what = "tab" THEN screen' = screen /\ screen.page # Welcome
       ELSE IF m.what = "changed" THEN m = Changed /\ "select" \in screen.enabled
       ELSE screen' = screen /\ m.what \in screen.enabled

UserActs == \/ \E b \in Control : Click(b)
            \/ \E n \in 1..5 : ClickTab(n)
            \/ \E d \in Value : Choose(d)

LEMMA UserSends ==
    ASSUME ScreenOK, UserActs
    PROVE  /\ app = "running" /\ UNCHANGED <<app, session, context, tests>>
           /\ hasty' = (hasty \/ Pending # {})
           /\ ScreenOK'
           /\ screen'.page = screen.page /\ screen'.available = screen.available
           /\ screen'.enabled = screen.enabled /\ screen'.busy = screen.busy
           /\ screen'.monitoring = screen.monitoring /\ screen'.passed = screen.passed
           /\ \E m \in Input : Sends(m)
<1>1. ASSUME NEW b \in Control, Click(b)
      PROVE  /\ Send([what |-> b]) /\ screen' = screen /\ [what |-> b] \in Input
             /\ b \in screen.enabled /\ b \in {"prev", "test", "second", "next"}
  BY <1>1 DEF Click, Control, Input
<1>2. ASSUME NEW n \in 1..5, ClickTab(n)
      PROVE  /\ Send([what |-> "tab", to |-> n]) /\ screen' = screen
             /\ [what |-> "tab", to |-> n] \in Input /\ screen.page # Welcome
  BY <1>2 DEF ClickTab, TabEnabled, Input, Welcome
<1>3. ASSUME NEW d \in Value, Choose(d)
      PROVE  /\ Send(Changed) /\ screen' = [screen EXCEPT !.selected = d]
             /\ "select" \in screen.enabled /\ Changed \in Input
  BY <1>3 DEF Choose, Changed, Input
<1>4. ASSUME NEW m, Send(m)
      PROVE  /\ app = "running" /\ UNCHANGED <<app, session, context, tests>>
             /\ hasty' = (hasty \/ Pending # {}) /\ inbox' = Append(inbox, m)
  BY <1>4 DEF Send
<1>5. screen' = screen => ScreenOK'
  BY DEF ScreenOK
<1>6. CASE \E b \in Control : Click(b)
  <2>1. PICK b \in Control : Click(b)
    BY <1>6
  <2>2. Sends([what |-> b])
    BY <1>1, <1>4, <2>1 DEF Sends
  <2>3. QED
    BY <1>1, <1>4, <1>5, <2>1, <2>2
<1>7. CASE \E n \in 1..5 : ClickTab(n)
  <2>1. PICK n \in 1..5 : ClickTab(n)
    BY <1>7
  <2>2. Sends([what |-> "tab", to |-> n])
    BY <1>2, <1>4, <2>1 DEF Sends
  <2>3. QED
    BY <1>2, <1>4, <1>5, <2>1, <2>2
<1>8. CASE \E d \in Value : Choose(d)
  <2>1. PICK d \in Value : Choose(d)
    BY <1>8
  <2>2. Sends(Changed)
    BY <1>3, <1>4, <2>1 DEF Sends, Changed
  <2>3. ScreenOK'
    BY <1>3, <2>1 DEF ScreenOK
  <2>4. screen'.page = screen.page /\ screen'.available = screen.available
        /\ screen'.enabled = screen.enabled /\ screen'.busy = screen.busy
        /\ screen'.monitoring = screen.monitoring /\ screen'.passed = screen.passed
    BY <1>3, <2>1 DEF ScreenOK
  <2>5. QED
    BY <1>3, <1>4, <2>1, <2>2, <2>3, <2>4
<1>9. QED
  BY <1>6, <1>7, <1>8 DEF UserActs

(* The tests that a handler starts or stops are well-formed.                *)
LEMMA ScreenTests ==
    ASSUME MessagesOK, ScreenOK, NEW m \in Input \cup Result, ScreenHandles(m)
    PROVE  tests' \in [TestThread -> Test]
<1> DEFINE Kinds == {"sample", "monitor", "playback", "snapshot", "stream"}
<1>1. \/ tests' = tests
      \/ \E kind \in Kinds, device \in {screen.selected, screen.passed} : Start(kind, device)
      \/ StopMonitor(m)
  <2>1. CASE OutputChanged(m) \/ InputChanged(m) \/ CameraChanged(m) \/ ModelChanged(m)
    BY <2>1 DEF OutputChanged, InputChanged, CameraChanged, ModelChanged
  <2>2. CASE \/ SampleFinished(m) \/ RecordingFinished(m) \/ PlaybackFinished(m)
             \/ CameraTestFinished(m)
    BY <2>2 DEF SampleFinished, RecordingFinished, PlaybackFinished, CameraTestFinished
  <2>3. CASE PlaySample(m)
    BY <2>3 DEF PlaySample, Ignore
  <2>4. CASE StartMonitor(m)
    BY <2>4 DEF StartMonitor, Ignore
  <2>5. CASE PlayRecording(m)
    BY <2>5 DEF PlayRecording, Ignore
  <2>6. CASE StartCameraTest(m)
    BY <2>6 DEF StartCameraTest, Ignore
  <2>7. CASE StartStreamingTest(m)
    BY <2>7 DEF StartStreamingTest, Ignore
  <2>8. QED
    BY <2>1, <2>2, <2>3, <2>4, <2>5, <2>6, <2>7 DEF ScreenHandles
<1>2. CASE StopMonitor(m)
  BY <1>2, StoppedTest DEF StopMonitor, MessagesOK
<1>3. CASE \E kind \in Kinds, device \in {screen.selected, screen.passed} : Start(kind, device)
  <2>1. PICK kind \in Kinds, device \in {screen.selected, screen.passed} : Start(kind, device)
    BY <1>3
  <2>2. device \in Value
    BY DEF ScreenOK
  <2>3. QED
    BY <2>1, <2>2, StartedTest DEF MessagesOK
<1>4. QED
  BY <1>1, <1>2, <1>3 DEF MessagesOK

LEMMA MessagesStayOK ==
    ASSUME MessagesOK, ScreenOK, LaunchIInv, WelcomeIInv, Next
    PROVE  MessagesOK' /\ ScreenOK'
<1>1. <<>> \in Seq(Input \cup Result) /\ Changed \in Input \cup Result
  BY DEF Changed, Input
<1>2. <<Changed>> \in Seq(Input \cup Result)
  BY <1>1
<1>3. Left \in [TestThread -> Test]
  BY LeftTests DEF MessagesOK
<1>4. CASE UserActs
  <2>1. PICK m \in Input : Sends(m)
    BY <1>4, UserSends
  <2>2. inbox' \in Seq(Input \cup Result)
    BY <2>1, MessageSent DEF MessagesOK, Sends
  <2>3. QED
    BY <1>4, <2>2, UserSends DEF MessagesOK
<1>5. CASE Quit
  BY <1>1, <1>3, <1>5 DEF Quit, MessagesOK, ScreenOK
<1>6. CASE Handle
  <2>1. inbox # <<>> /\ Head(inbox) \in Input \cup Result
        /\ Tail(inbox) \in Seq(Input \cup Result)
    BY <1>6, HeadTailProperties DEF Handle, MessagesOK
  <2>2. CASE Stays /\ tests' = tests
    BY <2>1, <2>2 DEF Stays, MessagesOK
  <2>3. CASE Stays /\ ScreenHandles(Head(inbox))
    BY <2>1, <2>3, ScreenTests DEF Stays, MessagesOK
  <2>4. CASE \E n \in 0..6, s \in Choices : MovesOn(n, s)
    <3>1. PICK n \in 0..6, s \in Choices : Opened(n, s)
      BY <2>4 DEF MovesOn
    <3>2. QED
      BY <1>1, <1>2, <1>3, <3>1 DEF Opened, MessagesOK
  <2>5. CASE Launches
    BY <1>1, <1>3, <2>5 DEF Launches, MessagesOK, ScreenOK
  <2>6. QED
    BY <1>6, <2>2, <2>3, <2>4, <2>5, HandleOutcome
<1>7. CASE \E t \in TestThread : TestEnds(t)
  <2>1. PICK t \in TestThread : TestEnds(t)
    BY <1>7
  <2>2. tests' \in [TestThread -> Test] /\ inbox' \in Seq(Input \cup Result)
    BY <2>1, EndedTest, MessageSent DEF MessagesOK
  <2>3. screen' = screen
    BY <2>1 DEF TestEnds
  <2>4. QED
    BY <2>2, <2>3 DEF MessagesOK, ScreenOK
<1>8. QED
  BY <1>4, <1>5, <1>6, <1>7 DEF Next, UserActs

LEMMA ScreensStayInOrder ==
    ASSUME MessagesOK, ScreenOK, LaunchIInv, WelcomeIInv, Next
    PROVE  LaunchIInv'
<1>1. CASE UserActs
  BY <1>1, UserSends DEF LaunchIInv
<1>2. CASE Quit
  BY <1>2 DEF Quit, LaunchIInv
<1>3. CASE Handle
  <2>1. app = "running"
    BY <1>3 DEF Handle
  <2>2. CASE Stays
    BY <2>2 DEF Stays, LaunchIInv
  <2>3. CASE \E n \in 0..6, s \in Choices : MovesOn(n, s)
    <3>1. PICK n \in 0..6, s \in Choices : MovesOn(n, s)
      BY <2>3
    <3>2. /\ app' = "running" /\ session' = s /\ screen'.page = n
          /\ screen'.available = Available(session')
      BY <2>1, <3>1 DEF MovesOn, Opened
    <3>3. n <= Available(session') \/ (n = RuntimeMode /\ Available(session') = Summary)
      BY <3>1, <3>2 DEF MovesOn
    <3>4. Available(session') \in 1..5
      BY <3>2, AvailableIs
    <3>5. n = RuntimeMode => context' = session' /\ Available(session') = Summary
      BY <3>1, <3>2, <3>3, <3>4 DEF MovesOn, RuntimeMode
    <3>6. context' \in Choices
      BY <3>1 DEF MovesOn, LaunchIInv
    <3>7. QED
      BY <3>1, <3>2, <3>3, <3>5, <3>6 DEF LaunchIInv
  <2>4. CASE Launches
    BY <2>4 DEF Launches, LaunchIInv
  <2>5. QED
    BY <1>3, <2>2, <2>3, <2>4, HandleOutcome
<1>4. CASE \E t \in TestThread : TestEnds(t)
  BY <1>4 DEF TestEnds, LaunchIInv
<1>5. QED
  BY <1>1, <1>2, <1>3, <1>4 DEF Next, UserActs

LEMMA NothingButBegin ==
    ASSUME MessagesOK, ScreenOK, LaunchIInv, WelcomeIInv, Next
    PROVE  WelcomeIInv'
<1> SUFFICES ASSUME screen'.page = Welcome
             PROVE  /\ screen'.enabled = {"next"}
                    /\ \A i \in DOMAIN inbox' : inbox'[i].what = "next"
                    /\ \A t \in TestThread : tests'[t] # Off => ~tests'[t].here
  BY DEF WelcomeIInv, Running
<1> DEFINE Begin == /\ screen.enabled = {"next"}
                    /\ \A i \in DOMAIN inbox : inbox[i].what = "next"
                    /\ \A t \in TestThread : Running(t) => ~tests[t].here
<1>1. screen.page = Welcome => Begin
  BY DEF WelcomeIInv
<1>2. \A t \in TestThread : Left[t] # Off => ~Left[t].here
  BY LeftTests DEF MessagesOK
<1>3. \A i \in DOMAIN <<>> : <<>>[i].what = "next"
  OBVIOUS
<1>4. CASE UserActs
  <2>1. PICK m \in Input : Sends(m)
    BY <1>4, UserSends
  <2>2. Begin /\ screen'.enabled = {"next"} /\ tests' = tests /\ screen.page = Welcome
    BY <1>1, <1>4, UserSends
  <2>3. m.what = "next"
    BY <2>1, <2>2 DEF Sends
  <2>4. \A i \in DOMAIN inbox' : inbox'[i].what = "next"
    BY <2>1, <2>2, <2>3, MessageSent DEF Sends, MessagesOK
  <2>5. QED
    BY <2>2, <2>4 DEF Running
<1>5. CASE Quit
  BY <1>1, <1>2, <1>3, <1>5 DEF Quit
<1>6. CASE Handle
  <2>1. inbox # <<>> /\ 1 \in DOMAIN inbox /\ inbox[1] = Head(inbox)
    BY <1>6, HeadTailProperties DEF Handle, MessagesOK
  <2>2. CASE Stays /\ screen' = screen /\ tests' = tests
    <3>1. Begin /\ inbox' = Tail(inbox)
      BY <1>1, <2>2 DEF Stays
    <3>2. QED
      BY <2>1, <2>2, <3>1, MessageTaken DEF MessagesOK, Running
  <2>5. CASE Stays /\ ScreenHandles(Head(inbox))
    <3>1. Begin /\ screen.page = Welcome
      BY <1>1, <2>5 DEF Stays
    <3>2. Head(inbox).what = "next"
      BY <2>1, <3>1
    <3>3. ~ScreenHandles(Head(inbox))
      BY <3>2 DEF ScreenHandles, OutputChanged, InputChanged, CameraChanged, ModelChanged,
                  PlaySample, SampleFinished, StartMonitor, StopMonitor, RecordingFinished,
                  PlayRecording, PlaybackFinished, StartCameraTest, StartStreamingTest,
                  CameraTestFinished, Finished
    <3>4. QED
      BY <2>5, <3>3
  <2>3. CASE \E n \in 0..6, s \in Choices : MovesOn(n, s)
    <3>1. PICK n \in 0..6, s \in Choices : Opened(n, s)
      BY <2>3 DEF MovesOn
    <3>2. n = Welcome /\ inbox' = <<>> /\ tests' = Left /\ screen'.enabled = {"next"}
      BY <3>1 DEF Opened, EnabledAtFirst, WelcomeControls
    <3>3. QED
      BY <1>2, <1>3, <3>2
  <2>4. CASE Launches
    BY <2>4 DEF Launches, Welcome, RuntimeMode
  <2>6. QED
    BY <1>6, <2>2, <2>3, <2>4, <2>5, HandleOutcome
<1>7. CASE \E t \in TestThread : TestEnds(t)
  <2>1. PICK t \in TestThread : TestEnds(t)
    BY <1>7
  <2>2. Begin /\ screen' = screen
    BY <1>1, <2>1 DEF TestEnds
  <2>3. Running(t) /\ tests' = [tests EXCEPT ![t] = Off] /\ inbox' = inbox
    BY <2>1, <2>2, EndedTest
  <2>4. QED
    BY <2>2, <2>3 DEF Running, MessagesOK
<1>8. QED
  BY <1>4, <1>5, <1>6, <1>7 DEF Next, UserActs

-----------------------------------------------------------------------------
(* Tests stay with their screen: what each kind of step does                *)

(* An input is handled, and it was the only one.                            *)
InputTaken ==
    /\ inbox # <<>> /\ inbox' = Tail(inbox) /\ Head(inbox).what # "finished"
    /\ screen'.page = screen.page /\ screen'.selected = screen.selected

LEMMA InputIsTaken ==
    ASSUME MessagesOK, Orderly, InputTaken
    PROVE  /\ Pending' = {} /\ OneInput' /\ Pending = {1}
           /\ inbox[1] = Head(inbox)
           /\ \A i \in Finishes' : i + 1 \in Finishes /\ inbox'[i] = inbox[i + 1]
                                   /\ i \in Nat
<1>1. 1 \in Pending /\ inbox[1] = Head(inbox)
  BY MessageTaken DEF MessagesOK, InputTaken, Pending
<1>2. \A i \in Pending : i = 1
  BY <1>1 DEF Orderly, OneInput
<1>3. \A i \in Pending' : i \in Nat \ {0} /\ i + 1 \in Pending
  BY MessageTaken DEF MessagesOK, InputTaken, Pending
<1>4. Pending' = {}
  BY <1>2, <1>3
<1>5. OneInput'
  BY <1>4 DEF OneInput
<1>6. \A i \in Finishes' : i + 1 \in Finishes /\ inbox'[i] = inbox[i + 1] /\ i \in Nat
  BY MessageTaken DEF MessagesOK, InputTaken, Finishes
<1>7. QED
  BY <1>1, <1>2, <1>4, <1>5, <1>6

LEMMA NothingRuns ==
    ASSUME OneTest, ~screen.busy
    PROVE  Finishes = {} /\ \A t \in TestThread : ~Running(t)
BY DEF OneTest

(* An input without effect.                                                 *)
LEMMA InputIgnored ==
    ASSUME MessagesOK, Orderly, InputTaken, screen' = screen, tests' = tests,
           Head(inbox) = Changed => screen.passed = NoValue
    PROVE  Orderly'
<1>1. OneTest'
  <2>1. \A t \in TestThread : Running(t)' <=> Running(t)
    BY DEF Running
  <2>2. ASSUME NEW t \in TestThread, Running(t)'
        PROVE  /\ tests[t].here /\ screen.busy /\ Finishes' = {}
               /\ OfTheScreen(tests[t])
    BY <2>1, <2>2, InputIsTaken DEF Orderly, OneTest
  <2>3. \A i, j \in Finishes' : i = j
    BY InputIsTaken DEF Orderly, OneTest, Finishes
  <2>4. \A i \in Finishes' : screen.busy /\ OfTheScreen(inbox'[i])
    BY InputIsTaken DEF Orderly, OneTest
  <2>5. QED
    BY <2>1, <2>2, <2>3, <2>4 DEF Orderly, OneTest, OfTheScreen
<1>2. BusyScreen'
  BY InputIsTaken DEF Orderly, BusyScreen
<1>3. PassedIsSelected'
  BY InputIsTaken DEF Orderly, PassedIsSelected
<1>4. QED
  BY <1>1, <1>2, <1>3, InputIsTaken DEF Orderly

(* An input that starts no test.                                            *)
LEMMA NoTestStarts ==
    ASSUME MessagesOK, Orderly, InputTaken, ~screen.busy, ~screen'.busy, tests' = tests,
           screen'.monitoring => screen'.page = 2,
           \/ screen'.passed = NoValue
           \/ screen'.passed = screen.passed /\ Head(inbox) # Changed
    PROVE  Orderly'
<1>1. Finishes' = {} /\ \A t \in TestThread : ~Running(t)'
  BY NothingRuns, InputIsTaken DEF Orderly, Running
<1>2. OneTest'
  BY <1>1 DEF OneTest
<1>3. BusyScreen'
  BY InputIsTaken DEF BusyScreen
<1>4. PassedIsSelected'
  BY InputIsTaken DEF Orderly, PassedIsSelected, InputTaken
<1>5. QED
  BY <1>2, <1>3, <1>4, InputIsTaken DEF Orderly

(* An input that starts a test.                                             *)
LEMMA ATestStarts ==
    ASSUME MessagesOK, Orderly, InputTaken, ~screen.busy, screen'.busy,
           NEW kind \in {"sample", "monitor", "playback", "snapshot", "stream"},
           NEW device \in Value, Start(kind, device),
           kind \in Remembered => screen.page \in {2, 3} /\ device = screen.selected,
           screen'.enabled \subseteq (IF screen'.monitoring THEN {"test"} ELSE {}),
           screen'.monitoring => screen'.page = 2,
           \/ screen'.passed = NoValue
           \/ screen'.passed = screen.passed /\ Head(inbox) # Changed
    PROVE  Orderly'
<1>1. Finishes' = {} /\ \A t \in TestThread : tests[t] = Off
  BY NothingRuns, InputIsTaken DEF Orderly, Running
<1>2. \A t \in TestThread :
         Running(t)' => /\ t = FreeThread
                        /\ tests'[t] = [kind |-> kind, device |-> device, here |-> TRUE,
                                        stopped |-> FALSE]
  BY <1>1, StartedTest DEF Running, MessagesOK
<1>3. ASSUME NEW t \in TestThread, Running(t)'
      PROVE  tests'[t].here /\ OfTheScreen(tests[t])'
  BY <1>2, <1>3 DEF OfTheScreen, InputTaken
<1>4. OneTest'
  BY <1>1, <1>2, <1>3 DEF OneTest
<1>5. BusyScreen'
  BY InputIsTaken DEF BusyScreen
<1>6. PassedIsSelected'
  BY InputIsTaken DEF Orderly, PassedIsSelected, InputTaken
<1>7. QED
  BY <1>4, <1>5, <1>6, InputIsTaken DEF Orderly

(* Done.                                                                    *)
LEMMA RecordingStops ==
    ASSUME MessagesOK, ScreenOK, Orderly, InputTaken, StopMonitor(Head(inbox))
    PROVE  Orderly'
<1> DEFINE m == Head(inbox)
<1>1. /\ screen' = [screen EXCEPT !.monitoring = FALSE, !.enabled = @ \ {"test"}]
      /\ m.what = "test" /\ screen.page = 2 /\ screen.monitoring
  BY DEF StopMonitor, Stay
<1>2. /\ screen'.monitoring = FALSE /\ screen'.enabled = screen.enabled \ {"test"}
      /\ screen'.page = screen.page /\ screen'.selected = screen.selected
      /\ screen'.busy = screen.busy /\ screen'.passed = screen.passed
  BY <1>1 DEF ScreenOK
<1>3. /\ tests' \in [TestThread -> Test]
      /\ \A t \in TestThread :
            /\ tests'[t] # Off <=> Running(t)
            /\ Running(t) => /\ tests'[t].kind = tests[t].kind
                             /\ tests'[t].device = tests[t].device
                             /\ tests'[t].here = tests[t].here
  BY StoppedTest DEF StopMonitor, MessagesOK
<1>4. OneTest'
  <2>1. ASSUME NEW t \in TestThread, Running(t)'
        PROVE  Running(t) /\ tests'[t].here /\ screen'.busy /\ Finishes' = {}
               /\ OfTheScreen(tests[t])'
    <3>1. Running(t)
      BY <1>3, <2>1 DEF Running
    <3>2. tests[t].here /\ screen.busy /\ Finishes = {} /\ OfTheScreen(tests[t])
      BY <3>1 DEF Orderly, OneTest
    <3>3. Finishes' = {}
      BY <3>2, InputIsTaken
    <3>4. QED
      BY <1>2, <1>3, <3>1, <3>2, <3>3 DEF OfTheScreen
  <2>2. \A t, u \in TestThread : Running(t) /\ Running(u) => t = u
    BY DEF Orderly, OneTest
  <2>3. \A i, j \in Finishes' : i = j
    BY InputIsTaken DEF Orderly, OneTest
  <2>4. \A i \in Finishes' : screen.busy /\ OfTheScreen(inbox'[i])
    BY InputIsTaken DEF Orderly, OneTest
  <2>5. \A i \in Finishes' : (screen.busy /\ OfTheScreen(inbox[i]))'
    BY <1>2, <2>4 DEF OfTheScreen
  <2>6. QED
    BY <2>1, <2>2, <2>3, <2>5 DEF OneTest
<1>5. BusyScreen'
  BY <1>1, <1>2, InputIsTaken DEF Orderly, BusyScreen
<1>6. PassedIsSelected'
  <2>1. Head(inbox) # Changed
    BY <1>1 DEF Changed
  <2>2. QED
    BY <1>2, <2>1, InputIsTaken DEF Orderly, PassedIsSelected
<1>7. QED
  BY <1>4, <1>5, <1>6, InputIsTaken DEF Orderly

(* A result is handled, and it was the only one; no test runs.              *)
LEMMA ResultHandled ==
    ASSUME MessagesOK, Orderly, inbox # <<>>, inbox' = Tail(inbox), tests' = tests,
           Head(inbox).what = "finished",
           screen'.page = screen.page, screen'.selected = screen.selected, ~screen'.busy,
           screen'.monitoring => screen.page = 2,
           \/ screen'.passed = screen.passed
           \/ screen'.passed = screen.selected /\ screen.page \in {2, 3}
    PROVE  Orderly'
<1>1. 1 \in Finishes
  BY MessageTaken DEF MessagesOK, Finishes
<1>2. \A t \in TestThread : ~Running(t)
  BY <1>1 DEF Orderly, OneTest
<1>3. Finishes' = {}
  <2>1. \A i \in Finishes : i = 1
    BY <1>1 DEF Orderly, OneTest
  <2>2. \A i \in Finishes' : i \in Nat \ {0} /\ i + 1 \in Finishes
    BY MessageTaken DEF MessagesOK, Finishes
  <2>3. QED
    BY <2>1, <2>2
<1>4. \A i \in Pending' : i \in Nat \ {0} /\ i + 1 \in Pending /\ inbox'[i] = inbox[i + 1]
  BY MessageTaken DEF MessagesOK, Pending
<1>5. OneInput'
  <2>1. ASSUME NEW i \in Pending', NEW j \in Pending' PROVE i = j
    <3>1. i \in Nat /\ j \in Nat /\ i + 1 = j + 1
      BY <1>4 DEF Orderly, OneInput
    <3>2. QED
      BY <3>1
  <2>2. QED
    BY <2>1 DEF OneInput
<1>6. OneTest'
  BY <1>2, <1>3 DEF OneTest, Running
<1>7. BusyScreen'
  BY <1>4 DEF BusyScreen
<1>8. PassedIsSelected'
  <2>1. ASSUME \A i \in Pending' : inbox'[i] # Changed, NEW i \in Pending
        PROVE  inbox[i] # Changed
    <3>1. i # 1
      BY <1>1 DEF Finishes, Pending
    <3>2. i - 1 \in Pending' /\ inbox'[i - 1] = inbox[i]
      BY <3>1, MessageTaken DEF MessagesOK
    <3>3. QED
      BY <2>1, <3>2
  <2>2. screen'.passed # NoValue => screen'.page \in {2, 3}
    BY DEF Orderly, PassedIsSelected
  <2>3. QED
    BY <2>1, <2>2 DEF Orderly, PassedIsSelected
<1>9. QED
  BY <1>5, <1>6, <1>7, <1>8 DEF Orderly

-----------------------------------------------------------------------------
(* Tests stay with their screen: the handlers                               *)

(* A changed selection forgets what the screen has tested.                  *)
LEMMA SelectionChanges ==
    ASSUME MessagesOK, ScreenOK, Orderly, NEW m, m = Head(inbox), inbox # <<>>, Stays,
           \/ OutputChanged(m) \/ InputChanged(m) \/ CameraChanged(m) \/ ModelChanged(m)
    PROVE  Orderly'
<1>1. m.what = "changed" /\ tests' = tests /\ InputTaken
  BY DEF OutputChanged, InputChanged, CameraChanged, ModelChanged, InputTaken, Stays
<1>2. 1 \in Pending /\ inbox[1] = m
  BY <1>1, InputIsTaken
<1>3. ~screen.busy
  BY <1>1, <1>2 DEF Orderly, BusyScreen
<1>4. screen.page \in {1, 4} => screen.passed = NoValue
  BY DEF Orderly, PassedIsSelected
<1>5. screen.monitoring => screen.page = 2
  BY DEF Orderly, BusyScreen
<1>6. CASE OutputChanged(m)
  <2>1. screen.passed = NoValue /\ screen'.busy = screen.busy
        /\ screen'.monitoring = screen.monitoring /\ screen'.passed = screen.passed
    BY <1>4, <1>6 DEF OutputChanged, Stay, ScreenOK
  <2>2. QED
    BY <1>1, <1>3, <1>5, <2>1, NoTestStarts DEF InputTaken
<1>7. CASE InputChanged(m)
  <2>1. screen'.passed = NoValue /\ screen'.busy = screen.busy
        /\ screen'.monitoring = screen.monitoring
    BY <1>7 DEF InputChanged, Stay, ScreenOK
  <2>2. QED
    BY <1>1, <1>3, <1>5, <2>1, NoTestStarts DEF InputTaken
<1>8. CASE CameraChanged(m)
  <2>1. screen'.passed = NoValue /\ screen'.busy = screen.busy
        /\ screen'.monitoring = screen.monitoring
    BY <1>8 DEF CameraChanged, Stay, ScreenOK
  <2>2. QED
    BY <1>1, <1>3, <1>5, <2>1, NoTestStarts DEF InputTaken
<1>9. CASE ModelChanged(m)
  <2>1. screen.passed = NoValue /\ screen'.busy = screen.busy
        /\ screen'.monitoring = screen.monitoring /\ screen'.passed = screen.passed
    BY <1>4, <1>9 DEF ModelChanged, Stay, ScreenOK
  <2>2. QED
    BY <1>1, <1>3, <1>5, <2>1, NoTestStarts DEF InputTaken
<1>10. QED
  BY <1>6, <1>7, <1>8, <1>9

(* A test is asked for: the screen is not busy with another one.            *)
LEMMA TestsStart ==
    ASSUME MessagesOK, ScreenOK, Orderly, NEW m, m = Head(inbox), inbox # <<>>, Stays,
           \/ PlaySample(m) \/ StartMonitor(m) \/ PlayRecording(m)
           \/ StartCameraTest(m) \/ StartStreamingTest(m)
    PROVE  Orderly'
<1>1. m.what \in {"test", "second"} /\ InputTaken /\ m # Changed
  BY DEF PlaySample, StartMonitor, PlayRecording, StartCameraTest, StartStreamingTest,
         InputTaken, Stays, Changed
<1>2. 1 \in Pending /\ inbox[1] = m
  BY <1>1, InputIsTaken
<1>3. (screen.monitoring => screen.page = 2) /\ screen.busy \in BOOLEAN
      /\ screen.selected \in Value /\ screen.passed \in Value
  BY DEF Orderly, BusyScreen, ScreenOK
<1>4. (m.what = "second" \/ ~screen.monitoring) => ~screen.busy
  BY <1>1, <1>2 DEF Orderly, BusyScreen
<1>5. ASSUME Ignore PROVE Orderly'
  BY <1>1, <1>5, InputIgnored DEF Ignore, Stay
<1>6. CASE PlaySample(m)
  <2>1. CASE screen.selected # NoValue /\ Start("sample", screen.selected)
             /\ screen' = [screen EXCEPT !.busy = TRUE, !.enabled = {}]
    <3>1. screen'.busy /\ screen'.enabled = {} /\ screen'.monitoring = screen.monitoring
          /\ screen'.passed = screen.passed
      BY <2>1 DEF ScreenOK
    <3>2. ~screen.busy /\ ~screen'.monitoring
      BY <1>3, <1>4, <1>6, <3>1 DEF PlaySample
    <3>3. QED
      BY <1>1, <1>3, <2>1, <3>1, <3>2, ATestStarts DEF Remembered
  <2>2. QED
    BY <1>5, <1>6, <2>1 DEF PlaySample, Stay
<1>7. CASE StartMonitor(m)
  <2>1. CASE screen.selected # NoValue /\ Start("monitor", screen.selected)
             /\ screen' = [screen EXCEPT !.passed = NoValue, !.busy = TRUE, !.monitoring = TRUE,
                                         !.bell = FreeThread, !.enabled = @ \cap {"test"}]
    <3>1. /\ screen'.busy /\ screen'.enabled = screen.enabled \cap {"test"}
          /\ screen'.monitoring = TRUE /\ screen'.passed = NoValue
          /\ screen'.page = screen.page
      BY <2>1 DEF ScreenOK
    <3>2. ~screen.busy /\ screen.page = 2
      BY <1>4, <1>7 DEF StartMonitor
    <3>3. screen'.enabled \subseteq (IF screen'.monitoring THEN {"test"} ELSE {})
      BY <3>1
    <3>4. QED
      BY <1>1, <1>3, <2>1, <3>1, <3>2, <3>3, ATestStarts DEF Remembered
  <2>2. QED
    BY <1>5, <1>7, <2>1 DEF StartMonitor, Stay
<1>8. CASE PlayRecording(m)
  <2>1. CASE screen.passed # NoValue /\ Start("playback", screen.passed)
             /\ screen' = [screen EXCEPT !.busy = TRUE, !.enabled = {}]
    <3>1. screen'.busy /\ screen'.enabled = {} /\ screen'.monitoring = screen.monitoring
          /\ screen'.passed = screen.passed /\ screen'.page = screen.page
      BY <2>1 DEF ScreenOK
    <3>2. ~screen.busy
      BY <1>4, <1>8 DEF PlayRecording
    <3>3. QED
      BY <1>1, <1>3, <2>1, <3>1, <3>2, ATestStarts DEF Remembered
  <2>2. QED
    BY <1>5, <1>8, <2>1 DEF PlayRecording, Stay
<1>9. CASE StartCameraTest(m)
  <2>1. CASE screen.selected # NoValue /\ Start("snapshot", screen.selected)
             /\ screen' = [screen EXCEPT !.passed = NoValue, !.busy = TRUE, !.enabled = {}]
    <3>1. screen'.busy /\ screen'.enabled = {} /\ screen'.monitoring = screen.monitoring
          /\ screen'.passed = NoValue
      BY <2>1 DEF ScreenOK
    <3>2. ~screen.busy /\ ~screen'.monitoring /\ screen.page = 3
      BY <1>3, <1>4, <1>9, <3>1 DEF StartCameraTest
    <3>3. QED
      BY <1>1, <1>3, <2>1, <3>1, <3>2, ATestStarts DEF Remembered
  <2>2. QED
    BY <1>5, <1>9, <2>1 DEF StartCameraTest, Stay
<1>10. CASE StartStreamingTest(m)
  <2>1. ~screen.busy /\ ~screen.monitoring
    BY <1>3, <1>4, <1>10 DEF StartStreamingTest
  <2>2. CASE screen' = [screen EXCEPT !.enabled = @ \ {"next"}] /\ tests' = tests
    <3>1. screen'.busy = screen.busy /\ screen'.monitoring = screen.monitoring
          /\ screen'.passed = screen.passed
      BY <2>2 DEF ScreenOK
    <3>2. QED
      BY <1>1, <2>1, <2>2, <3>1, NoTestStarts
  <2>3. CASE screen.selected # NoValue /\ Start("stream", screen.selected)
             /\ screen' = [screen EXCEPT !.busy = TRUE, !.enabled = {}]
    <3>1. screen'.busy /\ screen'.enabled = {} /\ screen'.monitoring = screen.monitoring
          /\ screen'.passed = screen.passed
      BY <2>3 DEF ScreenOK
    <3>2. QED
      BY <1>1, <1>3, <2>1, <2>3, <3>1, ATestStarts DEF Remembered
  <2>4. QED
    BY <1>5, <1>10, <2>2, <2>3 DEF StartStreamingTest, Stay
<1>11. QED
  BY <1>6, <1>7, <1>8, <1>9, <1>10

(* The result of a test is handled: what it allows is of the device         *)
(* selected.                                                                *)
LEMMA ResultsHandled ==
    ASSUME MessagesOK, ScreenOK, Orderly, NEW m, m = Head(inbox), inbox # <<>>, Stays,
           \/ SampleFinished(m) \/ RecordingFinished(m) \/ PlaybackFinished(m)
           \/ CameraTestFinished(m)
    PROVE  Orderly'
<1>1. m.what = "finished" /\ tests' = tests /\ inbox' = Tail(inbox)
      /\ screen'.page = screen.page /\ screen'.selected = screen.selected
  BY DEF SampleFinished, RecordingFinished, PlaybackFinished, CameraTestFinished, Finished,
         Stays
<1>2. OfTheScreen(m)
  BY <1>1, MessageTaken DEF MessagesOK, Finishes, Orderly, OneTest
<1>3. screen.monitoring => screen.page = 2
  BY DEF Orderly, BusyScreen
<1>4. CASE SampleFinished(m)
  <2>1. screen'.busy = FALSE /\ screen'.monitoring = screen.monitoring
        /\ screen'.passed = screen.passed
    BY <1>4 DEF SampleFinished, Stay, ScreenOK
  <2>2. QED
    BY <1>1, <1>3, <2>1, ResultHandled
<1>5. CASE RecordingFinished(m)
  <2>1. screen'.busy = FALSE /\ screen'.monitoring = FALSE
        /\ screen'.passed = IF m.ok THEN m.device ELSE screen.passed
    BY <1>5 DEF RecordingFinished, Stay, ScreenOK
  <2>2. m.device = screen.selected /\ screen.page \in {2, 3}
    BY <1>2, <1>5 DEF RecordingFinished, Finished, OfTheScreen, Remembered
  <2>3. QED
    BY <1>1, <2>1, <2>2, ResultHandled
<1>6. CASE PlaybackFinished(m)
  <2>1. screen'.busy = FALSE /\ screen'.monitoring = screen.monitoring
        /\ screen'.passed = screen.passed
    BY <1>6 DEF PlaybackFinished, Stay, ScreenOK
  <2>2. QED
    BY <1>1, <1>3, <2>1, ResultHandled
<1>7. CASE CameraTestFinished(m)
  <2>1. screen'.busy = FALSE /\ screen'.monitoring = screen.monitoring
        /\ screen'.passed = IF m.kind = "snapshot" /\ m.ok THEN m.device ELSE screen.passed
    BY <1>7 DEF CameraTestFinished, Stay, ScreenOK
  <2>2. m.kind = "snapshot" => m.device = screen.selected /\ screen.page \in {2, 3}
    BY <1>2 DEF OfTheScreen, Remembered
  <2>3. QED
    BY <1>1, <1>3, <2>1, <2>2, ResultHandled
<1>8. QED
  BY <1>4, <1>5, <1>6, <1>7

LEMMA HandlersKeepOrder ==
    ASSUME MessagesOK, ScreenOK, LaunchIInv, WelcomeIInv, Orderly, Handle
    PROVE  IF app' = "launched"
           THEN (\A t \in TestThread : ~Running(t)') /\ screen'.passed = NoValue
           ELSE Orderly'
<1> DEFINE m == Head(inbox)
<1>1. inbox # <<>> /\ 1 \in DOMAIN inbox /\ inbox[1] = m /\ app = "running"
  BY HeadTailProperties DEF Handle, MessagesOK
<1>2. ASSUME m.what \in {"tab", "prev", "next"}, m.what # "next" => ~screen.busy
      PROVE  /\ Finishes = {}
             /\ \A t \in TestThread : ~Running(t) /\ Left[t] = Off
  <2>1. 1 \in Pending
    BY <1>1, <1>2 DEF Pending
  <2>2. ~screen.busy
    BY <1>1, <1>2, <2>1 DEF Orderly, BusyScreen
  <2>3. QED
    BY <2>2, NothingRuns, LeftTests DEF Orderly, MessagesOK
<1>3. CASE /\ Stays /\ screen' = screen /\ tests' = tests
           /\ m.what \in {"tab", "prev", "next"}
  <2>1. InputTaken /\ m # Changed /\ app' # "launched"
    BY <1>1, <1>3 DEF InputTaken, Stays, Changed
  <2>2. QED
    BY <1>3, <2>1, InputIgnored
<1>4. CASE Stays /\ ScreenHandles(m)
  <2>1. app' # "launched"
    BY <1>1, <1>4 DEF Stays
  <2>2. CASE \/ OutputChanged(m) \/ InputChanged(m) \/ CameraChanged(m) \/ ModelChanged(m)
    BY <1>1, <1>4, <2>1, <2>2, SelectionChanges
  <2>3. CASE \/ PlaySample(m) \/ StartMonitor(m) \/ PlayRecording(m)
             \/ StartCameraTest(m) \/ StartStreamingTest(m)
    BY <1>1, <1>4, <2>1, <2>3, TestsStart
  <2>4. CASE \/ SampleFinished(m) \/ RecordingFinished(m) \/ PlaybackFinished(m)
             \/ CameraTestFinished(m)
    BY <1>1, <1>4, <2>1, <2>4, ResultsHandled
  <2>5. CASE StopMonitor(m)
    <3>1. InputTaken
      BY <1>1, <1>4, <2>5 DEF InputTaken, Stays, StopMonitor
    <3>2. QED
      BY <2>1, <2>5, <3>1, RecordingStops
  <2>6. QED
    BY <1>4, <2>2, <2>3, <2>4, <2>5 DEF ScreenHandles
<1>5. CASE /\ \E n \in 0..6, s \in Choices : MovesOn(n, s)
           /\ m.what \in {"tab", "prev", "next"}
           /\ m.what # "next" => ~screen.busy
  <2>1. PICK n \in 0..6, s \in Choices : Opened(n, s)
    BY <1>5 DEF MovesOn
  <2>2. /\ app' = "running" /\ tests' = Left /\ screen'.busy = FALSE
        /\ screen'.monitoring = FALSE /\ screen'.passed = NoValue
        /\ inbox' \in {<<>>, <<Changed>>}
    BY <1>1, <2>1 DEF Opened
  <2>3. \A i \in DOMAIN inbox' : i = 1 /\ inbox'[i].what = "changed"
    <3>1. CASE inbox' = <<>>
      BY <3>1
    <3>2. CASE inbox' = <<Changed>>
      BY <3>2 DEF Changed
    <3>3. QED
      BY <2>2, <3>1, <3>2
  <2>4. OneInput' /\ Finishes' = {}
    BY <2>3 DEF OneInput, Finishes, Pending
  <2>5. OneTest'
    BY <1>2, <1>5, <2>2, <2>4 DEF OneTest, Running
  <2>6. BusyScreen' /\ PassedIsSelected'
    BY <2>2 DEF BusyScreen, PassedIsSelected
  <2>7. QED
    BY <2>2, <2>4, <2>5, <2>6 DEF Orderly
<1>6. CASE Launches /\ m.what = "next"
  <2>1. app' = "launched" /\ tests' = Left /\ screen' = screen /\ screen.page = 6
    BY <1>6 DEF Launches, RuntimeMode
  <2>2. screen.passed = NoValue
    BY <2>1 DEF Orderly, PassedIsSelected
  <2>3. QED
    BY <1>2, <1>6, <2>1, <2>2 DEF Running
<1> HIDE DEF m
<1>7. \/ /\ Stays /\ screen' = screen /\ tests' = tests
         /\ m.what \in {"tab", "prev", "next"}
      \/ Stays /\ ScreenHandles(m)
      \/ /\ \E n \in 0..6, s \in Choices : MovesOn(n, s)
         /\ m.what \in {"tab", "prev", "next"}
         /\ m.what # "next" => ~screen.busy
      \/ Launches /\ m.what = "next"
  BY HandleIs DEF m
<1>8. QED
  BY <1>3, <1>4, <1>5, <1>6, <1>7

LEMMA UserKeepsOrder ==
    ASSUME MessagesOK, ScreenOK, Orderly, UserActs, ~hasty'
    PROVE  Orderly'
<1>1. /\ tests' = tests /\ ScreenOK' /\ Pending = {}
      /\ screen'.page = screen.page /\ screen'.enabled = screen.enabled
      /\ screen'.busy = screen.busy /\ screen'.monitoring = screen.monitoring
      /\ screen'.passed = screen.passed
  BY UserSends
<1>2. PICK m \in Input : Sends(m)
  BY UserSends
<1>3. /\ Finishes' = Finishes /\ Pending' = {Len(inbox) + 1}
      /\ inbox'[Len(inbox) + 1] = m
      /\ \A i \in Finishes : inbox'[i] = inbox[i]
  BY <1>1, <1>2, MessageSent DEF MessagesOK, Sends, Finishes
<1>4. screen.busy => /\ "select" \notin screen.enabled
                     /\ screen.enabled \subseteq (IF screen.monitoring THEN {"test"} ELSE {})
  BY DEF Orderly, BusyScreen
<1>5. screen.busy => m.what # "changed" /\ screen' = screen
  BY <1>2, <1>4 DEF Sends
<1>6. OneTest'
  <2>1. \A t \in TestThread : OfTheScreen(tests[t]) => (screen.busy => OfTheScreen(tests[t])')
    BY <1>1, <1>5 DEF OfTheScreen
  <2>2. \A i \in Finishes : OfTheScreen(inbox[i]) => (screen.busy => OfTheScreen(inbox[i])')
    BY <1>3, <1>5 DEF OfTheScreen
  <2>3. QED
    BY <1>1, <1>3, <2>1, <2>2 DEF Orderly, OneTest, Running
<1>7. BusyScreen'
  <2>1. /\ m.what \in {"second", "next", "changed"} => ~screen.busy
        /\ m.what = "test" => (screen.busy => screen.monitoring)
    BY <1>2, <1>4, <1>5 DEF Sends
  <2>2. QED
    BY <1>1, <1>3, <2>1 DEF Orderly, BusyScreen
<1>8. PassedIsSelected'
  <2>1. m # Changed => screen' = screen
    BY <1>2 DEF Sends
  <2>2. QED
    BY <1>1, <1>3, <2>1 DEF Orderly, PassedIsSelected
<1>9. QED
  BY <1>3, <1>6, <1>7, <1>8 DEF Orderly, OneInput

LEMMA TestsEndInOrder ==
    ASSUME MessagesOK, Orderly, NEW t \in TestThread, TestEnds(t)
    PROVE  Orderly'
<1>1. Running(t) /\ tests' = [tests EXCEPT ![t] = Off] /\ screen' = screen
  BY EndedTest DEF TestEnds
<1>2. /\ tests[t].here /\ screen.busy /\ Finishes = {} /\ OfTheScreen(tests[t])
      /\ \A u \in TestThread : Running(u) => u = t
  BY <1>1 DEF Orderly, OneTest
<1>3. PICK m \in Result : /\ m.what = "finished" /\ m.kind = tests[t].kind
                          /\ m.device = tests[t].device /\ inbox' = Append(inbox, m)
  BY <1>2, EndedTest
<1>4. /\ Pending' = Pending /\ Finishes' = {Len(inbox) + 1}
      /\ inbox'[Len(inbox) + 1] = m
      /\ \A i \in Pending : inbox'[i] = inbox[i]
  BY <1>2, <1>3, MessageSent DEF MessagesOK, Pending
<1>5. \A u \in TestThread : ~Running(u)'
  BY <1>1, <1>2 DEF Running, MessagesOK
<1>6. OneTest'
  BY <1>1, <1>2, <1>3, <1>4, <1>5 DEF OneTest, OfTheScreen
<1>7. OneInput' /\ BusyScreen' /\ PassedIsSelected'
  BY <1>1, <1>4 DEF Orderly, OneInput, BusyScreen, PassedIsSelected
<1>8. QED
  BY <1>6, <1>7 DEF Orderly

LEMMA TestsStayHome ==
    ASSUME MessagesOK, ScreenOK, LaunchIInv, WelcomeIInv, TestIInv, Next
    PROVE  TestIInv'
<1>1. CASE UserActs
  <2>1. app' = app /\ app = "running" /\ hasty' = (hasty \/ Pending # {})
    BY <1>1, UserSends
  <2>2. QED
    BY <1>1, <2>1, UserKeepsOrder DEF TestIInv
<1>2. CASE Quit
  BY <1>2 DEF Quit, TestIInv
<1>3. CASE Handle
  <2>1. app = "running" /\ hasty' = hasty
    BY <1>3 DEF Handle
  <2>2. ASSUME ~hasty PROVE TestIInv'
    <3>1. Orderly
      BY <2>1, <2>2 DEF TestIInv
    <3>2. IF app' = "launched"
          THEN (\A t \in TestThread : ~Running(t)') /\ screen'.passed = NoValue
          ELSE Orderly'
      BY <1>3, <3>1, HandlersKeepOrder
    <3>3. QED
      BY <3>2 DEF TestIInv
  <2>3. QED
    BY <2>1, <2>2 DEF TestIInv
<1>4. CASE \E t \in TestThread : TestEnds(t)
  <2>1. PICK t \in TestThread : TestEnds(t)
    BY <1>4
  <2>2. Running(t) /\ app' = app /\ hasty' = hasty
    BY <2>1 DEF TestEnds
  <2>3. QED
    BY <2>1, <2>2, TestsEndInOrder DEF TestIInv
<1>5. QED
  BY <1>1, <1>2, <1>3, <1>4 DEF Next, UserActs

-----------------------------------------------------------------------------
(* Theorems                                                                 *)

LEMMA WizardStarts == Init => WizardIInv
<1> SUFFICES ASSUME Init PROVE WizardIInv
  OBVIOUS
<1>1. Nothing \in Choices /\ NoValue \in Value /\ Available(Nothing) \in 1..5
  <2>1. Nothing \in Choices /\ NoValue \in Value
    BY Constants DEF Nothing, Choices
  <2>2. QED
    BY <2>1, AvailableIs
<1>2. screen = [page |-> 0, available |-> Available(Nothing), offered |-> {},
                selected |-> NoValue, enabled |-> {"next"}, busy |-> FALSE,
                monitoring |-> FALSE, passed |-> NoValue, bell |-> NoTest]
  BY DEF Init, NewScreen, Preselected, EnabledAtFirst, WelcomeControls, Welcome, Step
<1>3. /\ app = "running" /\ session = Nothing /\ context = Nothing /\ inbox = <<>>
      /\ tests = [t \in TestThread |-> Off]
  BY DEF Init
<1>4. \A i \in DOMAIN inbox : FALSE
  BY <1>3
<1>5. \A t \in TestThread : ~Running(t)
  BY <1>3 DEF Running
<1>6. MessagesOK
  BY <1>3 DEF MessagesOK, Test
<1>7. ScreenOK
  BY <1>1, <1>2 DEF ScreenOK
<1>8. LaunchIInv
  BY <1>1, <1>2, <1>3 DEF LaunchIInv, RuntimeMode
<1>9. WelcomeIInv
  BY <1>2, <1>4, <1>5 DEF WelcomeIInv
<1>10. TestIInv
  <2>1. OneInput /\ OneTest
    BY <1>4, <1>5 DEF OneInput, OneTest, Pending, Finishes
  <2>2. BusyScreen /\ PassedIsSelected
    BY <1>2, <1>4 DEF BusyScreen, PassedIsSelected, Pending
  <2>3. QED
    BY <1>3, <2>1, <2>2 DEF TestIInv, Orderly
<1>11. QED
  BY <1>6, <1>7, <1>8, <1>9, <1>10 DEF WizardIInv

LEMMA WizardStutters ==
    ASSUME WizardIInv, UNCHANGED vars
    PROVE  WizardIInv'
<1>1. MessagesOK' /\ ScreenOK' /\ LaunchIInv' /\ WelcomeIInv'
  BY DEF WizardIInv, vars, MessagesOK, ScreenOK, LaunchIInv, WelcomeIInv, Running
<1>2. TestIInv'
  BY DEF WizardIInv, vars, TestIInv, Orderly, OneInput, OneTest, BusyScreen, PassedIsSelected,
         OfTheScreen, Running, Pending, Finishes
<1>3. QED
  BY <1>1, <1>2 DEF WizardIInv

LEMMA WizardSteps == WizardIInv /\ [Next]_vars => WizardIInv'
<1>1. ASSUME WizardIInv, Next PROVE WizardIInv'
  BY <1>1, MessagesStayOK, ScreensStayInOrder, NothingButBegin, TestsStayHome DEF WizardIInv
<1>2. QED
  BY <1>1, WizardStutters

(* The inductive invariant: the screen shown is one the session has reached,*)
(* and, as long as the user waits for each input to be handled, at most one *)
(* test runs or has a result under way, on a busy screen.                   *)
THEOREM WizardInvariant == Spec => []WizardIInv
BY WizardStarts, WizardSteps, PTL DEF Spec

(* Whatever is clicked, and however fast: no screen opens before the choices*)
(* it needs, and what is launched is the complete session of the summary.   *)
THEOREM LaunchIsComplete == Spec => []LaunchFitsTheSession
<1>1. ASSUME WizardIInv PROVE LaunchFitsTheSession
  <2>1. app # "failed" /\ session \in Choices
    BY <1>1 DEF WizardIInv, LaunchIInv
  <2>2. (screen.page = RuntimeMode \/ app = "launched") =>
           context = session /\ Available(session) = Summary
    BY <1>1 DEF WizardIInv, LaunchIInv
  <2>3. Available(session) = Summary => \A n \in Step : session[n] # NoValue
    BY <2>1, AvailableIs
  <2>4. QED
    BY <2>1, <2>2, <2>3 DEF LaunchFitsTheSession
<1>2. QED
  BY <1>1, WizardInvariant, PTL

(* No step of the wizard loses a choice, and going forward takes the value  *)
(* of the screen along.                                                     *)
THEOREM ChoicesSurvive == Spec => ChoicesAreKept
<1> DEFINE Kept2 ==
        /\ \A n \in Step : session[n] # NoValue => session'[n] # NoValue
        /\ (screen.page \in Step /\ screen'.page > screen.page /\ screen.selected # NoValue)
              => session'[screen.page] = screen.selected
<1>1. ASSUME WizardIInv, Next PROVE Kept2
  <2>1. MessagesOK /\ ScreenOK /\ LaunchIInv /\ WelcomeIInv /\ screen.page \in 0..6
    BY <1>1 DEF WizardIInv, ScreenOK
  <2>2. ASSUME session' = session, screen'.page = screen.page PROVE Kept2
    BY <2>1, <2>2
  <2>3. CASE UserActs
    BY <2>1, <2>2, <2>3, UserSends
  <2>4. CASE Quit
    BY <2>2, <2>4 DEF Quit
  <2>5. CASE Handle
    <3>1. CASE Stays \/ Launches
      BY <2>2, <3>1 DEF Stays, Launches
    <3>2. CASE \E n \in 0..6, s \in Choices : MovesOn(n, s)
      <4>1. PICK n \in 0..6, s \in Choices : MovesOn(n, s)
        BY <3>2
      <4>2. session' = s /\ screen'.page = n
        BY <4>1 DEF MovesOn, Opened
      <4>3. QED
        BY <4>1, <4>2 DEF MovesOn
    <3>3. QED
      BY <2>1, <2>5, <3>1, <3>2, HandleOutcome
  <2>6. CASE \E t \in TestThread : TestEnds(t)
    BY <2>2, <2>6 DEF TestEnds
  <2>7. QED
    BY <1>1, <2>3, <2>4, <2>5, <2>6 DEF Next, UserActs
<1>2. ASSUME WizardIInv, UNCHANGED vars PROVE [Kept2]_vars
  BY <1>2
<1>3. WizardIInv /\ [Next]_vars => [Kept2]_vars
  BY <1>1, <1>2
<1>4. QED
  BY <1>3, WizardInvariant, PTL DEF Spec, ChoicesAreKept

(* If the user waits for each input to be handled, no test outlives its     *)
(* screen, and what a test has made possible is of the device selected.     *)
THEOREM TestsStayWithTheirScreen == Spec => []TestsBelongToTheScreen
<1>1. ASSUME WizardIInv PROVE TestsBelongToTheScreen
  <2> SUFFICES ASSUME ~hasty, app # "quit"
               PROVE  /\ \A t \in TestThread : Running(t) => tests[t].here /\ app = "running"
                      /\ (screen.passed # NoValue /\ \A i \in Pending : inbox[i] # Changed)
                            => screen.passed = screen.selected
    BY DEF TestsBelongToTheScreen
  <2>1. app \in {"running", "launched"}
    BY <1>1 DEF WizardIInv, LaunchIInv
  <2>2. CASE app = "running"
    BY <1>1, <2>2 DEF WizardIInv, TestIInv, Orderly, OneTest, PassedIsSelected
  <2>3. CASE app = "launched"
    BY <1>1, <2>3 DEF WizardIInv, TestIInv
  <2>4. QED
    BY <2>1, <2>2, <2>3
<1>2. QED
  BY <1>1, WizardInvariant, PTL

-----------------------------------------------------------------------------
(* A test gives the screen back                                             *)

(* A busy screen has a test to wait for, or its result; and a recording is  *)
(* either under the screen's control or has been told to stop.              *)
BusyForATest ==
    /\ screen.busy => Finishes # {} \/ \E t \in TestThread : Running(t)
    /\ \A t \in TestThread : Running(t) /\ tests[t].kind = "monitor" =>
          t = screen.bell /\ (screen.monitoring \/ tests[t].stopped)

GivenBack == (~hasty /\ app = "running") => BusyForATest

(* There is a thread for the only test.                                     *)
LEMMA FreeThreadIs ==
    ASSUME \A t \in TestThread : ~Running(t)
    PROVE  FreeThread \in TestThread
<1> DEFINE Free(t) == ~Running(t) /\ \A u \in 1..(t - 1) : Running(u)
<1>1. 1 \in TestThread /\ Free(1)
  BY Constants
<1>2. FreeThread = CHOOSE t \in TestThread : Free(t)
  BY DEF FreeThread
<1>3. QED
  BY <1>1, <1>2

LEMMA TestGivesBack ==
    ASSUME MessagesOK, ~screen.busy, Orderly, screen'.busy,
           NEW kind \in {"sample", "monitor", "playback", "snapshot", "stream"},
           NEW device \in Value, Start(kind, device),
           kind = "monitor" => screen'.bell = FreeThread /\ screen'.monitoring
    PROVE  BusyForATest'
<1>1. \A t \in TestThread : ~Running(t)
  BY NothingRuns DEF Orderly
<1>2. FreeThread \in TestThread
  BY <1>1, FreeThreadIs
<1>3. \A t \in TestThread :
         IF t = FreeThread
         THEN tests'[t] = [kind |-> kind, device |-> device, here |-> TRUE, stopped |-> FALSE]
         ELSE tests'[t] = tests[t]
  BY StartedTest DEF MessagesOK
<1>4. tests'[FreeThread].kind = kind /\ kind # Off.kind
  BY <1>2, <1>3 DEF Off
<1>5. tests'[FreeThread] # Off
  BY <1>4
<1>6. \A t \in TestThread : tests'[t] # Off => t = FreeThread
  BY <1>1, <1>3 DEF Running
<1>7. QED
  BY <1>2, <1>4, <1>5, <1>6 DEF BusyForATest, Running

(* The screen handles an input without starting a test, or a result.        *)
LEMMA NothingToWaitFor ==
    ASSUME ~screen'.busy, tests' = tests, \A t \in TestThread : ~Running(t)
    PROVE  BusyForATest'
BY DEF BusyForATest, Running

LEMMA NothingLost ==
    ASSUME MessagesOK, inbox # <<>>, inbox' = Tail(inbox), Head(inbox).what # "finished",
           Finishes # {}
    PROVE  Finishes' # {}
<1>1. 1 \notin Finishes
  BY MessageTaken DEF MessagesOK, Finishes
<1>2. QED
  BY <1>1, MessageTaken DEF MessagesOK

LEMMA HandlersGiveBack ==
    ASSUME MessagesOK, ScreenOK, Orderly, BusyForATest, NEW m, m = Head(inbox),
           inbox # <<>>, m \in Input \cup Result, Stays, ScreenHandles(m)
    PROVE  BusyForATest'
<1>0. 1 \in DOMAIN inbox /\ inbox[1] = m /\ inbox' = Tail(inbox)
  BY HeadTailProperties DEF MessagesOK, Stays
<1>1. m.what \in {"changed", "second"} \/ (m.what = "test" /\ ~screen.monitoring)
         => ~screen.busy /\ \A t \in TestThread : ~Running(t)
  <2>1. ASSUME m.what \in {"changed", "second"} \/ (m.what = "test" /\ ~screen.monitoring)
        PROVE  ~screen.busy
    BY <1>0, <2>1 DEF Orderly, BusyScreen, Pending
  <2>2. QED
    BY <2>1, NothingRuns DEF Orderly
<1>2. screen.monitoring => screen.page = 2
  BY DEF Orderly, BusyScreen
<1>3. screen.selected \in Value /\ screen.passed \in Value
  BY DEF ScreenOK
<1>4. ASSUME Ignore, ~screen.busy, \A t \in TestThread : ~Running(t)
      PROVE  BusyForATest'
  BY <1>4, NothingToWaitFor DEF Ignore, Stay
<1>5. CASE OutputChanged(m) \/ InputChanged(m) \/ CameraChanged(m) \/ ModelChanged(m)
  <2>1. m.what = "changed" /\ tests' = tests
    BY <1>5 DEF OutputChanged, InputChanged, CameraChanged, ModelChanged
  <2>2. screen'.busy = screen.busy
    BY <1>5 DEF OutputChanged, InputChanged, CameraChanged, ModelChanged, Stay, ScreenOK
  <2>3. QED
    BY <1>1, <2>1, <2>2, NothingToWaitFor
<1>6. CASE \/ SampleFinished(m) \/ RecordingFinished(m) \/ PlaybackFinished(m)
           \/ CameraTestFinished(m)
  <2>1. m.what = "finished" /\ tests' = tests
    BY <1>6 DEF SampleFinished, RecordingFinished, PlaybackFinished, CameraTestFinished,
                Finished
  <2>2. screen'.busy = FALSE
    BY <1>6 DEF SampleFinished, RecordingFinished, PlaybackFinished, CameraTestFinished, Stay,
                ScreenOK
  <2>3. \A t \in TestThread : ~Running(t)
    BY <1>0, <2>1 DEF Orderly, OneTest, Finishes
  <2>4. QED
    BY <2>1, <2>2, <2>3, NothingToWaitFor
<1>7. CASE PlaySample(m)
  <2>1. ~screen.busy /\ \A t \in TestThread : ~Running(t)
    BY <1>1, <1>2, <1>7 DEF PlaySample
  <2>2. CASE Start("sample", screen.selected)
             /\ screen' = [screen EXCEPT !.busy = TRUE, !.enabled = {}]
    <3>1. screen'.busy
      BY <2>2 DEF ScreenOK
    <3>2. QED
      BY <1>3, <2>1, <2>2, <3>1, TestGivesBack
  <2>3. QED
    BY <1>4, <1>7, <2>1, <2>2 DEF PlaySample, Stay
<1>8. CASE StartMonitor(m)
  <2>1. ~screen.busy /\ \A t \in TestThread : ~Running(t)
    BY <1>1, <1>8 DEF StartMonitor
  <2>2. CASE Start("monitor", screen.selected)
             /\ screen' = [screen EXCEPT !.passed = NoValue, !.busy = TRUE, !.monitoring = TRUE,
                                         !.bell = FreeThread, !.enabled = @ \cap {"test"}]
    <3>1. screen'.busy /\ screen'.monitoring /\ screen'.bell = FreeThread
      BY <2>2 DEF ScreenOK
    <3>2. QED
      BY <1>3, <2>1, <2>2, <3>1, TestGivesBack
  <2>3. QED
    BY <1>4, <1>8, <2>1, <2>2 DEF StartMonitor, Stay
<1>9. CASE PlayRecording(m)
  <2>1. ~screen.busy /\ \A t \in TestThread : ~Running(t)
    BY <1>1, <1>9 DEF PlayRecording
  <2>2. CASE Start("playback", screen.passed)
             /\ screen' = [screen EXCEPT !.busy = TRUE, !.enabled = {}]
    <3>1. screen'.busy
      BY <2>2 DEF ScreenOK
    <3>2. QED
      BY <1>3, <2>1, <2>2, <3>1, TestGivesBack
  <2>3. QED
    BY <1>4, <1>9, <2>1, <2>2 DEF PlayRecording, Stay
<1>10. CASE StartCameraTest(m)
  <2>1. ~screen.busy /\ \A t \in TestThread : ~Running(t)
    BY <1>1, <1>2, <1>10 DEF StartCameraTest
  <2>2. CASE Start("snapshot", screen.selected)
             /\ screen' = [screen EXCEPT !.passed = NoValue, !.busy = TRUE, !.enabled = {}]
    <3>1. screen'.busy
      BY <2>2 DEF ScreenOK
    <3>2. QED
      BY <1>3, <2>1, <2>2, <3>1, TestGivesBack
  <2>3. QED
    BY <1>4, <1>10, <2>1, <2>2 DEF StartCameraTest, Stay
<1>11. CASE StartStreamingTest(m)
  <2>1. ~screen.busy /\ \A t \in TestThread : ~Running(t)
    BY <1>1, <1>11 DEF StartStreamingTest
  <2>2. CASE Start("stream", screen.selected)
             /\ screen' = [screen EXCEPT !.busy = TRUE, !.enabled = {}]
    <3>1. screen'.busy
      BY <2>2 DEF ScreenOK
    <3>2. QED
      BY <1>3, <2>1, <2>2, <3>1, TestGivesBack
  <2>3. CASE screen' = [screen EXCEPT !.enabled = @ \ {"next"}] /\ tests' = tests
    <3>1. screen'.busy = screen.busy
      BY <2>3 DEF ScreenOK
    <3>2. QED
      BY <2>1, <2>3, <3>1, NothingToWaitFor
  <2>4. QED
    BY <1>4, <1>11, <2>1, <2>2, <2>3 DEF StartStreamingTest, Stay
<1>12. CASE StopMonitor(m)
  <2>1. /\ screen' = [screen EXCEPT !.monitoring = FALSE, !.enabled = @ \ {"test"}]
        /\ m.what = "test" /\ screen.monitoring
        /\ tests' = [t \in TestThread |-> IF t = screen.bell /\ Running(t)
                                          THEN [tests[t] EXCEPT !.stopped = TRUE]
                                          ELSE tests[t]]
    BY <1>12 DEF StopMonitor, Stay
  <2>2. screen'.busy = screen.busy /\ screen'.bell = screen.bell
    BY <2>1 DEF ScreenOK
  <2>3. \A t \in TestThread :
           /\ tests'[t] # Off <=> Running(t)
           /\ Running(t) => tests'[t].kind = tests[t].kind
    BY <2>1, StoppedTest DEF MessagesOK
  <2>4. ASSUME NEW t \in TestThread, Running(t), tests[t].kind = "monitor"
        PROVE  t = screen.bell /\ tests'[t].stopped
    <3>1. t = screen.bell
      BY <2>4 DEF BusyForATest
    <3>2. tests[t] \in [kind : {"sample", "monitor", "playback", "snapshot", "stream"},
                        device : Value, here : BOOLEAN, stopped : BOOLEAN]
      BY <2>4 DEF Running, Test, MessagesOK
    <3>3. tests'[t] = [tests[t] EXCEPT !.stopped = TRUE]
      BY <2>1, <2>4, <3>1
    <3>4. QED
      BY <3>1, <3>2, <3>3
  <2>5. screen.busy => Finishes' # {} \/ \E t \in TestThread : tests'[t] # Off
    BY <1>0, <2>1, <2>3, NothingLost DEF BusyForATest
  <2>6. QED
    BY <2>2, <2>3, <2>4, <2>5 DEF BusyForATest, Running
<1>13. QED
  BY <1>5, <1>6, <1>7, <1>8, <1>9, <1>10, <1>11, <1>12 DEF ScreenHandles

LEMMA ScreensAreGivenBack ==
    ASSUME WizardIInv, GivenBack, Next
    PROVE  GivenBack'
<1>1. MessagesOK /\ ScreenOK /\ LaunchIInv /\ WelcomeIInv /\ TestIInv
  BY DEF WizardIInv
<1>2. CASE UserActs
  <2>1. /\ app' = app /\ hasty' = (hasty \/ Pending # {}) /\ tests' = tests
        /\ screen'.busy = screen.busy /\ screen'.monitoring = screen.monitoring
    BY <1>1, <1>2, UserSends
  <2>2. PICK m \in Input : Sends(m)
    BY <1>1, <1>2, UserSends
  <2>3. Finishes' = Finishes
    BY <1>1, <2>2, MessageSent DEF MessagesOK, Sends
  <2>4. screen'.bell = screen.bell
    BY <1>1, <1>2 DEF UserActs, Click, ClickTab, Choose, ScreenOK
  <2>5. QED
    BY <2>1, <2>3, <2>4 DEF GivenBack, BusyForATest, Running
<1>3. CASE Quit
  BY <1>3 DEF Quit, GivenBack
<1>4. CASE Handle
  <2> SUFFICES ASSUME ~hasty', app' = "running"
               PROVE  BusyForATest'
    BY DEF GivenBack
  <2> DEFINE m == Head(inbox)
  <2>1. app = "running" /\ ~hasty /\ inbox # <<>> /\ m \in Input \cup Result
    BY <1>1, <1>4, HeadTailProperties DEF Handle, MessagesOK
  <2>2. Orderly /\ BusyForATest
    BY <1>1, <2>1 DEF GivenBack, TestIInv
  <2>3. CASE Stays /\ screen' = screen /\ tests' = tests /\ m.what \in {"tab", "prev", "next"}
    <3>1. Finishes # {} => Finishes' # {}
      BY <1>1, <2>1, <2>3, NothingLost DEF Stays
    <3>2. QED
      BY <2>2, <2>3, <3>1 DEF BusyForATest, Running
  <2>4. CASE Stays /\ ScreenHandles(m)
    BY <1>1, <2>1, <2>2, <2>4, HandlersGiveBack
  <2>5. CASE /\ \E n \in 0..6, s \in Choices : MovesOn(n, s)
             /\ m.what \in {"tab", "prev", "next"}
             /\ m.what # "next" => ~screen.busy
    <3>1. PICK n \in 0..6, s \in Choices : Opened(n, s)
      BY <2>5 DEF MovesOn
    <3>2. tests' = Left /\ screen'.busy = FALSE
      BY <3>1 DEF Opened
    <3>3. 1 \in DOMAIN inbox /\ inbox[1] = m
      BY <1>1, <2>1, HeadTailProperties DEF MessagesOK
    <3>4. ~screen.busy
      BY <2>2, <2>5, <3>3 DEF Orderly, BusyScreen, Pending
    <3>5. \A t \in TestThread : Left[t] = Off
      BY <1>1, <2>2, <3>4, NothingRuns, LeftTests DEF Orderly, MessagesOK
    <3>6. QED
      BY <3>2, <3>5 DEF BusyForATest, Running
  <2>6. ~(Launches /\ m.what = "next")
    BY DEF Launches
  <2> HIDE DEF m
  <2>7. \/ /\ Stays /\ screen' = screen /\ tests' = tests
           /\ m.what \in {"tab", "prev", "next"}
        \/ Stays /\ ScreenHandles(m)
        \/ /\ \E n \in 0..6, s \in Choices : MovesOn(n, s)
           /\ m.what \in {"tab", "prev", "next"}
           /\ m.what # "next" => ~screen.busy
        \/ Launches /\ m.what = "next"
    BY <1>1, <1>4, HandleIs DEF m
  <2>8. QED
    BY <2>3, <2>4, <2>5, <2>6, <2>7
<1>5. CASE \E t \in TestThread : TestEnds(t)
  <2> SUFFICES ASSUME ~hasty', app' = "running"
               PROVE  BusyForATest'
    BY DEF GivenBack
  <2>1. PICK t \in TestThread : TestEnds(t)
    BY <1>5
  <2>2. Running(t) /\ tests' = [tests EXCEPT ![t] = Off] /\ app = "running" /\ ~hasty
    BY <1>1, <2>1, EndedTest DEF TestEnds
  <2>3. tests[t].here /\ \A u \in TestThread : Running(u) => u = t
    BY <1>1, <2>2 DEF TestIInv, Orderly, OneTest
  <2>4. PICK m \in Result : m.what = "finished" /\ inbox' = Append(inbox, m)
    BY <1>1, <2>1, <2>3, EndedTest
  <2>5. Finishes' # {}
    BY <1>1, <2>4, MessageSent DEF MessagesOK
  <2>6. \A u \in TestThread : ~Running(u)'
    BY <1>1, <2>2, <2>3 DEF Running, MessagesOK
  <2>7. QED
    BY <2>5, <2>6 DEF BusyForATest
<1>6. QED
  BY <1>2, <1>3, <1>4, <1>5 DEF Next, UserActs

(* While the user waits for each input to be handled, a screen is busy only *)
(* as long as there is a test, or its result, that will give it back; and a *)
(* recording waits for nothing but Done.                                    *)
THEOREM TestsGiveTheScreenBack == Spec => []GivenBack
<1>1. Init => GivenBack
  BY Constants DEF Init, GivenBack, BusyForATest, NewScreen, Running
<1>2. WizardIInv /\ GivenBack /\ [Next]_vars => GivenBack'
  <2>1. ASSUME WizardIInv, GivenBack, Next PROVE GivenBack'
    BY <2>1, ScreensAreGivenBack
  <2>2. ASSUME GivenBack, UNCHANGED vars PROVE GivenBack'
    BY <2>2 DEF vars, GivenBack, BusyForATest, Running, Finishes
  <2>3. QED
    BY <2>1, <2>2
<1>3. QED
  BY <1>1, <1>2, WizardInvariant, PTL DEF Spec
=============================================================================
