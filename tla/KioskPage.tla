------------------------------ MODULE KioskPage ------------------------------
(***************************************************************************)
(* The page a terminal shows (Kiosk.tsx): it watches its session, loads    *)
(* the enrolled faces, looks at one camera frame at a time, asks for a     *)
(* proof of life (face the camera, turn, face it again) and registers the  *)
(* person it recognises; a PIN may be typed meanwhile, and once a day the   *)
(* page reloads itself.                                                    *)
(*                                                                         *)
(* An effect that React runs after a change is part of the action that     *)
(* makes the change; a callback keeps the values of the render it was      *)
(* created in. A frame says who is seen and how; telling two people apart  *)
(* is taken to work.                                                       *)
(*                                                                         *)
(* regime is an assumption on the people around the terminal, and never    *)
(* changes: "free" or "calm", where nobody presses a button in the middle  *)
(* of a start or of a frame, no session ends in the middle of a start, and *)
(* one reading or PIN comes after the outcome of the other has left.       *)
(***************************************************************************)
EXTENDS Naturals

CONSTANTS
    People,         \* those with an enrolled face
    LivenessFrames, \* REQUIRED_LIVENESS_FRAMES
    MatchFrames,    \* REQUIRED_CONSISTENT_FACE_FRAMES
    MissingFrames,  \* frames without a face that restart the proof
    MaxTimers,      \* bound: timers of one kind that are running
    Regimes,
    Null

VARIABLES
    session,        \* the server still accepts the terminal's token
    page,           \* the terminal as the page knows it
    camera,         \* the stream, and whether it is being read
    status,         \* the outcome on the screen
    proof,          \* the proof of life so far
    frame,          \* the frame being processed, to its registration
    last,           \* lastRegisteredRef, for a minute
    timers,         \* timers that will clear an outcome
    pin,            \* a PIN was sent
    refresh,        \* cacheRefreshPendingRef
    regime

vars == <<session, page, camera, status, proof, frame, last, timers, pin,
          refresh, regime>>

Movements == {"align", "turn", "return"}
LivenessSteps == Movements \cup {"verified"}
Poses == {"front", "tilted", "turned"}

\* Two frames at least: a frame that outlived its proof completes nothing.
ASSUME KioskPageAssumption ==
    /\ LivenessFrames \in Nat \ {0, 1} /\ MatchFrames \in Nat \ {0, 1}
    /\ MissingFrames \in Nat \ {0}
    /\ MaxTimers \in Nat \ {0}
    /\ Regimes \subseteq {"free", "calm"}
    /\ Null \notin People

(***************************************************************************)
(* terminal: out, with a token not yet confirmed, or released. loading: an *)
(* answer with the faces is awaited.                                       *)
(*                                                                         *)
(* stale: movements of which a frame was counted that had been taken for   *)
(* an earlier proof. It is kept for the properties only.                   *)
(***************************************************************************)
Page == [terminal : {"out", "token", "on"}, faces : BOOLEAN, loading : BOOLEAN]
Proof == [step : LivenessSteps,
          evidence : [Movements -> 0..LivenessFrames],
          anchor : People \cup {Null},
          missing : 0..(MissingFrames - 1),
          who : People \cup {Null}, count : 0..(MatchFrames + 1),
          stale : SUBSET Movements]
Frame == [at : {"look"}, step : LivenessSteps, cut : BOOLEAN]
Sending == [at : {"send"}, who : People]

TypeOK ==
    /\ session \in BOOLEAN
    /\ page \in Page
    /\ camera \in {"off", "starting", "on"}
    /\ status \in {"idle", "facial", "pin", "pin_refused"}
    /\ proof \in Proof
    /\ frame \in Frame \cup Sending \cup {Null}
    /\ last \in People \cup {Null}
    /\ timers \in [{"stop", "reset"} -> 0..MaxTimers]
    /\ pin \in BOOLEAN
    /\ refresh \in BOOLEAN
    /\ regime \in Regimes

\* resetLivenessFlow, with the pending match forgotten as its callers do.
NoProof == [step |-> "align", evidence |-> [m \in Movements |-> 0],
            anchor |-> Null, missing |-> 0, who |-> Null, count |-> 0,
            stale |-> {}]

Opened == [terminal |-> "token", faces |-> FALSE, loading |-> FALSE]
Out == [terminal |-> "out", faces |-> FALSE, loading |-> page.loading]

Init ==
    /\ session \in BOOLEAN
    /\ page = Opened
    /\ camera = "off"
    /\ status = "idle"
    /\ proof = NoProof
    /\ frame = Null
    /\ last = Null
    /\ timers = [k \in {"stop", "reset"} |-> 0]
    /\ pin = FALSE
    /\ refresh = FALSE
    /\ regime \in Regimes

Released == page.terminal = "on"
Sends == frame # Null /\ frame.at = "send"
Busy == camera # "off" \/ frame # Null

\* Nobody interferes with a start or a frame.
Undisturbed == regime = "calm" => camera # "starting" /\ frame = Null

\* Nothing is under way and no outcome waits to leave the screen.
AtRest ==
    regime = "calm" => /\ camera = "off" /\ frame = Null /\ ~pin
                       /\ \A k \in DOMAIN timers : timers[k] = 0

\* A frame in flight outlives the proof it was taken for.
FrameCut ==
    frame' = IF frame # Null /\ ~Sends
               THEN [at |-> "look", step |-> frame.step, cut |-> TRUE]
               ELSE frame

-----------------------------------------------------------------------------
(***************************************************************************)
(* syncTerminalAccess, every 5 seconds. Any error ends the session as a    *)
(* refusal does; the camera is switched off, a start in progress goes on.  *)
(***************************************************************************)
SyncReleases ==
    /\ page.terminal = "token"
    /\ session
    /\ page' = [terminal |-> "on", faces |-> page.faces, loading |-> TRUE]
    /\ UNCHANGED <<session, camera, status, proof, frame, last, timers, pin,
                   refresh, regime>>

\* Mutant of CameraAfterSession: the stream is left running.
CameraLeftOn == camera

CameraAfterSession == IF camera = "on" THEN "off" ELSE camera

SyncEnds ==
    /\ page.terminal # "out"
    /\ regime = "calm" => camera # "starting" /\ ~page.loading
    /\ page' = Out
    /\ camera' = CameraAfterSession
    /\ proof' = [proof EXCEPT !.who = Null, !.count = 0]
    /\ UNCHANGED <<session, status, frame, last, timers, pin, refresh, regime>>

\* loadFaces is not cancelled: its answer is used whenever it comes.
FacesLoaded ==
    /\ page.loading
    /\ session
    /\ page' = [terminal |-> page.terminal, faces |-> TRUE, loading |-> FALSE]
    /\ UNCHANGED <<session, camera, status, proof, frame, last, timers, pin,
                   refresh, regime>>

\* It was refused and the session is over, or it failed and the page waits.
FacesRefused ==
    /\ page.loading
    /\ page' = IF session
                 THEN [terminal |-> page.terminal, faces |-> page.faces,
                       loading |-> FALSE]
                 ELSE [terminal |-> "out", faces |-> FALSE, loading |-> FALSE]
    /\ proof' = IF session THEN proof
                ELSE [proof EXCEPT !.who = Null, !.count = 0]
    /\ UNCHANGED <<session, camera, status, frame, last, timers, pin, refresh,
                   regime>>

\* handleAccessKeySubmit: the form is shown while the terminal is out.
AccessKey ==
    /\ page.terminal = "out"
    /\ session' = TRUE
    /\ page' = [terminal |-> "on", faces |-> page.faces, loading |-> TRUE]
    /\ UNCHANGED <<camera, status, proof, frame, last, timers, pin, refresh,
                   regime>>

\* An administrator ends the terminal's sessions (external).
Revoked ==
    /\ session
    /\ session' = FALSE
    /\ UNCHANGED <<page, camera, status, proof, frame, last, timers, pin,
                   refresh, regime>>

-----------------------------------------------------------------------------
(***************************************************************************)
(* One frame. The callback keeps the step of the render it belongs to; the *)
(* rest of the proof is read when the detection ends.                      *)
(***************************************************************************)
FrameStarts ==
    /\ Released /\ page.faces
    /\ camera = "on"
    /\ status = "idle"
    /\ frame = Null
    /\ frame' = [at |-> "look", step |-> proof.step, cut |-> FALSE]
    /\ UNCHANGED <<session, page, camera, status, proof, last, timers, pin,
                   refresh, regime>>

Looking == frame # Null /\ ~Sends

FrameEnds(next) ==
    /\ Looking
    /\ proof' = next
    /\ frame' = Null
    /\ UNCHANGED <<session, page, camera, status, last, timers, pin, refresh,
                   regime>>

Unmatched(p) == [p EXCEPT !.who = Null, !.count = 0]

\* Nobody is in the picture.
FrameEmpty ==
    FrameEnds(IF proof.step = "align" THEN Unmatched(proof)
              ELSE IF proof.missing + 1 >= MissingFrames THEN NoProof
              ELSE [Unmatched(proof) EXCEPT !.missing = @ + 1])

\* Several people are.
FrameCrowded == FrameEnds(NoProof)

\* One is, not sharp, near or central enough; or the detection fails.
FrameUnusable ==
    FrameEnds([Unmatched(proof) EXCEPT !.missing = 0])

FrameFails == FrameEnds(proof)

\* Mutant of Another: the person is compared at the first step only.
AnotherUnseen(person) == FALSE

Another(person) ==
    proof.step # "align" /\ proof.anchor \notin {person, Null}

FrameOfAnother(person) == Another(person) /\ FrameEnds(NoProof)

\* The movement asked for was made.
Shows(step, pose) ==
    CASE step = "align" -> pose = "front"
      [] step = "turn" -> pose = "turned"
      [] OTHER -> pose # "turned"

After(step) ==
    CASE step = "align" -> "turn" [] step = "turn" -> "return"
      [] OTHER -> "verified"

\* A frame that does not show the movement starts its count again.
Unseen(m) == [proof EXCEPT !.evidence[m] = 0, !.missing = 0,
                           !.stale = @ \ {m}]

Seen(m, person) ==
    LET n == IF proof.evidence[m] = LivenessFrames THEN LivenessFrames
             ELSE proof.evidence[m] + 1
        done == n >= LivenessFrames
    IN [proof EXCEPT !.evidence[m] = n,
                     !.missing = 0,
                     !.stale = IF frame.cut THEN @ \cup {m} ELSE @,
                     !.step = IF done THEN After(m) ELSE @,
                     !.anchor = IF done /\ m = "align" THEN person ELSE @]

\* The proof after a usable frame of the person who is being looked at.
Proves(person, pose) ==
    IF frame.step = "verified" THEN [proof EXCEPT !.missing = 0]
    ELSE IF Shows(frame.step, pose) THEN Seen(frame.step, person)
    ELSE Unseen(frame.step)

\* The frame is compared with the enrolled faces: it is of the last step, or
\* completes the one before.
Compares(next) ==
    \/ frame.step = "verified"
    \/ frame.step = "return" /\ next.evidence["return"] = LivenessFrames

FrameProves(person, pose) ==
    LET next == Proves(person, pose) IN
    /\ Looking
    /\ ~Another(person)
    /\ ~Compares(next)
    /\ FrameEnds(next)

\* The nearest face is too far away, or another is nearly as near.
FrameUnmatched(person, pose) ==
    LET next == Proves(person, pose) IN
    /\ Looking
    /\ ~Another(person)
    /\ Compares(next)
    /\ FrameEnds(Unmatched(next))

\* A face that is not so near needs one frame more.
Required(near) == IF near THEN MatchFrames ELSE MatchFrames + 1

FrameMatches(person, near) ==
    LET next == Proves(person, "front")
        n == IF proof.who # person THEN 1
             ELSE IF proof.count > MatchFrames THEN proof.count
             ELSE proof.count + 1
        sends == n >= Required(near) /\ last # person
    IN /\ Looking
       /\ ~Another(person)
       /\ Compares(next)
       /\ page.faces
       /\ proof' = [next EXCEPT !.who = person, !.count = n]
       /\ frame' = IF sends THEN [at |-> "send", who |-> person] ELSE Null
       /\ last' = IF sends THEN person ELSE last
       /\ UNCHANGED <<session, page, camera, status, timers, pin, refresh,
                      regime>>

TimerStarts(k) ==
    /\ timers[k] < MaxTimers
    /\ timers' = [timers EXCEPT ![k] = @ + 1]

\* registerKiosk answered. Refused because the session is over, the terminal
\* is out.
FacialAnswer(ok) ==
    /\ Sends
    /\ ok => session
    /\ page' = IF session THEN page ELSE Out
    /\ status' = "facial"
    /\ proof' = Unmatched(proof)
    /\ last' = IF ok \/ last # frame.who THEN last ELSE Null
    /\ TimerStarts("stop")
    /\ frame' = Null
    /\ UNCHANGED <<session, camera, pin, refresh, regime>>

MinutePasses ==
    /\ last # Null
    /\ last' = Null
    /\ UNCHANGED <<session, page, camera, status, proof, frame, timers, pin,
                   refresh, regime>>

-----------------------------------------------------------------------------
\* The token is kept; everything else starts again.
Reloads ==
    /\ page' = IF page.terminal = "out" THEN [Opened EXCEPT !.terminal = "out"]
               ELSE Opened
    /\ camera' = "off"
    /\ status' = "idle"
    /\ proof' = NoProof
    /\ frame' = Null
    /\ last' = Null
    /\ timers' = [k \in {"stop", "reset"} |-> 0]
    /\ pin' = FALSE
    /\ refresh' = FALSE
    /\ UNCHANGED <<session, regime>>

\* stopRecognition, when no reload waits for it...
StopWithout ==
    /\ camera' = CameraAfterSession
    /\ proof' = NoProof
    /\ FrameCut
    /\ UNCHANGED <<page, last, pin, refresh>>

\* ... and with the reload it then lets happen.
Stops(outcome, running) ==
    IF refresh THEN Reloads
    ELSE /\ StopWithout
         /\ status' = outcome
         /\ timers' = running
         /\ UNCHANGED <<session, regime>>

\* handleRecognitionToggle. The buttons need the terminal, the faces and the
\* list at rest, to start as to stop.
Toggles ==
    /\ Undisturbed
    /\ Released /\ page.faces /\ ~page.loading

StartBegins ==
    /\ Toggles
    /\ AtRest
    /\ camera = "off"
    /\ camera' = "starting"
    /\ UNCHANGED <<session, page, status, proof, frame, last, timers, pin,
                   refresh, regime>>

\* The models and the camera are ready; the terminal is not looked at again.
StartEnds ==
    /\ camera = "starting"
    /\ camera' = "on"
    /\ status' = "idle"
    /\ proof' = NoProof
    /\ FrameCut
    /\ UNCHANGED <<session, page, last, timers, pin, refresh, regime>>

\* The models took too long, or there is no camera.
StartFails ==
    /\ camera = "starting"
    /\ camera' = "off"
    /\ UNCHANGED <<session, page, status, proof, frame, last, timers, pin,
                   refresh, regime>>

Pauses ==
    /\ Toggles
    /\ camera = "on"
    /\ Stops(status, timers)

\* handleResetTerminal: the timers go on.
ResetTerminal ==
    /\ Undisturbed
    /\ Stops("idle", timers)

\* Mutant of StopTimer: the outcome stays on the screen.
StopTimerKeeps ==
    /\ timers["stop"] > 0
    /\ Stops(status, [timers EXCEPT !["stop"] = @ - 1])

\* The timer of a facial outcome, whatever has happened since.
StopTimer ==
    /\ timers["stop"] > 0
    /\ Stops("idle", [timers EXCEPT !["stop"] = @ - 1])

ResetTimer ==
    /\ timers["reset"] > 0
    /\ timers' = [timers EXCEPT !["reset"] = @ - 1]
    /\ status' = "idle"
    /\ UNCHANGED <<session, page, camera, proof, frame, last, pin, refresh,
                   regime>>

-----------------------------------------------------------------------------
\* handlePinSubmit. A refusal stays on the screen: no timer clears it.
PinSubmit ==
    /\ page.terminal # "out"
    /\ AtRest
    /\ ~pin
    /\ pin' = TRUE
    /\ UNCHANGED <<session, page, camera, status, proof, frame, last, timers,
                   refresh, regime>>

PinAnswer(ok) ==
    /\ pin
    /\ ok => session
    /\ pin' = FALSE
    /\ status' = IF ok THEN "pin" ELSE "pin_refused"
    /\ IF ok THEN TimerStarts("reset") ELSE UNCHANGED timers
    /\ UNCHANGED <<session, page, camera, proof, frame, last, refresh, regime>>

-----------------------------------------------------------------------------
\* Mutant of Occupied: only the recognition is waited for.
OccupiedByCamera == camera # "off"

\* The daily refresh waits for a recognition, a start or a frame.
Occupied == camera # "off" \/ frame # Null

DailyRefresh ==
    /\ ~refresh
    /\ \/ ~Occupied /\ Reloads
       \/ /\ Occupied
          /\ refresh' = TRUE
          /\ UNCHANGED <<session, page, camera, status, proof, frame, last,
                         timers, pin, regime>>

PendingRefresh ==
    /\ refresh
    /\ ~Occupied
    /\ Reloads

-----------------------------------------------------------------------------
Next ==
    \/ SyncReleases \/ SyncEnds \/ FacesLoaded \/ FacesRefused
    \/ AccessKey \/ Revoked
    \/ FrameStarts \/ FrameEmpty \/ FrameCrowded \/ FrameUnusable \/ FrameFails
    \/ \E person \in People :
         \/ FrameOfAnother(person)
         \/ \E pose \in Poses : FrameProves(person, pose)
                                \/ FrameUnmatched(person, pose)
         \/ \E near \in BOOLEAN : FrameMatches(person, near)
    \/ \E ok \in BOOLEAN : FacialAnswer(ok) \/ PinAnswer(ok)
    \/ MinutePasses
    \/ StartBegins \/ StartEnds \/ StartFails \/ Pauses \/ ResetTerminal
    \/ StopTimer \/ ResetTimer
    \/ PinSubmit
    \/ DailyRefresh \/ PendingRefresh

Spec == Init /\ [][Next]_vars

\* Timers run; a request is answered (its refusal is an answer).
Fairness ==
    /\ WF_vars(StopTimer) /\ WF_vars(ResetTimer)
    /\ WF_vars(FacialAnswer(FALSE)) /\ WF_vars(PendingRefresh)

FairSpec == Spec /\ Fairness

-----------------------------------------------------------------------------
Proven(person) ==
    /\ proof.step = "verified"
    /\ proof.anchor = person
    /\ proof.who = person /\ proof.count >= MatchFrames
    /\ \A m \in Movements : proof.evidence[m] >= LivenessFrames
    /\ regime = "calm" => proof.stale = {}

\* A person is registered only after a proof of life by that same person,
\* taken since the recognition was started: each movement in two frames, and
\* the person recognised in two. (Started again in the middle of a frame, one
\* of the two frames may be of the recognition before.)
ProvenBeforeSent == [][~Sends /\ Sends' => Proven(frame.who)']_vars

\* A registration that was sent is answered on the screen: the daily reload,
\* waited for or not, does not take the page away before.
SentIsAnswered ==
    [][Sends /\ regime = "calm" => Sends' \/ status' = "facial"]_vars

\* The outcome of a recognition gives way to the next reading, and takes the
\* camera with it. (That of a refused PIN stays until somebody acts.)
OutcomePasses == status = "facial" ~> status # "facial"

\* A terminal whose session ended does not leave its camera on ("desligada
\* assim que a leitura terminar"): its reading was stopped, or its last
\* outcome stops it. (A start that was under way may leave it on.)
CameraGoesOff ==
    regime = "calm" => (page.terminal = "out" /\ camera = "on"
                        ~> camera # "on" \/ page.terminal # "out")
=============================================================================
