--------------------------- MODULE KioskPageProofs ---------------------------
(***************************************************************************)
(* The page of a terminal: a person is registered only after a whole proof *)
(* of life of that person, in any regime, and where nobody interferes with *)
(* a start or a frame a registration that was sent is answered on the      *)
(* screen. For every number of people, frames and timers.                  *)
(***************************************************************************)
EXTENDS KioskPage, TLAPS

\* The movements asked for before the present one were shown, and the person
\* who made the first is known.
ShownBy(p) ==
    /\ p.step # "align" =>
         /\ p.evidence["align"] = LivenessFrames
         /\ p.anchor # Null
    /\ p.step \in {"return", "verified"} => p.evidence["turn"] = LivenessFrames
    /\ p.step = "verified" => p.evidence["return"] = LivenessFrames

Shown == ShownBy(proof)

\* A frame is of the present step, or its proof was cut and nothing of the
\* next one is known.
FrameOfProof ==
    Looking => IF frame.cut THEN proof = NoProof ELSE frame.step = proof.step

\* In the calm regime a start, a frame, an outcome that waits to leave the
\* screen and a PIN exclude each other, and no frame is cut.
Outcome == timers["stop"] > 0
Pinned == pin \/ timers["reset"] > 0

Apart ==
    /\ camera = "starting" => frame = Null
    /\ Outcome => /\ ~Pinned
                  /\ frame = Null
                  /\ camera = "off" \/ (camera = "on" /\ status = "facial")
    /\ Pinned => camera = "off" /\ frame = Null
    /\ Looking => ~frame.cut
    /\ proof.stale = {}

Calm == regime = "calm" => Apart

PageInv == TypeOK /\ Shown /\ FrameOfProof /\ Calm

-----------------------------------------------------------------------------
\* What the changes of a proof keep of it.
Kept(p, q) ==
    /\ q \in Proof
    /\ q.step = p.step /\ q.evidence = p.evidence
    /\ q.anchor = p.anchor /\ q.stale = p.stale

LEMMA Fresh ==
    /\ NoProof \in Proof
    /\ NoProof.step = "align" /\ NoProof.who = Null /\ NoProof.count = 0
    /\ NoProof.stale = {} /\ NoProof.anchor = Null /\ NoProof.missing = 0
    /\ \A m \in Movements : NoProof.evidence[m] = 0
    /\ Unmatched(NoProof) = NoProof
    /\ ShownBy(NoProof)
<1> DEFINE none == [m \in Movements |-> 0]
<1>1. /\ none \in [Movements -> 0..LivenessFrames]
      /\ \A m \in Movements : none[m] = 0
  BY KioskPageAssumption
<1> HIDE DEF none
<1>2. /\ NoProof.step = "align" /\ NoProof.who = Null /\ NoProof.count = 0
      /\ NoProof.stale = {} /\ NoProof.anchor = Null /\ NoProof.missing = 0
      /\ NoProof.evidence = none
  BY DEF NoProof, none
<1>3. NoProof = [step |-> "align", evidence |-> none, anchor |-> Null,
                missing |-> 0, who |-> Null, count |-> 0, stale |-> {}]
  BY DEF NoProof, none
<1>4. NoProof \in Proof
  <2>1. /\ "align" \in LivenessSteps /\ 0 \in 0..(MatchFrames + 1)
        /\ 0 \in 0..(MissingFrames - 1)
    BY KioskPageAssumption DEF LivenessSteps, Movements
  <2>2. QED
    BY <1>1, <1>3, <2>1 DEF Proof
<1>5. Unmatched(NoProof) = NoProof
  <2>1. NoProof = [[NoProof EXCEPT !.who = NoProof.who]
                     EXCEPT !.count = NoProof.count]
    BY <1>4 DEF Proof
  <2>2. QED
    BY <1>2, <1>4, <2>1 DEF Unmatched, Proof
<1>6. QED
  BY <1>1, <1>2, <1>4, <1>5 DEF ShownBy

LEMMA ProofParts ==
    ASSUME NEW p \in Proof
    PROVE  /\ p.step \in LivenessSteps
           /\ p.evidence \in [Movements -> 0..LivenessFrames]
           /\ p.anchor \in People \cup {Null}
           /\ p.missing \in 0..(MissingFrames - 1)
           /\ p.who \in People \cup {Null} /\ p.count \in 0..(MatchFrames + 1)
           /\ p.stale \in SUBSET Movements
BY DEF Proof

LEMMA Unmatches ==
    ASSUME NEW p \in Proof
    PROVE  /\ Kept(p, Unmatched(p))
           /\ \A k \in 0..(MissingFrames - 1) :
                Kept(p, [Unmatched(p) EXCEPT !.missing = k])
           /\ Kept(p, [p EXCEPT !.missing = 0])
<1>1. /\ Null \in People \cup {Null} /\ 0 \in 0..(MatchFrames + 1)
      /\ 0 \in 0..(MissingFrames - 1)
  BY KioskPageAssumption
<1>2. Kept(p, Unmatched(p))
  BY <1>1 DEF Proof, Kept, Unmatched
<1>3. \A q \in Proof, k \in 0..(MissingFrames - 1) :
        Kept(q, [q EXCEPT !.missing = k])
  BY DEF Proof, Kept
<1>4. QED
  BY <1>1, <1>2, <1>3 DEF Kept

LEMMA Matches ==
    ASSUME NEW p \in Proof, NEW w \in People, NEW n \in 0..(MatchFrames + 1)
    PROVE  LET q == [p EXCEPT !.who = w, !.count = n]
           IN  Kept(p, q) /\ q.who = w /\ q.count = n
BY DEF Proof, Kept

LEMMA KeptShows ==
    ASSUME NEW p, NEW q, Kept(p, q), ShownBy(p)
    PROVE  ShownBy(q)
BY DEF Kept, ShownBy

\* The frames of movement m once one more is counted.
Frames(m) == IF proof.evidence[m] = LivenessFrames THEN LivenessFrames
             ELSE proof.evidence[m] + 1

LEMMA Sees ==
    ASSUME TypeOK, Looking, NEW m \in Movements, NEW person \in People
    PROVE  LET q == Seen(m, person) IN
           /\ q \in Proof
           /\ Frames(m) \in 0..LivenessFrames
           /\ q.evidence = [proof.evidence EXCEPT ![m] = Frames(m)]
           /\ q.step = IF Frames(m) = LivenessFrames THEN After(m)
                       ELSE proof.step
           /\ q.anchor = IF Frames(m) = LivenessFrames /\ m = "align"
                           THEN person ELSE proof.anchor
           /\ ~frame.cut => q.stale = proof.stale
           /\ q.who = proof.who /\ q.count = proof.count
<1>1. proof \in Proof
  BY DEF TypeOK
<1>2. proof.evidence \in [Movements -> 0..LivenessFrames]
  BY <1>1, ProofParts
<1>3. LivenessFrames \in Nat /\ proof.evidence[m] \in 0..LivenessFrames
  BY <1>2, KioskPageAssumption
<1>4. /\ Frames(m) \in 0..LivenessFrames
      /\ Frames(m) >= LivenessFrames <=> Frames(m) = LivenessFrames
  BY <1>3 DEF Frames
<1>5. [proof.evidence EXCEPT ![m] = Frames(m)]
        \in [Movements -> 0..LivenessFrames]
  BY <1>2, <1>4
<1>6. After(m) \in LivenessSteps
  BY DEF After, LivenessSteps, Movements
<1>7. proof.stale \cup {m} \in SUBSET Movements
  BY <1>1, ProofParts
<1>8. 0 \in 0..(MissingFrames - 1)
  BY KioskPageAssumption
<1> DEFINE e == [proof.evidence EXCEPT ![m] = Frames(m)]
           done == Frames(m) = LivenessFrames
           q == [proof EXCEPT
                   !.evidence = e, !.missing = 0,
                   !.stale = IF frame.cut THEN proof.stale \cup {m}
                             ELSE proof.stale,
                   !.step = IF done THEN After(m) ELSE proof.step,
                   !.anchor = IF done /\ m = "align" THEN person
                              ELSE proof.anchor]
<1>9. Seen(m, person) = q
  BY <1>1, <1>4 DEF Seen, Frames, Proof
<1> HIDE DEF e, done
<1>10. e \in [Movements -> 0..LivenessFrames]
  BY <1>5 DEF e
<1>11. /\ q \in Proof /\ q.evidence = e
       /\ q.step = IF done THEN After(m) ELSE proof.step
       /\ q.anchor = IF done /\ m = "align" THEN person ELSE proof.anchor
       /\ ~frame.cut => q.stale = proof.stale
       /\ q.who = proof.who /\ q.count = proof.count
  BY <1>1, <1>6, <1>7, <1>8, <1>10 DEF Proof
<1>12. QED
  BY <1>4, <1>9, <1>11 DEF e, done

LEMMA Misses ==
    ASSUME TypeOK, NEW m \in Movements
    PROVE  LET q == Unseen(m) IN
           /\ q \in Proof
           /\ q.evidence = [proof.evidence EXCEPT ![m] = 0]
           /\ q.step = proof.step /\ q.anchor = proof.anchor
           /\ proof.stale = {} => q.stale = {}
           /\ q.who = proof.who /\ q.count = proof.count
<1>1. proof \in Proof /\ proof.stale \ {m} \in SUBSET Movements
  BY ProofParts DEF TypeOK
<1>2. [proof.evidence EXCEPT ![m] = 0] \in [Movements -> 0..LivenessFrames]
  BY <1>1, ProofParts, KioskPageAssumption
<1> DEFINE e == [proof.evidence EXCEPT ![m] = 0]
           q == [proof EXCEPT !.evidence = e, !.missing = 0,
                              !.stale = proof.stale \ {m}]
<1>3. Unseen(m) = q
  BY <1>1 DEF Unseen, Proof
<1>4. 0 \in 0..(MissingFrames - 1)
  BY KioskPageAssumption
<1> HIDE DEF e
<1>5. e \in [Movements -> 0..LivenessFrames]
  BY <1>2 DEF e
<1>6. /\ q \in Proof /\ q.evidence = e
      /\ q.step = proof.step /\ q.anchor = proof.anchor
      /\ q.stale = proof.stale \ {m}
      /\ q.who = proof.who /\ q.count = proof.count
  BY <1>1, <1>4, <1>5 DEF Proof
<1>7. QED
  BY <1>3, <1>6 DEF e

LEMMA FrameParts ==
    ASSUME TypeOK
    PROVE  /\ Looking => /\ frame \in Frame /\ frame.step \in LivenessSteps
                         /\ frame.cut \in BOOLEAN
                         /\ frame.step # "verified" => frame.step \in Movements
           /\ Sends => frame \in Sending /\ frame.who \in People
BY DEF TypeOK, Looking, Sends, Frame, Sending, LivenessSteps

LEMMA ProvesType ==
    ASSUME TypeOK, Looking, NEW person \in People, NEW pose
    PROVE  /\ Proves(person, pose) \in Proof
           /\ Proves(person, pose).who = proof.who
           /\ Proves(person, pose).count = proof.count
<1>1. proof \in Proof
  BY DEF TypeOK
<1>2. CASE frame.step = "verified"
  <2>1. 0 \in 0..(MissingFrames - 1)
    BY KioskPageAssumption
  <2>2. QED
    BY <1>1, <1>2, <2>1 DEF Proves, Proof
<1>3. CASE frame.step # "verified" /\ Shows(frame.step, pose)
  <2>1. frame.step \in Movements
    BY <1>3, FrameParts
  <2>2. QED
    BY <1>3, <2>1, Sees DEF Proves
<1>4. CASE frame.step # "verified" /\ ~Shows(frame.step, pose)
  <2>1. frame.step \in Movements
    BY <1>4, FrameParts
  <2>2. QED
    BY <1>4, <2>1, Misses DEF Proves
<1>5. QED
  BY <1>2, <1>3, <1>4

LEMMA CutType ==
    ASSUME TypeOK, FrameCut
    PROVE  frame' \in Frame \cup Sending \cup {Null}
BY FrameParts DEF TypeOK, FrameCut, Looking, Frame

LEMMA FrameEndsType ==
    ASSUME TypeOK, NEW next \in Proof, FrameEnds(next)
    PROVE  TypeOK'
BY DEF TypeOK, FrameEnds

LEMMA PageType ==
    ASSUME TypeOK
    PROVE  /\ page.terminal \in {"out", "token", "on"}
           /\ page.faces \in BOOLEAN /\ page.loading \in BOOLEAN
           /\ Out \in Page /\ Opened \in Page
           /\ [Opened EXCEPT !.terminal = "out"] \in Page
BY DEF TypeOK, Page, Out, Opened

LEMMA ReloadsType == ASSUME TypeOK, Reloads PROVE TypeOK'
<1>1. page' \in Page
  BY PageType DEF Reloads
<1>2. proof' \in Proof
  BY Fresh DEF Reloads
<1>3. timers' \in [{"stop", "reset"} -> 0..MaxTimers]
  BY KioskPageAssumption DEF Reloads
<1>4. QED
  BY <1>1, <1>2, <1>3 DEF TypeOK, Reloads

LEMMA TimersType ==
    ASSUME TypeOK, NEW k \in {"stop", "reset"}
    PROVE  /\ TimerStarts(k) =>
                timers' \in [{"stop", "reset"} -> 0..MaxTimers]
           /\ timers[k] > 0 => [timers EXCEPT ![k] = @ - 1]
                                 \in [{"stop", "reset"} -> 0..MaxTimers]
<1>1. timers[k] \in 0..MaxTimers /\ MaxTimers \in Nat
  BY KioskPageAssumption DEF TypeOK
<1>2. timers[k] < MaxTimers => timers[k] + 1 \in 0..MaxTimers
  BY <1>1
<1>3. timers[k] > 0 => timers[k] - 1 \in 0..MaxTimers
  BY <1>1
<1>4. QED
  BY <1>2, <1>3 DEF TimerStarts, TypeOK

LEMMA StopsType ==
    ASSUME TypeOK, NEW outcome \in {"idle", "facial", "pin", "pin_refused"},
           NEW running \in [{"stop", "reset"} -> 0..MaxTimers],
           Stops(outcome, running)
    PROVE  TypeOK'
<1>1. CASE refresh
  BY <1>1, ReloadsType DEF Stops
<1>2. CASE ~refresh
  <2>1. frame' \in Frame \cup Sending \cup {Null}
    BY <1>2, CutType DEF Stops, StopWithout
  <2>2. proof' \in Proof
    BY <1>2, Fresh DEF Stops, StopWithout
  <2>3. QED
    BY <1>2, <2>1, <2>2 DEF TypeOK, Stops, StopWithout, CameraAfterSession
<1>3. QED
  BY <1>1, <1>2

-----------------------------------------------------------------------------
LEMMA PageTyped == TypeOK /\ [Next]_vars => TypeOK'
<1> SUFFICES ASSUME TypeOK, [Next]_vars PROVE TypeOK'
  OBVIOUS
<1>1. proof \in Proof /\ Unmatched(proof) \in Proof
  BY Unmatches DEF TypeOK, Kept
<1>2. CASE SyncReleases \/ FacesLoaded \/ AccessKey
  <2>1. page' \in Page
    <3>1. \A t \in {"out", "token", "on"}, f \in BOOLEAN, l \in BOOLEAN :
            [terminal |-> t, faces |-> f, loading |-> l] \in Page
      BY DEF Page
    <3>2. QED
      BY <1>2, <3>1, PageType DEF SyncReleases, FacesLoaded, AccessKey
  <2>2. QED
    BY <1>2, <2>1 DEF TypeOK, SyncReleases, FacesLoaded, AccessKey
<1>3. CASE SyncEnds
  BY <1>1, <1>3, PageType
     DEF TypeOK, SyncEnds, Unmatched, CameraAfterSession
<1>4. CASE FacesRefused
  <2>1. page' \in Page
    BY <1>4, PageType DEF FacesRefused, Page
  <2>2. proof' \in Proof
    BY <1>1, <1>4 DEF FacesRefused, Unmatched
  <2>3. QED
    BY <1>4, <2>1, <2>2 DEF TypeOK, FacesRefused
<1>5. CASE Revoked \/ MinutePasses
  BY <1>5 DEF TypeOK, Revoked, MinutePasses
<1>6. CASE FrameStarts
  <2>1. frame' \in Frame
    BY <1>1, <1>6, ProofParts DEF FrameStarts, Frame
  <2>2. QED
    BY <1>6, <2>1 DEF TypeOK, FrameStarts
<1>7. CASE FrameEmpty
  <2>1. proof.missing + 1 < MissingFrames =>
          proof.missing + 1 \in 0..(MissingFrames - 1)
    BY <1>1, ProofParts, KioskPageAssumption
  <2>2. proof.missing + 1 < MissingFrames =>
          [Unmatched(proof) EXCEPT !.missing = @ + 1] \in Proof
    <3>1. Unmatched(proof).missing = proof.missing
      BY <1>1 DEF Unmatched, Proof
    <3>2. QED
      BY <1>1, <2>1, <3>1, Unmatches DEF Kept
  <2>3. proof.missing + 1 >= MissingFrames
          \/ proof.missing + 1 < MissingFrames
    BY <1>1, ProofParts, KioskPageAssumption
  <2>4. QED
    BY <1>1, <1>7, <2>2, <2>3, Fresh, FrameEndsType DEF FrameEmpty
<1>8. CASE FrameCrowded \/ FrameFails
  BY <1>1, <1>8, Fresh, FrameEndsType DEF FrameCrowded, FrameFails
<1>9. CASE FrameUnusable
  <2>1. [Unmatched(proof) EXCEPT !.missing = 0] \in Proof
    BY <1>1, Unmatches, KioskPageAssumption DEF Kept
  <2>2. QED
    BY <1>9, <2>1, FrameEndsType DEF FrameUnusable
<1>10. ASSUME NEW person \in People, FrameOfAnother(person) PROVE TypeOK'
  BY <1>10, Fresh, FrameEndsType DEF FrameOfAnother
<1>11. ASSUME NEW person \in People, NEW pose \in Poses,
              FrameProves(person, pose) \/ FrameUnmatched(person, pose)
       PROVE  TypeOK'
  <2>1. Looking
    BY <1>11 DEF FrameProves, FrameUnmatched
  <2>2. Proves(person, pose) \in Proof
    BY <2>1, ProvesType
  <2>3. Unmatched(Proves(person, pose)) \in Proof
    BY <2>2, Unmatches DEF Kept
  <2>4. QED
    BY <1>11, <2>2, <2>3, FrameEndsType DEF FrameProves, FrameUnmatched
<1>12. ASSUME NEW person \in People, NEW near \in BOOLEAN,
              FrameMatches(person, near)
       PROVE  TypeOK'
  <2> DEFINE next == Proves(person, "front")
             n == IF proof.who # person THEN 1
                  ELSE IF proof.count > MatchFrames THEN proof.count
                  ELSE proof.count + 1
  <2>1. next \in Proof
    BY <1>12, ProvesType DEF FrameMatches
  <2>2. n \in 0..(MatchFrames + 1)
    BY <1>1, ProofParts, KioskPageAssumption
  <2> HIDE DEF n, next
  <2>3. [next EXCEPT !.who = person, !.count = n] \in Proof
    BY <2>1, <2>2, Matches DEF Kept
  <2>4. proof' \in Proof
    BY <1>12, <2>3 DEF FrameMatches, n, next
  <2>5. frame' \in Sending \cup {Null} /\ last' \in People \cup {Null}
    BY <1>12 DEF FrameMatches, Sending, TypeOK
  <2>6. QED
    BY <1>12, <2>4, <2>5 DEF FrameMatches, TypeOK
<1>13. ASSUME NEW ok \in BOOLEAN, FacialAnswer(ok) PROVE TypeOK'
  <2>1. timers' \in [{"stop", "reset"} -> 0..MaxTimers]
    BY <1>13, TimersType DEF FacialAnswer
  <2>2. QED
    BY <1>1, <1>13, <2>1, PageType DEF TypeOK, FacialAnswer
<1>14. ASSUME NEW ok \in BOOLEAN, PinAnswer(ok) PROVE TypeOK'
  <2>1. timers' \in [{"stop", "reset"} -> 0..MaxTimers]
    BY <1>14, TimersType DEF PinAnswer, TypeOK
  <2>2. QED
    BY <1>14, <2>1 DEF TypeOK, PinAnswer
<1>15. CASE StartBegins \/ StartFails
  BY <1>15 DEF TypeOK, StartBegins, StartFails
<1>16. CASE StartEnds
  <2>1. frame' \in Frame \cup Sending \cup {Null}
    BY <1>16, CutType DEF StartEnds
  <2>2. QED
    BY <1>16, <2>1, Fresh DEF TypeOK, StartEnds
<1>17. CASE Pauses \/ ResetTerminal
  BY <1>17, StopsType DEF Pauses, ResetTerminal, TypeOK
<1>18. CASE StopTimer
  BY <1>18, StopsType, TimersType DEF StopTimer
<1>19. CASE ResetTimer
  <2>1. timers' \in [{"stop", "reset"} -> 0..MaxTimers]
    BY <1>19, TimersType DEF ResetTimer
  <2>2. QED
    BY <1>19, <2>1 DEF TypeOK, ResetTimer
<1>20. CASE PinSubmit
  BY <1>20 DEF TypeOK, PinSubmit
<1>21. CASE DailyRefresh
  <2>1. CASE ~Occupied /\ Reloads
    BY <2>1, ReloadsType
  <2>2. CASE ~(~Occupied /\ Reloads)
    BY <1>21, <2>2 DEF DailyRefresh, TypeOK
  <2>3. QED
    BY <2>1, <2>2
<1>22. CASE PendingRefresh
  BY <1>22, ReloadsType DEF PendingRefresh
<1>23. CASE UNCHANGED vars
  BY <1>23 DEF TypeOK, vars
<1>24. QED
  BY <1>2, <1>3, <1>4, <1>5, <1>6, <1>7, <1>8, <1>9, <1>10, <1>11, <1>12,
     <1>13, <1>14, <1>15, <1>16, <1>17, <1>18, <1>19, <1>20, <1>21, <1>22,
     <1>23 DEF Next

LEMMA PageStartsTyped == Init => TypeOK
<1> SUFFICES ASSUME Init PROVE TypeOK
  OBVIOUS
<1>1. page \in Page
  BY DEF Init, Opened, Page
<1>2. proof \in Proof
  BY Fresh DEF Init
<1>3. timers \in [{"stop", "reset"} -> 0..MaxTimers]
  BY KioskPageAssumption DEF Init
<1>4. QED
  BY <1>1, <1>2, <1>3 DEF TypeOK, Init

\* Every variable of the page has its type.
THEOREM PageTypeCorrect == Spec => []TypeOK
BY PageStartsTyped, PageTyped, PTL DEF Spec

-----------------------------------------------------------------------------
(***************************************************************************)
(* Nothing is counted for a proof but the frames of its present step: a    *)
(* frame in flight when the proof starts again is marked as cut, and one   *)
(* frame alone completes no movement and no match.                         *)
(***************************************************************************)
Evidence == Shown /\ FrameOfProof

LEMMA CutForgets ==
    ASSUME FrameCut, proof' = NoProof
    PROVE  Evidence'
<1>1. Looking' => frame'.cut
  BY DEF FrameCut, Looking, Sends
<1>2. QED
  BY <1>1, Fresh DEF Evidence, Shown, FrameOfProof

LEMMA ReloadForgets == ASSUME Reloads PROVE Evidence'
BY Fresh DEF Reloads, Evidence, Shown, FrameOfProof, Looking

LEMMA StopForgets ==
    ASSUME NEW outcome, NEW running, Stops(outcome, running)
    PROVE  Evidence'
BY ReloadForgets, CutForgets DEF Stops, StopWithout

LEMMA EndShows ==
    ASSUME NEW next, ShownBy(next), FrameEnds(next)
    PROVE  Evidence'
BY DEF FrameEnds, Evidence, Shown, FrameOfProof, Looking

\* Another frame of the present step, or of none.
LEMMA ProvesShows ==
    ASSUME TypeOK, Evidence, Looking, NEW person \in People, NEW pose
    PROVE  ShownBy(Proves(person, pose))
<1> DEFINE next == Proves(person, pose)
           m == frame.step
<1>1. /\ proof \in Proof
      /\ proof.evidence \in [Movements -> 0..LivenessFrames]
      /\ LivenessFrames \in Nat \ {0, 1}
  BY ProofParts, KioskPageAssumption DEF TypeOK
<1>2. ShownBy(proof)
  BY DEF Evidence, Shown
<1>3. CASE m = "verified"
  <2>1. Kept(proof, [proof EXCEPT !.missing = 0])
    BY <1>1, Unmatches
  <2>2. QED
    BY <1>2, <1>3, <2>1, KeptShows DEF Proves
<1>4. ASSUME m # "verified" PROVE m \in Movements
  BY <1>4, FrameParts
<1>5. CASE frame.cut /\ m # "verified"
  <2>1. proof.step = "align" /\ \A k \in Movements : proof.evidence[k] = 0
    BY <1>5, Fresh DEF Evidence, FrameOfProof
  <2>2. Frames(m) = 1 /\ Frames(m) # LivenessFrames
    BY <1>1, <1>4, <1>5, <2>1 DEF Frames
  <2>3. next.step = "align"
    BY <1>4, <1>5, <2>1, <2>2, Sees, Misses DEF Proves
  <2>4. QED
    BY <2>3 DEF ShownBy
<1>6. CASE ~frame.cut /\ m # "verified" /\ Shows(m, pose)
  <2>1. proof.step = m
    BY <1>6 DEF Evidence, FrameOfProof
  <2>2. /\ next.evidence = [proof.evidence EXCEPT ![m] = Frames(m)]
        /\ next.step = IF Frames(m) = LivenessFrames THEN After(m)
                       ELSE proof.step
        /\ next.anchor = IF Frames(m) = LivenessFrames /\ m = "align"
                           THEN person ELSE proof.anchor
    BY <1>4, <1>6, Sees DEF Proves
  <2>3. /\ next.evidence[m] = Frames(m)
        /\ \A k \in Movements \ {m} : next.evidence[k] = proof.evidence[k]
    BY <1>1, <1>4, <1>6, <2>2
  <2>4. person # Null
    BY KioskPageAssumption
  <2> HIDE DEF next
  <2>5. m = "align" => ShownBy(next)
    BY <1>2, <2>1, <2>2, <2>3, <2>4 DEF ShownBy, After, Movements
  <2>6. m = "turn" => ShownBy(next)
    BY <1>2, <2>1, <2>2, <2>3 DEF ShownBy, After, Movements
  <2>7. m = "return" => ShownBy(next)
    BY <1>2, <2>1, <2>2, <2>3 DEF ShownBy, After, Movements
  <2>8. QED
    BY <1>4, <1>6, <2>5, <2>6, <2>7 DEF Movements, next
<1>7. CASE ~frame.cut /\ m # "verified" /\ ~Shows(m, pose)
  <2>1. proof.step = m
    BY <1>7 DEF Evidence, FrameOfProof
  <2>2. /\ next.evidence = [proof.evidence EXCEPT ![m] = 0]
        /\ next.step = proof.step /\ next.anchor = proof.anchor
    BY <1>4, <1>7, Misses DEF Proves
  <2>3. \A k \in Movements \ {m} : next.evidence[k] = proof.evidence[k]
    BY <1>1, <1>4, <1>7, <2>2
  <2> HIDE DEF next
  <2>4. ShownBy(next)
    BY <1>2, <1>4, <1>7, <2>1, <2>2, <2>3 DEF ShownBy, Movements
  <2>5. QED
    BY <2>4 DEF next
<1>8. QED
  BY <1>3, <1>5, <1>6, <1>7

LEMMA PageEvidence == TypeOK /\ Evidence /\ [Next]_vars => Evidence'
<1> SUFFICES ASSUME TypeOK, Evidence, [Next]_vars PROVE Evidence'
  OBVIOUS
<1>1. proof \in Proof /\ ShownBy(proof) /\ Kept(proof, Unmatched(proof))
  BY Unmatches DEF TypeOK, Evidence, Shown
<1>2. ShownBy(Unmatched(proof))
  BY <1>1, KeptShows
<1>3. CASE \/ SyncReleases \/ FacesLoaded \/ AccessKey \/ Revoked
           \/ MinutePasses \/ StartBegins \/ StartFails \/ ResetTimer
           \/ PinSubmit \/ \E ok \in BOOLEAN : PinAnswer(ok)
  <2>1. UNCHANGED <<proof, frame>>
    BY <1>3 DEF SyncReleases, FacesLoaded, AccessKey, Revoked, MinutePasses,
                StartBegins, StartFails, ResetTimer, PinSubmit, PinAnswer
  <2>2. QED
    BY <2>1 DEF Evidence, Shown, FrameOfProof, Looking, Sends
<1>4. CASE SyncEnds \/ FacesRefused
  <2>1. frame' = frame /\ (proof' = proof \/ proof' = Unmatched(proof))
    BY <1>4 DEF SyncEnds, FacesRefused, Unmatched
  <2>2. ShownBy(proof') /\ proof'.step = proof.step
    BY <1>1, <1>2, <2>1 DEF Kept
  <2>3. proof = NoProof => proof' = NoProof
    BY <2>1, Fresh
  <2>4. QED
    BY <2>1, <2>2, <2>3 DEF Evidence, Shown, FrameOfProof, Looking, Sends
<1>5. CASE FrameStarts
  BY <1>1, <1>5 DEF FrameStarts, Evidence, Shown, FrameOfProof
<1>6. CASE FrameEmpty
  <2>1. \/ proof.missing + 1 >= MissingFrames
        \/ proof.missing + 1 \in 0..(MissingFrames - 1)
    BY <1>1, ProofParts, KioskPageAssumption
  <2>2. \A k \in 0..(MissingFrames - 1) :
          ShownBy([Unmatched(proof) EXCEPT !.missing = k])
    BY <1>1, Unmatches, KeptShows
  <2>3. Unmatched(proof).missing = proof.missing
    BY <1>1 DEF Unmatched, Proof
  <2>4. QED
    BY <1>2, <1>6, <2>1, <2>2, <2>3, Fresh, EndShows DEF FrameEmpty
<1>7. CASE FrameCrowded \/ FrameFails
  BY <1>1, <1>7, Fresh, EndShows DEF FrameCrowded, FrameFails
<1>8. CASE FrameUnusable
  <2>1. 0 \in 0..(MissingFrames - 1)
    BY KioskPageAssumption
  <2>2. Kept(proof, [Unmatched(proof) EXCEPT !.missing = 0])
    BY <1>1, <2>1, Unmatches
  <2>3. ShownBy([Unmatched(proof) EXCEPT !.missing = 0])
    BY <1>1, <2>2, KeptShows
  <2>4. QED
    BY <1>8, <2>3, EndShows DEF FrameUnusable
<1>9. ASSUME NEW person \in People, FrameOfAnother(person) PROVE Evidence'
  BY <1>9, Fresh, EndShows DEF FrameOfAnother
<1>10. ASSUME NEW person \in People, NEW pose \in Poses,
              FrameProves(person, pose) \/ FrameUnmatched(person, pose)
       PROVE  Evidence'
  <2> DEFINE next == Proves(person, pose)
  <2>1. Looking
    BY <1>10 DEF FrameProves, FrameUnmatched
  <2>2. next \in Proof /\ ShownBy(next)
    BY <2>1, ProvesType, ProvesShows
  <2>3. ShownBy(Unmatched(next))
    BY <2>2, Unmatches, KeptShows
  <2>4. QED
    BY <1>10, <2>2, <2>3, EndShows DEF FrameProves, FrameUnmatched
<1>11. ASSUME NEW person \in People, NEW near \in BOOLEAN,
              FrameMatches(person, near)
       PROVE  Evidence'
  <2> DEFINE next == Proves(person, "front")
  <2>1. PICK n : /\ n \in 0..(MatchFrames + 1)
                 /\ proof' = [next EXCEPT !.who = person, !.count = n]
    <3> DEFINE k == IF proof.who # person THEN 1
                    ELSE IF proof.count > MatchFrames THEN proof.count
                    ELSE proof.count + 1
    <3>1. k \in 0..(MatchFrames + 1)
      BY <1>1, ProofParts, KioskPageAssumption
    <3>2. proof' = [next EXCEPT !.who = person, !.count = k]
      BY <1>11 DEF FrameMatches
    <3>3. QED
      BY <3>1, <3>2
  <2>2. next \in Proof /\ ShownBy(next)
    BY <1>11, ProvesType, ProvesShows DEF FrameMatches
  <2> HIDE DEF next
  <2>3. ShownBy(proof')
    BY <2>1, <2>2, Matches, KeptShows
  <2>4. ~Looking'
    BY <1>11 DEF FrameMatches, Looking, Sends
  <2>5. QED
    BY <2>3, <2>4 DEF Evidence, Shown, FrameOfProof
<1>12. ASSUME NEW ok \in BOOLEAN, FacialAnswer(ok) PROVE Evidence'
  BY <1>2, <1>12 DEF FacialAnswer, Evidence, Shown, FrameOfProof, Looking
<1>13. CASE StartEnds
  BY <1>13, CutForgets DEF StartEnds
<1>14. CASE Pauses \/ ResetTerminal \/ StopTimer
  BY <1>14, StopForgets DEF Pauses, ResetTerminal, StopTimer
<1>15. CASE DailyRefresh
  <2>1. CASE ~Occupied /\ Reloads
    BY <2>1, ReloadForgets
  <2>2. CASE ~(~Occupied /\ Reloads)
    BY <1>15, <2>2 DEF DailyRefresh, Evidence, Shown, FrameOfProof, Looking,
                       Sends
  <2>3. QED
    BY <2>1, <2>2
<1>16. CASE PendingRefresh
  BY <1>16, ReloadForgets DEF PendingRefresh
<1>17. CASE UNCHANGED vars
  BY <1>17 DEF vars, Evidence, Shown, FrameOfProof, Looking, Sends
<1>18. QED
  BY <1>3, <1>4, <1>5, <1>6, <1>7, <1>8, <1>9, <1>10, <1>11, <1>12, <1>13,
     <1>14, <1>15, <1>16, <1>17 DEF Next

-----------------------------------------------------------------------------
(***************************************************************************)
(* The calm regime. What comes after an outcome waits for it to leave, so  *)
(* the timer that ends the recognition never meets a frame.                *)
(***************************************************************************)
LEMMA TimersNat ==
    ASSUME TypeOK
    PROVE  /\ timers["stop"] \in Nat /\ timers["reset"] \in Nat
           /\ \A k \in {"stop", "reset"} : timers[k] \in 0..MaxTimers
           /\ DOMAIN timers = {"stop", "reset"} /\ MaxTimers \in Nat
BY KioskPageAssumption DEF TypeOK

LEMMA ReloadsApart == ASSUME Reloads PROVE Apart'
<1>1. timers'["stop"] = 0 /\ timers'["reset"] = 0
  BY DEF Reloads
<1>2. QED
  BY <1>1, Fresh DEF Reloads, Apart, Outcome, Pinned, Looking

\* A recognition that is stopped where nobody interferes has no frame.
LEMMA StopsApart ==
    ASSUME TypeOK, Apart, frame = Null, camera # "starting",
           NEW outcome, NEW running,
           running["stop"] <= timers["stop"],
           running["reset"] = timers["reset"],
           running["stop"] \in Nat,
           Stops(outcome, running)
    PROVE  Apart'
<1>1. CASE refresh
  BY <1>1, ReloadsApart DEF Stops
<1>2. CASE ~refresh
  <2>1. /\ camera' = "off" /\ frame' = Null /\ proof' = NoProof
        /\ pin' = pin /\ timers' = running
    BY <1>2 DEF Stops, StopWithout, CameraAfterSession, FrameCut, TypeOK
  <2>2. Outcome' => Outcome
    BY <2>1, TimersNat DEF Outcome
  <2>3. Pinned' <=> Pinned
    BY <2>1 DEF Pinned
  <2>4. QED
    BY <2>1, <2>2, <2>3, Fresh DEF Apart, Looking
<1>3. QED
  BY <1>1, <1>2

LEMMA EndApart ==
    ASSUME Apart, NEW next, next.stale = {}, FrameEnds(next)
    PROVE  Apart'
BY DEF Apart, FrameEnds, Outcome, Pinned, Looking

LEMMA ProvesApart ==
    ASSUME TypeOK, Apart, Looking, NEW person \in People, NEW pose
    PROVE  Proves(person, pose).stale = {}
<1>1. proof.stale = {} /\ ~frame.cut /\ proof \in Proof
  BY DEF Apart, TypeOK
<1>2. CASE frame.step = "verified"
  BY <1>1, <1>2, Unmatches DEF Proves, Kept
<1>3. CASE frame.step # "verified"
  BY <1>1, <1>3, FrameParts, Sees, Misses DEF Proves
<1>4. QED
  BY <1>2, <1>3

LEMMA RegimeStays == [Next]_vars => regime' = regime
BY DEF Next, vars, SyncReleases, SyncEnds, FacesLoaded, FacesRefused,
       AccessKey, Revoked, FrameStarts, FrameEmpty, FrameCrowded,
       FrameUnusable, FrameFails, FrameOfAnother, FrameProves,
       FrameUnmatched, FrameMatches, FrameEnds, FacialAnswer, PinAnswer,
       MinutePasses, StartBegins, StartEnds, StartFails, Pauses,
       ResetTerminal, StopTimer, ResetTimer, Stops, Reloads, PinSubmit,
       DailyRefresh, PendingRefresh

LEMMA PageApart ==
    ASSUME TypeOK, Apart, regime = "calm", [Next]_vars
    PROVE  Apart'
<1>1. proof \in Proof /\ proof.stale = {} /\ Unmatched(proof).stale = {}
  BY Unmatches DEF TypeOK, Apart, Kept
<1>2. CASE \/ SyncReleases \/ FacesLoaded \/ AccessKey \/ Revoked
           \/ MinutePasses \/ UNCHANGED vars
  <2>1. UNCHANGED <<camera, status, proof, frame, timers, pin>>
    BY <1>2 DEF SyncReleases, FacesLoaded, AccessKey, Revoked, MinutePasses,
                vars
  <2>2. QED
    BY <2>1 DEF Apart, Outcome, Pinned, Looking, Sends
<1>3. CASE SyncEnds \/ FacesRefused
  <2>1. /\ UNCHANGED <<status, frame, timers, pin>>
        /\ camera' = camera \/ camera' = "off"
        /\ proof' = proof \/ proof' = Unmatched(proof)
    BY <1>3 DEF SyncEnds, FacesRefused, CameraAfterSession, Unmatched
  <2>2. proof'.stale = {}
    BY <1>1, <2>1
  <2>3. QED
    BY <2>1, <2>2 DEF Apart, Outcome, Pinned, Looking, Sends
<1>4. CASE FrameStarts
  <2>1. /\ camera = "on" /\ status = "idle"
        /\ frame' = [at |-> "look", step |-> proof.step, cut |-> FALSE]
        /\ UNCHANGED <<camera, status, proof, timers, pin>>
    BY <1>4 DEF FrameStarts
  <2>2. ~Outcome /\ ~Pinned
    BY <2>1 DEF Apart
  <2>3. ~frame'.cut
    BY <2>1
  <2>4. QED
    BY <2>1, <2>2, <2>3 DEF Apart, Outcome, Pinned
<1>5. CASE FrameEmpty
  <2>1. \/ proof.missing + 1 >= MissingFrames
        \/ proof.missing + 1 \in 0..(MissingFrames - 1)
    BY <1>1, ProofParts, KioskPageAssumption
  <2>2. \A k \in 0..(MissingFrames - 1) :
          [Unmatched(proof) EXCEPT !.missing = k].stale = {}
    BY <1>1, Unmatches DEF Kept
  <2>3. Unmatched(proof).missing = proof.missing
    BY <1>1 DEF Unmatched, Proof
  <2>4. QED
    BY <1>1, <1>5, <2>1, <2>2, <2>3, Fresh, EndApart DEF FrameEmpty
<1>6. CASE FrameCrowded \/ FrameFails
  BY <1>1, <1>6, Fresh, EndApart DEF FrameCrowded, FrameFails
<1>7. CASE FrameUnusable
  <2>1. 0 \in 0..(MissingFrames - 1)
    BY KioskPageAssumption
  <2>2. [Unmatched(proof) EXCEPT !.missing = 0].stale = {}
    BY <1>1, <2>1, Unmatches DEF Kept
  <2>3. QED
    BY <1>7, <2>2, EndApart DEF FrameUnusable
<1>8. ASSUME NEW person \in People, FrameOfAnother(person) PROVE Apart'
  BY <1>8, Fresh, EndApart DEF FrameOfAnother
<1>9. ASSUME NEW person \in People, NEW pose \in Poses,
             FrameProves(person, pose) \/ FrameUnmatched(person, pose)
      PROVE  Apart'
  <2> DEFINE next == Proves(person, pose)
  <2>1. Looking
    BY <1>9 DEF FrameProves, FrameUnmatched
  <2>2. next \in Proof /\ next.stale = {}
    BY <2>1, ProvesType, ProvesApart
  <2>3. Unmatched(next).stale = {}
    BY <2>2, Unmatches DEF Kept
  <2>4. QED
    BY <1>9, <2>2, <2>3, EndApart DEF FrameProves, FrameUnmatched
<1>10. ASSUME NEW person \in People, NEW near \in BOOLEAN,
              FrameMatches(person, near)
       PROVE  Apart'
  <2> DEFINE next == Proves(person, "front")
  <2>1. Looking /\ next \in Proof /\ next.stale = {}
    BY <1>10, ProvesType, ProvesApart DEF FrameMatches
  <2>2. PICK n : proof' = [next EXCEPT !.who = person, !.count = n]
    BY <1>10 DEF FrameMatches
  <2> HIDE DEF next
  <2>3. proof'.stale = {}
    BY <2>1, <2>2 DEF Proof
  <2>4. ~Looking' /\ UNCHANGED <<camera, status, timers, pin>>
    BY <1>10 DEF FrameMatches, Looking, Sends
  <2>5. ~Outcome /\ ~Pinned /\ camera # "starting"
    BY <2>1 DEF Apart, Looking
  <2>6. QED
    BY <2>3, <2>4, <2>5 DEF Apart, Outcome, Pinned
<1>11. ASSUME NEW ok \in BOOLEAN, FacialAnswer(ok) PROVE Apart'
  <2>1. /\ frame # Null /\ frame' = Null /\ status' = "facial"
        /\ proof' = Unmatched(proof) /\ UNCHANGED <<camera, pin>>
        /\ timers' = [timers EXCEPT !["stop"] = @ + 1]
    BY <1>11 DEF FacialAnswer, TimerStarts, Sends
  <2>2. ~Pinned /\ camera # "starting"
    BY <2>1 DEF Apart
  <2>3. timers'["reset"] = timers["reset"]
    BY <2>1
  <2>4. ~Pinned'
    BY <2>1, <2>2, <2>3 DEF Pinned
  <2>5. camera \in {"off", "on"}
    BY <2>2 DEF TypeOK
  <2>6. QED
    BY <1>1, <2>1, <2>4, <2>5 DEF Apart, Looking
<1>12. ASSUME NEW ok \in BOOLEAN, PinAnswer(ok) PROVE Apart'
  <2>1. /\ camera = "off" /\ frame = Null /\ ~Outcome
        /\ UNCHANGED <<camera, proof, frame>>
    BY <1>12 DEF PinAnswer, Apart, Pinned
  <2>2. timers'["stop"] = timers["stop"]
    <3>1. \/ timers' = timers
          \/ timers' = [timers EXCEPT !["reset"] = @ + 1]
      BY <1>12 DEF PinAnswer, TimerStarts
    <3>2. QED
      BY <3>1, TimersNat
  <2>3. ~Outcome'
    BY <2>1, <2>2 DEF Outcome
  <2>4. QED
    BY <1>1, <2>1, <2>3 DEF Apart, Looking
<1>13. CASE StartBegins
  <2>1. /\ frame = Null /\ ~pin
        /\ timers["stop"] = 0 /\ timers["reset"] = 0
    BY <1>13, TimersNat DEF StartBegins, AtRest
  <2>2. QED
    BY <1>1, <1>13, <2>1, TimersNat
       DEF StartBegins, Apart, Outcome, Pinned, Looking
<1>14. CASE StartEnds
  <2>1. frame = Null /\ ~Outcome /\ ~Pinned
    BY <1>14 DEF StartEnds, Apart
  <2>2. QED
    BY <1>14, <2>1, Fresh
       DEF StartEnds, FrameCut, Apart, Outcome, Pinned, Looking
<1>15. CASE StartFails
  BY <1>15 DEF StartFails, Apart, Outcome, Pinned, Looking, Sends
<1>16. CASE Pauses \/ ResetTerminal
  <2>1. frame = Null /\ camera # "starting"
    BY <1>16 DEF Pauses, ResetTerminal, Toggles, Undisturbed
  <2>2. PICK outcome : Stops(outcome, timers)
    BY <1>16 DEF Pauses, ResetTerminal
  <2>3. QED
    BY <2>1, <2>2, StopsApart, TimersNat
<1>17. CASE StopTimer
  <2> DEFINE running == [timers EXCEPT !["stop"] = @ - 1]
  <2>1. Outcome /\ Stops("idle", running)
    BY <1>17 DEF StopTimer, Outcome
  <2>2. frame = Null /\ camera # "starting"
    BY <2>1 DEF Apart
  <2>3. /\ running["stop"] \in Nat /\ running["stop"] <= timers["stop"]
        /\ running["reset"] = timers["reset"]
    BY <2>1, TimersNat DEF Outcome
  <2> HIDE DEF running
  <2>4. QED
    BY <2>1, <2>2, <2>3, StopsApart
<1>18. CASE ResetTimer
  <2>1. Pinned /\ camera = "off" /\ frame = Null /\ ~Outcome
    BY <1>18 DEF ResetTimer, Apart, Pinned
  <2>2. timers'["stop"] = timers["stop"]
    BY <1>18 DEF ResetTimer
  <2>3. ~Outcome'
    BY <2>1, <2>2 DEF Outcome
  <2>4. QED
    BY <1>1, <1>18, <2>1, <2>3 DEF ResetTimer, Apart, Looking
<1>19. CASE PinSubmit
  <2>1. /\ camera = "off" /\ frame = Null
        /\ timers["stop"] = 0 /\ timers["reset"] = 0
    BY <1>19, TimersNat DEF PinSubmit, AtRest
  <2>2. QED
    BY <1>1, <1>19, <2>1 DEF PinSubmit, Apart, Outcome, Looking
<1>20. CASE DailyRefresh
  <2>1. CASE ~Occupied /\ Reloads
    BY <2>1, ReloadsApart
  <2>2. CASE ~(~Occupied /\ Reloads)
    BY <1>20, <2>2 DEF DailyRefresh, Apart, Outcome, Pinned, Looking, Sends
  <2>3. QED
    BY <2>1, <2>2
<1>21. CASE PendingRefresh
  BY <1>21, ReloadsApart DEF PendingRefresh
<1>22. QED
  BY <1>2, <1>3, <1>4, <1>5, <1>6, <1>7, <1>8, <1>9, <1>10, <1>11, <1>12,
     <1>13, <1>14, <1>15, <1>16, <1>17, <1>18, <1>19, <1>20, <1>21 DEF Next

LEMMA PageCalm == TypeOK /\ Calm /\ [Next]_vars => Calm'
BY RegimeStays, PageApart DEF Calm

LEMMA PageStarts == Init => PageInv
<1> SUFFICES ASSUME Init PROVE PageInv
  OBVIOUS
<1>1. TypeOK
  BY PageStartsTyped
<1>2. Shown /\ FrameOfProof
  BY Fresh DEF Init, Shown, FrameOfProof, Looking
<1>3. Calm
  BY Fresh DEF Init, Calm, Apart, Outcome, Pinned, Looking
<1>4. QED
  BY <1>1, <1>2, <1>3 DEF PageInv

LEMMA PageKept == PageInv /\ [Next]_vars => PageInv'
BY PageTyped, PageEvidence, PageCalm DEF PageInv, Evidence

-----------------------------------------------------------------------------
\* A frame that sends somebody completed the last movement or was taken after
\* it, of the person who made the first one.
LEMMA SendsProven ==
    ASSUME TypeOK, Evidence, regime = "calm" => Apart, [Next]_vars,
           ~Sends, Sends'
    PROVE  Proven(frame.who)'
<1>1. PICK person \in People, near \in BOOLEAN : FrameMatches(person, near)
  <2>1. CASE \/ SyncReleases \/ SyncEnds \/ FacesLoaded \/ FacesRefused
             \/ AccessKey \/ Revoked \/ MinutePasses \/ StartBegins
             \/ StartFails \/ ResetTimer \/ PinSubmit \/ UNCHANGED vars
             \/ \E ok \in BOOLEAN : PinAnswer(ok)
    <3>1. frame' = frame
      BY <2>1 DEF SyncReleases, SyncEnds, FacesLoaded, FacesRefused,
                  AccessKey, Revoked, MinutePasses, StartBegins, StartFails,
                  ResetTimer, PinSubmit, PinAnswer, vars
    <3>2. QED
      BY <3>1 DEF Sends
  <2>2. ~FrameStarts /\ ~FrameCut /\ \A next : ~FrameEnds(next)
    BY DEF FrameStarts, FrameCut, FrameEnds, Sends
  <2>3. ~Reloads /\ \A ok \in BOOLEAN : ~FacialAnswer(ok)
    BY DEF Reloads, FacialAnswer, Sends
  <2>4. \A outcome, running : ~Stops(outcome, running)
    BY <2>2, <2>3 DEF Stops, StopWithout
  <2>5. ~(StartEnds \/ Pauses \/ ResetTerminal \/ StopTimer)
    BY <2>2, <2>4 DEF StartEnds, Pauses, ResetTerminal, StopTimer
  <2>6. ~DailyRefresh /\ ~PendingRefresh
    <3>1. DailyRefresh => Reloads \/ frame' = frame
      BY DEF DailyRefresh
    <3>2. frame' # frame
      BY DEF Sends
    <3>3. QED
      BY <2>3, <3>1, <3>2 DEF PendingRefresh
  <2>7. ~(FrameEmpty \/ FrameCrowded \/ FrameUnusable \/ FrameFails)
    BY <2>2 DEF FrameEmpty, FrameCrowded, FrameUnusable, FrameFails
  <2>8. \A person \in People :
          /\ ~FrameOfAnother(person)
          /\ \A pose \in Poses : ~FrameProves(person, pose)
                                 /\ ~FrameUnmatched(person, pose)
    BY <2>2 DEF FrameOfAnother, FrameProves, FrameUnmatched
  <2>9. QED
    BY <2>1, <2>2, <2>3, <2>5, <2>6, <2>7, <2>8 DEF Next
<1> DEFINE next == Proves(person, "front")
           n == IF proof.who # person THEN 1
                ELSE IF proof.count > MatchFrames THEN proof.count
                ELSE proof.count + 1
<1>2. /\ Looking /\ ~Another(person) /\ Compares(next)
      /\ proof' = [next EXCEPT !.who = person, !.count = n]
      /\ frame' = IF n >= Required(near) /\ last # person
                    THEN [at |-> "send", who |-> person] ELSE Null
  BY <1>1 DEF FrameMatches
<1>3. frame'.who = person /\ n >= Required(near)
  BY <1>2 DEF Sends
<1>4. /\ proof \in Proof /\ ShownBy(proof) /\ FrameOfProof
      /\ next \in Proof /\ ShownBy(next)
      /\ next.who = proof.who /\ next.count = proof.count
  BY <1>2, ProvesType, ProvesShows DEF TypeOK, Evidence, Shown
<1>5. /\ proof.count \in Nat
      /\ MatchFrames \in Nat \ {0, 1} /\ LivenessFrames \in Nat \ {0, 1}
  BY <1>4, ProofParts, KioskPageAssumption
<1>6. n \in Nat /\ n >= MatchFrames /\ n \in 0..(MatchFrames + 1)
  BY <1>3, <1>4, <1>5, ProofParts DEF Required
<1>7. ~frame.cut
  <2> SUFFICES ASSUME frame.cut PROVE FALSE
    OBVIOUS
  <2>1. proof.who = Null /\ proof.count = 0
        /\ \A m \in Movements : proof.evidence[m] = 0
    BY <1>2, <1>4, Fresh DEF FrameOfProof
  <2>2. n = 1
    BY <2>1, KioskPageAssumption
  <2>3. QED
    BY <1>5, <1>6, <2>2
<1>8. frame.step = proof.step /\ proof.step \in {"return", "verified"}
  BY <1>2, <1>4, <1>7 DEF FrameOfProof, Compares
<1>9. proof.anchor = person
  BY <1>2, <1>4, <1>8 DEF Another, ShownBy
<1>10. next.step = "verified" /\ next.anchor = person
  <2>1. CASE frame.step = "verified"
    <3>1. Kept(proof, next)
      BY <1>4, <2>1, Unmatches DEF Proves
    <3>2. QED
      BY <1>8, <1>9, <2>1, <3>1 DEF Kept
  <2>2. CASE frame.step = "return"
    <3>1. "return" \in Movements /\ Shows("return", "front")
      BY DEF Movements, Shows
    <3>2. next = Seen("return", person)
      BY <2>2, <3>1 DEF Proves
    <3>3. proof.evidence \in [Movements -> 0..LivenessFrames]
      BY <1>4, ProofParts
    <3>4. next.evidence["return"] = LivenessFrames
      BY <1>2, <2>2 DEF Compares
    <3>5. next.evidence = [proof.evidence EXCEPT !["return"]
                                              = Frames("return")]
      BY <1>2, <3>1, <3>2, Sees
    <3>6. Frames("return") = LivenessFrames
      BY <3>1, <3>3, <3>4, <3>5
    <3>7. QED
      BY <1>2, <1>9, <3>1, <3>2, <3>6, Sees DEF After
  <2>3. QED
    BY <1>8, <2>1, <2>2
<1>11. \A m \in Movements : next.evidence[m] = LivenessFrames
  BY <1>4, <1>10 DEF ShownBy, Movements
<1>12. regime = "calm" => next.stale = {}
  BY <1>2, ProvesApart
<1> HIDE DEF n, next
<1>13. Kept(next, proof') /\ proof'.who = person /\ proof'.count = n
  <2> DEFINE q == [next EXCEPT !.who = person, !.count = n]
  <2>1. Kept(next, q) /\ q.who = person /\ q.count = n
    <3>1. next \in Proof /\ n \in 0..(MatchFrames + 1) /\ person \in People
      BY <1>4, <1>6
    <3>2. QED
      BY <3>1 DEF Proof, Kept
  <2>2. proof' = q
    BY <1>2
  <2> HIDE DEF q
  <2>3. QED
    BY <2>1, <2>2
<1>14. regime' = regime
  BY RegimeStays
<1>15. QED
  BY <1>3, <1>5, <1>6, <1>10, <1>11, <1>12, <1>13, <1>14
     DEF Proven, Kept

LEMMA PageInvariant == Spec => []PageInv
BY PageStarts, PageKept, PTL DEF Spec

\* A person is registered only after a whole proof of life by that person,
\* recognised in as many frames as it takes.
THEOREM RegisteredAfterProof == Spec => ProvenBeforeSent
<1>1. PageInv /\ [Next]_vars => [~Sends /\ Sends' => Proven(frame.who)']_vars
  BY SendsProven DEF PageInv, Evidence, Calm
<1>2. QED
  BY <1>1, PageInvariant, PTL DEF Spec, ProvenBeforeSent

\* In the calm regime nothing but the answer ends a registration in flight.
LEMMA SendsStay ==
    ASSUME TypeOK, Apart, regime = "calm", [Next]_vars, Sends
    PROVE  Sends' \/ status' = "facial"
<1>1. frame # Null /\ ~Looking /\ Occupied /\ ~Outcome /\ camera # "starting"
  BY DEF Sends, Looking, Occupied, Apart
<1>2. CASE \/ SyncReleases \/ SyncEnds \/ FacesLoaded \/ FacesRefused
           \/ AccessKey \/ Revoked \/ MinutePasses \/ StartBegins
           \/ StartFails \/ ResetTimer \/ PinSubmit \/ UNCHANGED vars
           \/ DailyRefresh \/ \E ok \in BOOLEAN : PinAnswer(ok)
  <2>1. frame' = frame
    BY <1>1, <1>2 DEF SyncReleases, SyncEnds, FacesLoaded, FacesRefused,
                      AccessKey, Revoked, MinutePasses, StartBegins,
                      StartFails, ResetTimer, PinSubmit, DailyRefresh,
                      PinAnswer, vars
  <2>2. QED
    BY <2>1 DEF Sends
<1>3. CASE \E ok \in BOOLEAN : FacialAnswer(ok)
  BY <1>3 DEF FacialAnswer
<1>4. ~(StartEnds \/ StopTimer \/ Pauses \/ ResetTerminal \/ PendingRefresh)
  BY <1>1 DEF StartEnds, StopTimer, Outcome, Pauses, ResetTerminal, Toggles,
              Undisturbed, PendingRefresh
<1>5. ~FrameStarts /\ \A next : ~FrameEnds(next)
  BY <1>1 DEF FrameStarts, FrameEnds
<1>6. ~(FrameEmpty \/ FrameCrowded \/ FrameUnusable \/ FrameFails)
  BY <1>5 DEF FrameEmpty, FrameCrowded, FrameUnusable, FrameFails
<1>7. \A person \in People :
        /\ ~FrameOfAnother(person)
        /\ \A pose \in Poses : ~FrameProves(person, pose)
                               /\ ~FrameUnmatched(person, pose)
        /\ \A near \in BOOLEAN : ~FrameMatches(person, near)
  BY <1>1, <1>5 DEF FrameOfAnother, FrameProves, FrameUnmatched, FrameMatches
<1>8. QED
  BY <1>2, <1>3, <1>4, <1>5, <1>6, <1>7 DEF Next

\* A registration that was sent is answered on the screen.
THEOREM RegistrationAnswered == Spec => SentIsAnswered
<1>1. PageInv /\ [Next]_vars
        => [Sends /\ regime = "calm" => Sends' \/ status' = "facial"]_vars
  BY SendsStay DEF PageInv, Calm
<1>2. QED
  BY <1>1, PageInvariant, PTL DEF Spec, SentIsAnswered

=============================================================================
