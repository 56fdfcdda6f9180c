---------------------------- MODULE ScanCapture -----------------------------
(***************************************************************************)
(* The scanner view (handleDecode in scanner.tsx) in front of projectors   *)
(* whose clocks differ from the phone's: it collects sub-frames until it   *)
(* has enough of one block, then signs a certificate, which takes a while  *)
(* (key storage, crypto) during which the user may stop the camera and     *)
(* start it again.  time is the phone's clock.                             *)
(***************************************************************************)
EXTENDS QrToken, FiniteSets

CONSTANTS Events,
          Offsets,          \* how far a projector's clock may be ahead
          MaxLag,           \* how old the frame on the screen may be
          MaxSigning,       \* how long key access and fingerprint may take
          CaptureStale,     \* captureStaleMs
          MaxTime, MaxCerts,\* bounds on the clock and on the certificates
          NoFrame

ASSUME ScanCaptureAssumption ==
    /\ Offsets \subseteq Int
    /\ MaxLag \in Nat /\ MaxSigning \in Nat /\ CaptureStale \in Nat
    /\ \A offset \in Offsets :
          /\ offset <= Tolerance * SubFramesPerBlock
          /\ MaxSigning + MaxLag - offset <= Tolerance * SubFramesPerBlock

VARIABLES time,
          ahead,            \* each projector's clock, less the phone's
          camera,           \* whether the camera is on
          frames,           \* subFramesRef: the frames collected
          block, event,     \* ... of this block of this event
          lastCapture,      \* when the last one was, 0 if none
          lastRaw,          \* the code decoded last
          inFlight, locked, \* scanInFlightRef, scanningLockedRef
          signing,          \* certificates being made, by their frames
          certs             \* the certificates enqueued

capture == <<frames, block, event, lastCapture, lastRaw>>
captureVars == <<time, ahead, camera, capture, inFlight, locked, signing, certs>>

CaptureInit ==
    /\ time \in 1 .. SubFramesPerBlock
    /\ ahead \in [Events -> Offsets]
    /\ camera = FALSE
    /\ frames = {} /\ block = -1 /\ event = NoFrame
    /\ lastCapture = 0 /\ lastRaw = NoFrame
    /\ inFlight = FALSE /\ locked = FALSE
    /\ signing = {} /\ certs = {}

(* resetCaptureState *)
Reset ==
    /\ frames' = {} /\ block' = -1 /\ event' = NoFrame
    /\ lastCapture' = 0 /\ lastRaw' = NoFrame

(* The scan took too long: the frames so far are dropped. *)
TookTooLong ==
    /\ lastCapture # 0 /\ time - lastCapture > CaptureStale
    /\ Cardinality(frames) \in 1 .. MinSubFrames - 1

IsOther_EventOnly(raw) == TookTooLong \/ event # raw.event

(* Frames of another block or another event start a new collection. *)
IsOther(raw) == TookTooLong \/ block # raw.block \/ event # raw.event

Collected(raw) == (IF IsOther(raw) THEN {} ELSE frames) \cup {raw}

Consecutive_NotChecked(set) == TRUE

(* The client's own check: in order, one or two apart. *)
Consecutive(set) ==
    \A f \in set :
        \/ \A g \in set : g.subFrame <= f.subFrame
        \/ \E g \in set : g.subFrame - f.subFrame \in 1 .. 2

Enough(set) == Cardinality(set) >= MinSubFrames

(* The frames, sorted: no two of them have the same sub-frame.             *)
InOrder(set) ==
    CHOOSE sorted \in [1 .. Cardinality(set) -> set] :
        \A i, j \in DOMAIN sorted : i < j => sorted[i].subFrame < sorted[j].subFrame

(* handleDecode of a frame that is on the screen. *)
Decode(raw) ==
    /\ camera /\ ~locked /\ ~inFlight
    /\ raw # lastRaw
    /\ IF ~IsOther(raw) /\ \E f \in frames : f.subFrame = raw.subFrame
       THEN /\ lastRaw' = raw
            /\ UNCHANGED <<frames, block, event, lastCapture, inFlight, signing>>
       ELSE IF Enough(Collected(raw)) /\ ~Consecutive(Collected(raw))
       THEN Reset /\ UNCHANGED <<inFlight, signing>>
       ELSE /\ frames' = Collected(raw)
            /\ block' = raw.block /\ event' = raw.event
            /\ lastCapture' = time
            /\ lastRaw' = IF IsOther(raw) THEN NoFrame ELSE raw
            /\ IF Enough(Collected(raw))
               THEN /\ inFlight' = TRUE
                    /\ signing' = signing \cup {[subFrames |-> InOrder(Collected(raw)),
                                                 event |-> raw.event, since |-> time]}
               ELSE UNCHANGED <<inFlight, signing>>
    /\ UNCHANGED <<time, ahead, camera, locked, certs>>

(* The projector of e shows the frame of its clock, or one of a little     *)
(* while ago.                                                              *)
See(e) ==
    \E lag \in 0 .. MaxLag :
        /\ time + ahead[e] - lag >= 0
        /\ Decode(QrPayload(e, time + ahead[e] - lag))

(* createCertificate: the token is the last frame's, the time is now. *)
Certificate(s) ==
    [event |-> s.event, token |-> s.subFrames[Len(s.subFrames)], scannedAt |-> time,
     subFrames |-> s.subFrames]

(* The certificate is enqueued; scanning is locked for a while. *)
EnqueueCertificate(s) ==
    /\ Cardinality(certs) < MaxCerts
    /\ certs' = certs \cup {Certificate(s)}
    /\ signing' = signing \ {s}
    /\ inFlight' = FALSE /\ locked' = TRUE
    /\ Reset
    /\ UNCHANGED <<time, ahead, camera>>

(* No key or no fingerprint. *)
SigningFails(s) ==
    /\ signing' = signing \ {s}
    /\ inFlight' = FALSE
    /\ Reset
    /\ UNCHANGED <<time, ahead, camera, locked, certs>>

(* The timeout that ends the lock, set by this scan or an earlier one. *)
Unlock ==
    /\ locked
    /\ locked' = FALSE
    /\ UNCHANGED <<time, ahead, camera, capture, inFlight, signing, certs>>

StartCamera ==
    /\ ~camera
    /\ camera' = TRUE
    /\ UNCHANGED <<time, ahead, capture, inFlight, locked, signing, certs>>

(* stopCamera does not stop a certificate that is being signed. *)
StopCamera ==
    /\ camera
    /\ camera' = FALSE
    /\ inFlight' = FALSE /\ locked' = FALSE
    /\ Reset
    /\ UNCHANGED <<time, ahead, signing, certs>>

Tick ==
    /\ time < MaxTime
    /\ \A s \in signing : time - s.since < MaxSigning
    /\ time' = time + 1
    /\ UNCHANGED <<ahead, camera, capture, inFlight, locked, signing, certs>>

CaptureNext ==
    \/ \E e \in Events : See(e)
    \/ \E s \in signing : EnqueueCertificate(s) \/ SigningFails(s)
    \/ Unlock \/ StartCamera \/ StopCamera \/ Tick

CaptureSpec == CaptureInit /\ [][CaptureNext]_captureVars

-----------------------------------------------------------------------------
(* Properties. *)

Frames == [event : Events, block : Int, subFrame : 0 .. SubFramesPerBlock - 1,
           hmac : Events \X Events \X Int \X (0 .. SubFramesPerBlock - 1)]

CaptureTypeOK ==
    /\ time \in Nat /\ ahead \in [Events -> Int]
    /\ camera \in BOOLEAN /\ inFlight \in BOOLEAN /\ locked \in BOOLEAN
    /\ frames \subseteq Frames /\ lastRaw \in Frames \cup {NoFrame}
    /\ block \in Int /\ event \in Events \cup {NoFrame} /\ lastCapture \in Nat
    /\ \A s \in signing : \A i \in DOMAIN s.subFrames : s.subFrames[i] \in Frames
    /\ \A f \in frames : f.block = block /\ f.event = event
    /\ frames # {} => lastCapture # 0

(* Whatever the camera catches of whichever screens, and whenever it is    *)
(* stopped, a certificate the scanner makes passes the server's check of   *)
(* its token and its sub-frames, provided that the projector's clock is    *)
(* off and key access slow by less than the token's tolerance.             *)
ScansAreAccepted == \A cert \in certs : Genuine(cert)
=============================================================================
