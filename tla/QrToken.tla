------------------------------- MODULE QrToken -------------------------------
(***************************************************************************)
(* The rotating QR token (src/lib/qr-token.ts): what the projector shows,  *)
(* and what the server requires of the token and of the sub-frames of a    *)
(* certificate.  The unit of time is one sub-frame (SUB_FRAME_MS); a code  *)
(* stands for what it was computed from, and equals no other.              *)
(***************************************************************************)
EXTENDS Integers, Sequences

CONSTANTS SubFramesPerBlock,  \* 30 in the code
          MinSubFrames,       \* 3
          Tolerance           \* blocks a token may be off: 1

ASSUME QrTokenAssumption ==
    /\ SubFramesPerBlock \in Nat \ {0}
    /\ MinSubFrames \in Nat \ {0}
    /\ Tolerance \in Nat

BlockOf(t) == t \div SubFramesPerBlock

SubFrameOf(t) == t % SubFramesPerBlock

(* computeSubFrameHmac: secret is the event whose secret is the key. *)
SubFrameHmac(secret, event, block, subFrame) == <<secret, event, block, subFrame>>

(* generateQrPayload *)
QrPayload(event, t) ==
    LET block    == BlockOf(t)
        subFrame == SubFrameOf(t)
    IN  [event |-> event, block |-> block, subFrame |-> subFrame,
         hmac |-> SubFrameHmac(event, event, block, subFrame)]

(* validateQrPayload, of a token with a sub-frame, at the time of the scan. *)
ValidPayload(token, secret, t) ==
    /\ token.block - BlockOf(t) \in -Tolerance .. Tolerance
    /\ token.subFrame \in 0 .. SubFramesPerBlock - 1
    /\ token.hmac = SubFrameHmac(secret, token.event, token.block, token.subFrame)

(* The instant a sub-frame was shown, if its code is one of this block or  *)
(* of the one before: its place in the sequence of all sub-frames.         *)
ShownIn(block, frame, secret, event) ==
    frame.hmac = SubFrameHmac(secret, event, block, frame.subFrame)

Known(frame, secret, event, block) ==
    /\ frame.subFrame \in 0 .. SubFramesPerBlock - 1
    /\ ShownIn(block, frame, secret, event) \/ ShownIn(block - 1, frame, secret, event)

Place(frame, secret, event, block) ==
    (IF ShownIn(block, frame, secret, event) THEN block ELSE block - 1)
        * SubFramesPerBlock + frame.subFrame

IsRun_AnyGap(frames, place) ==
    \A i, j \in DOMAIN frames : i # j => place[i] # place[j]

(* In order of their places, each is one or two after the one before. *)
IsRun(frames, place) ==
    /\ \A i, j \in DOMAIN frames : i # j => place[i] # place[j]
    /\ \A i \in DOMAIN frames :
          \/ \A j \in DOMAIN frames : place[j] <= place[i]
          \/ \E j \in DOMAIN frames : place[j] - place[i] \in 1 .. 2

(* verifySubFrameLiveness *)
Live(frames, secret, event, block) ==
    /\ Len(frames) >= MinSubFrames
    /\ \A i \in DOMAIN frames : Known(frames[i], secret, event, block)
    /\ IsRun(frames, [i \in DOMAIN frames |-> Place(frames[i], secret, event, block)])

(* The checks of POST /api/attendance on a certificate's token: valid when *)
(* scanned, of this event, and seen alive.                                 *)
Genuine(cert) ==
    /\ ValidPayload(cert.token, cert.event, cert.scannedAt)
    /\ cert.token.event = cert.event
    /\ Live(cert.subFrames, cert.event, cert.event, cert.token.block)

-----------------------------------------------------------------------------
(* What Live is for: all frames are of this event and of the token's block *)
(* or the one before, and n of them were shown over at least n - 1 and at  *)
(* most 2(n - 1) sub-frame times; no still picture passes.                 *)
Instant(frame) == frame.block * SubFramesPerBlock + frame.subFrame

ViewedFor(frames, event, block) ==
    LET instants == {Instant(frames[i]) : i \in DOMAIN frames}
        steps    == Len(frames) - 1
    IN  /\ \A i \in DOMAIN frames :
              frames[i].event = event /\ frames[i].block \in {block - 1, block}
        /\ \E first, last \in instants :
              /\ \A t \in instants : t \in first .. last
              /\ last - first \in steps .. 2 * steps
=============================================================================
