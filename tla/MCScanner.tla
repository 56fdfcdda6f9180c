------------------------------ MODULE MCScanner ------------------------------
(***************************************************************************)
(* The scanner for TLC: what it signs, and what becomes of it.  A          *)
(* behaviour is of one of the two parts, which share the event.            *)
(*                                                                         *)
(* The camera (ScanCapture): two projectors, blocks of five sub-frames,    *)
(* clocks that are two behind the phone's or three ahead of it.  And the   *)
(* server's check of sub-frames (QrToken) by itself, on every array of up  *)
(* to MaxFrames frames that a certificate could carry: frames of the       *)
(* token's block and of the one before it, one more on either side, and    *)
(* one of another event, in any order and with repetitions.  An array is   *)
(* built frame by frame, before the camera is first started.               *)
(*                                                                         *)
(* The queue with the server (Delivery): two scans of one event.           *)
(***************************************************************************)
EXTENDS ScanCapture, Delivery, TLC

CONSTANTS e1, e2, i1, i2, MaxFrames

VARIABLES part, array

MCOffsets == {-2, 3}

ThisEvent == e1

OtherEvent == e2

Block == 2

MCEventOf == [i \in Items |-> ThisEvent]

Shown ==
    {QrPayload(ThisEvent, t) : t \in SubFramesPerBlock - 1 .. 3 * SubFramesPerBlock}
        \cup {QrPayload(OtherEvent, Block * SubFramesPerBlock)}

Add(f) ==
    /\ time = 1 /\ ~ camera /\ certs = {} /\ signing = {}
    /\ ahead = [e \in Events |-> 3]
    /\ Len(array) < MaxFrames
    /\ array' = Append(array, f)
    /\ UNCHANGED captureVars

MCInit ==
    /\ CaptureInit /\ DeliveryInit /\ array = << >>
    /\ \/ part = "camera"
       \/ part = "queue" /\ time = 1 /\ ahead = [e \in Events |-> 3]

CameraNext ==
    /\ \/ array = << >> /\ CaptureNext /\ UNCHANGED array
       \/ \E f \in Shown : Add(f)
    /\ UNCHANGED deliveryVars

Entered == \E i \in Items : Present(i) /\ ledger[Pair(i)].source = "override"

Sending == late # {} \/ \E d \in Drains : replies[d] \notin {"none", "lost"}

(* Of these at most one: the event goes (as if the account did), the key   *)
(* is revoked, an organizer enters the student (who then is not timed      *)
(* out).  At most one scan has a request nobody waits for; and the key is  *)
(* registered twice at once only while nothing else goes on.               *)
OneAtATime ==
    /\ Student \notin gone
    /\ gone # {} => deviceKey # "revoked" /\ ~Entered
    /\ Entered => deviceKey # "revoked" /\ \A i \in Items : ~ledger[Pair(i)].timedOut
    /\ Cardinality(late) <= 1
    /\ gone # {} \/ Entered \/ Sending =>
           \E i \in Items : \A j \in Items \ {i} : calls[j] = "none"

(* i1 is scanned before i2. *)
QueueNext ==
    /\ DeliveryNext /\ (status'[i1] = "new" => status'[i2] = "new")
    /\ OneAtATime'
    /\ UNCHANGED <<captureVars, array>>

MCNext ==
    /\ \/ part = "camera" /\ CameraNext
       \/ part = "queue" /\ QueueNext
    /\ UNCHANGED part

MCSpec == MCInit /\ [][MCNext]_<<captureVars, deliveryVars, array, part>>

IsAccepted == Live(array, ThisEvent, ThisEvent, Block)

(* What the code does: annotate each frame with the block whose code it    *)
(* has, sort, and compare neighbours.                                      *)
SortedCheck ==
    LET ok     == \A i \in DOMAIN array : Known(array[i], ThisEvent, ThisEvent, Block)
        places == SortSeq([i \in DOMAIN array |->
                              Place(array[i], ThisEvent, ThisEvent, Block)],
                          LAMBDA a, b : a < b)
    IN  /\ Len(array) >= MinSubFrames
        /\ ok /\ \A i \in 2 .. Len(array) : places[i] - places[i - 1] \in 1 .. 2

(* The set definition of a run accepts what the sorting code accepts,      *)
(* repetitions and block boundaries included.                              *)
AcceptsAsSorted == IsAccepted <=> SortedCheck
=============================================================================
