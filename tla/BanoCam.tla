------------------------------- MODULE BanoCam -------------------------------
(***************************************************************************)
(* The capture of an image (src/src/base/bano_cam.c) from a camera whose   *)
(* driver streams into memory it shares with the base: bano_cam_capture    *)
(* against a driver that fills the buffers it was given, in their order,   *)
(* whenever it likes, that may hang at any time, and that may refuse to    *)
(* start the stream again.                                                 *)
(*                                                                         *)
(* The driver is external, known from the ioctls the code makes.  Cameras  *)
(* that cannot stream, and the dummy one, are left out; so are the pixels: *)
(* of an image only its age matters.                                       *)
(***************************************************************************)
EXTENDS Integers, Sequences, SequencesExt

CONSTANT FbCount    \* BANO_CAM_FB_COUNT

ASSUME FbCountOK == FbCount \in Nat \ {0}

MaxBugs == 4    \* restarts after which capture_mmap_enabled gives up

Buffer == 0..(FbCount - 1)

(* A frame is new when it was taken after the capture was asked for.       *)
Frame == {"none", "old", "new"}

VARIABLES
  pc,         \* where capture_mmap_enabled is, "idle" when nothing captures
  cap_count, bug_count,
  fb_count,   \* buffers that are mapped
  err,        \* what the last capture returned
  image,      \* the image in cam->bmp
  streaming,  \* the driver streams
  incoming,   \* buffers the driver is to fill
  done,       \* buffers it has filled, and not given back
  mem         \* what each buffer holds

local == <<pc, cap_count, bug_count>>
driver == <<streaming, incoming, done, mem>>
camVars == <<local, fb_count, err, image, driver>>

CamTypeOK ==
  /\ pc \in {"idle", "select", "dqbuf"}
  /\ cap_count \in 0..1 /\ bug_count \in 0..(MaxBugs - 1)
  /\ fb_count \in 0..FbCount
  /\ err \in {"success", "failure"}
  /\ image \in Frame
  /\ streaming \in BOOLEAN
  /\ incoming \in Seq(Buffer) /\ done \in Seq(Buffer)
  /\ mem \in [Buffer -> Frame]
-----------------------------------------------------------------------------
(* The driver fills the buffer that has waited longest.                    *)
Fill ==
  /\ streaming /\ incoming # <<>>
  /\ incoming' = Tail(incoming)
  /\ done' = Append(done, Head(incoming))
  /\ mem' = [mem EXCEPT ![Head(incoming)] = IF pc = "idle" THEN "old" ELSE "new"]
  /\ UNCHANGED <<local, fb_count, err, image, streaming>>

Buffers(n) == [j \in 1..n |-> j - 1]

(* start_mmap_enabled, on a driver that holds nothing.  The driver chooses *)
(* how many buffers there are; too many are refused.                       *)
StartStream ==
  /\ \E n \in 1..FbCount :
       fb_count' = n /\ incoming' = Buffers(n)
  /\ streaming' = TRUE

(* VIDIOC_REQBUFS, the mapping of a buffer, VIDIOC_QBUF or VIDIOC_STREAMON *)
(* fails: what was done before is not undone.                              *)
StartFails ==
  /\ \E n \in 0..FbCount, q \in 0..FbCount :
       n - 1 <= q /\ q <= n /\ fb_count' = n /\ incoming' = Buffers(q)
  /\ streaming' = FALSE

RestartKept ==    \* mutant: the stream is not turned off, nor emptied
  /\ fb_count' = 0
  /\ UNCHANGED driver

(* stop_mmap_enabled: VIDIOC_STREAMOFF takes every buffer from the driver. *)
(* Then start_mmap_enabled, whose failure is not looked at.                *)
Restart ==
  /\ StartStream \/ StartFails
  /\ done' = <<>>
  /\ mem' = [b \in Buffer |-> "none"]

Fail == pc' = "idle" /\ err' = "failure" /\ UNCHANGED <<cap_count, bug_count>>
-----------------------------------------------------------------------------
CaptureFirst ==    \* mutant: the first frame is the one that is kept
  /\ pc = "idle"
  /\ pc' = "select" /\ cap_count' = 1 /\ bug_count' = 0
  /\ mem' = [b \in Buffer |-> IF mem[b] = "new" THEN "old" ELSE mem[b]]
  /\ image' = IF image = "new" THEN "old" ELSE image
  /\ UNCHANGED <<fb_count, err, streaming, incoming, done>>

(* bano_cam_capture is called: what was taken until now is old.            *)
Capture ==
  /\ pc = "idle"
  /\ pc' = "select" /\ cap_count' = 0 /\ bug_count' = 0
  /\ mem' = [b \in Buffer |-> IF mem[b] = "new" THEN "old" ELSE mem[b]]
  /\ image' = IF image = "new" THEN "old" ELSE image
  /\ UNCHANGED <<fb_count, err, streaming, incoming, done>>

(* select finds a frame, or the error that DQBUF is going to return.       *)
Ready ==
  /\ pc = "select"
  /\ done # <<>> \/ ~ streaming
  /\ pc' = "dqbuf"
  /\ UNCHANGED <<cap_count, bug_count, fb_count, err, image, driver>>

TimeoutUncounted ==    \* mutant: bug_count is reset by each restart
  /\ pc = "select"
  /\ Restart
  /\ UNCHANGED <<local, err, image>>

(* select times out while the driver hangs, or is interrupted by SIGINT:   *)
(* the stream is restarted, the fourth time in vain.                       *)
Timeout ==
  /\ pc = "select"
  /\ Restart
  /\ IF bug_count + 1 = MaxBugs
       THEN Fail
       ELSE bug_count' = bug_count + 1 /\ UNCHANGED <<pc, cap_count, err>>
  /\ UNCHANGED image

(* VIDIOC_DQBUF fails: there is no stream, or the driver has an error.     *)
DequeueFails ==
  /\ pc = "dqbuf"
  /\ Fail
  /\ UNCHANGED <<fb_count, image, driver>>

(* The first frame: its buffer is queued again, which may go wrong without *)
(* being noticed, and another one is awaited.                              *)
DequeueFirst ==
  /\ pc = "dqbuf" /\ done # <<>>
  /\ cap_count = 0
  /\ cap_count' = 1 /\ pc' = "select" /\ bug_count' = 0
  /\ done' = Tail(done)
  /\ incoming' \in {incoming, Append(incoming, Head(done))}
  /\ UNCHANGED <<fb_count, err, image, streaming, mem>>

(* The second frame is the image.  Each buffer is mapped at offset 0, and  *)
(* so shows what the first one holds.  The buffer is queued again.         *)
DequeueSecond ==
  /\ pc = "dqbuf" /\ done # <<>>
  /\ cap_count = 1
  /\ image' = mem[0]
  /\ done' = Tail(done)
  /\ \/ incoming' = Append(incoming, Head(done)) /\ err' = "success"
     \/ UNCHANGED incoming /\ err' = "failure"
  /\ pc' = "idle"
  /\ UNCHANGED <<cap_count, bug_count, fb_count, streaming, mem>>
-----------------------------------------------------------------------------
(* bano_cam_open has started the stream.                                   *)
CamInit ==
  /\ pc = "idle" /\ cap_count = 0 /\ bug_count = 0
  /\ fb_count \in 1..FbCount
  /\ err = "success" /\ image = "none"
  /\ streaming = TRUE
  /\ incoming = Buffers(fb_count) /\ done = <<>>
  /\ mem = [b \in Buffer |-> "none"]

Step == Ready \/ Timeout \/ DequeueFails \/ DequeueFirst \/ DequeueSecond

CamNext == Fill \/ Capture \/ Step

CamSpec == CamInit /\ [][CamNext]_camVars

(* The program runs; select returns in the end, for it has a time limit.   *)
(* The driver may hang for good.                                           *)
CamFairSpec == CamSpec /\ WF_camVars(Step)
-----------------------------------------------------------------------------
(***************************************************************************)
(* What the driver holds is mapped, each buffer once, through restarts     *)
(* that go wrong half way: the frame that is dequeued can be read.  A      *)
(* buffer that is queued but not mapped would be read at MAP_FAILED.       *)
(***************************************************************************)
FramesMapped ==
  /\ IsInjective(incoming \o done)
  /\ \A b \in ToSet(incoming \o done) : b < fb_count

(***************************************************************************)
(* "we renqueue and recapture to get the actual current image",            *)
(* bano_cam.c:584: an image that is handed out was taken after it was      *)
(* asked for.  It is so when the driver has a single buffer, as the code   *)
(* asks it to.                                                             *)
(***************************************************************************)
ImageCurrent ==
  [][pc = "dqbuf" /\ pc' = "idle" /\ err' = "success" /\ fb_count = 1 =>
       image' = "new"]_camVars

(***************************************************************************)
(* A capture ends, even if the driver hangs again and again: the event     *)
(* loop waits for it.                                                      *)
(***************************************************************************)
CaptureEnds == pc = "select" ~> pc = "idle"
=============================================================================
