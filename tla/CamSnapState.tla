---------------------------- MODULE CamSnapState ----------------------------
(***************************************************************************)
(* The state of camsnap, of the capture ring and of an application that    *)
(* reads its files (CamSnap has the steps), and what the application is    *)
(* promised in every state.                                                *)
(***************************************************************************)
EXTENDS Integers, Sequences, FiniteSets

CONSTANTS
    NBUF,           \* capture buffers
    Period,         \* JPEG_PERIOD_MS, in frames
    Frames          \* what the camera sees: two pictures are enough to tell apart

Paths == {"cam_stats.json", "cam.jpg"}
Bufs  == 0..(NBUF - 1)

VARIABLES
    pc,             \* where main is
    owner,          \* [Bufs -> who has the buffer: "free", "driver", "done" or "camsnap"]
    b, frame,       \* the buffer dequeued last, and the frame in its memory
    since,          \* time since last_jpg, up to Period
    path, out,      \* the file being written and what goes into it
    stop, faults,
    file, tmp,      \* [Paths -> set of at most one content]: the files path and path.tmp
    reader          \* the application: what it opened ("old": a file that has lost its name)

-----------------------------------------------------------------------------
\* Every variable keeps its type.
SnapTypeOK ==
    /\ pc \in {"start", "loop", "dqbuf", "encode", "open", "write", "rename", "qbuf", "exited"}
    /\ owner \in [Bufs -> {"free", "driver", "done", "camsnap"}]
    /\ b \in Bufs /\ frame \in Frames /\ since \in 0..Period /\ path \in Paths /\ Len(out) <= 2
    /\ \A p \in Paths : Cardinality(file[p]) <= 1 /\ Cardinality(tmp[p]) <= 1
    /\ reader.of \in Paths \cup {"none", "old"} /\ Len(reader.got) <= 2

\* "readers never see a partial file": what an application read in two parts, beside
\* renames, kills, restarts and short writes, is all of one picture of one frame.
PictureWhole ==
    Len(reader.got) = 2 => \E f \in Frames : reader.got = <<<<f>>, <<f>>>>

\* The frame is not overwritten while it is encoded: the driver has that buffer neither
\* being filled nor in its queue, from the dequeue to the last pass over it.
FrameIsOurs == pc \in {"encode", "open", "write", "rename", "qbuf"} => owner[b] = "camsnap"

\* Readers get whole pictures, made of frames that stayed as they were while encoded.
ReaderSeesWhole == SnapTypeOK /\ PictureWhole /\ FrameIsOurs
=============================================================================
