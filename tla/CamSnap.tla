------------------------------- MODULE CamSnap -------------------------------
(***************************************************************************)
(* camsnap (package/camsnap/src/camsnap.c): the daemon that owns the       *)
(* camera, publishes a picture and statistics in /dev/shm, and is started  *)
(* again by its supervisor.  The capture driver, the supervisor and an     *)
(* application that reads the files run beside it.                         *)
(*                                                                         *)
(* What is written of a frame is the sequence of the frames its two parts  *)
(* were taken from, so that one made of two frames, or cut short, is told  *)
(* apart from a whole one.                                                 *)
(***************************************************************************)
EXTENDS CamSnapState

CONSTANTS
    MaxFaults,      \* bound on kills, failed calls and short writes
    Signals         \* whether SIGTERM may be sent

vars == <<pc, owner, b, frame, since, path, out, stop, faults, file, tmp, reader>>
cam  == <<owner, b, frame, since>>
disk == <<file, tmp>>

Closed == [of |-> "none", old |-> <<>>, got |-> <<>>]

Init ==
    /\ pc = "start" /\ owner = [i \in Bufs |-> "free"] /\ b = 0 /\ frame \in Frames /\ since = Period
    /\ path = "cam_stats.json" /\ out = <<>> /\ stop = FALSE /\ faults = 0
    /\ file = [p \in Paths |-> {}] /\ tmp = file /\ reader = Closed

Fault == faults < MaxFaults /\ faults' = faults + 1
Streaming == pc \notin {"start", "exited"}

-----------------------------------------------------------------------------
(* main                                                                    *)

\* From open to STREAMON: every buffer is queued.  Any call may fail.
Start ==
    /\ pc = "start"
    /\ \/ /\ pc' = "loop" /\ since' = Period
          /\ owner' = [i \in Bufs |-> "driver"]
          /\ UNCHANGED faults
       \/ Fault /\ pc' = "exited" /\ UNCHANGED <<owner, since>>
    /\ UNCHANGED <<b, frame, path, out, stop, disk, reader>>

\* The top of the loop: leave on stop, and only here.
BugNoStop == pc = "loop" /\ pc' = "dqbuf" /\ UNCHANGED <<cam, path, out, stop, faults, disk, reader>>

Loop ==
    /\ pc = "loop"
    /\ pc' = IF stop THEN "exited" ELSE "dqbuf"
    /\ UNCHANGED <<cam, path, out, stop, faults, disk, reader>>

\* The wait for a frame.  SIGTERM does not end it (signal() installs handlers with
\* SA_RESTART): one more frame is dequeued, handled and requeued first.  A call that fails
\* with EINTR repeats the loop, any other error leaves it.  A frame that comes before the
\* period is over is skipped.
BugEarlyRequeue ==
    /\ pc = "dqbuf"
    /\ \/ Fault /\ pc' \in {"loop", "exited"} /\ UNCHANGED cam
       \/ /\ \E i \in Bufs :
               owner[i] = "done" /\ b' = i /\ frame' \in Frames /\ owner' = [owner EXCEPT ![i] = "driver"]
          /\ IF since >= Period THEN pc' = "encode" /\ since' = 0
             ELSE pc' = "qbuf" /\ UNCHANGED since
          /\ UNCHANGED faults
    /\ UNCHANGED <<path, out, stop, disk, reader>>

BugSkipKeeps ==
    /\ pc = "dqbuf"
    /\ \/ Fault /\ pc' \in {"loop", "exited"} /\ UNCHANGED cam
       \/ /\ \E i \in Bufs :
               owner[i] = "done" /\ b' = i /\ frame' \in Frames /\ owner' = [owner EXCEPT ![i] = "camsnap"]
          /\ IF since >= Period THEN pc' = "encode" /\ since' = 0
             ELSE pc' = "loop" /\ UNCHANGED since
          /\ UNCHANGED faults
    /\ UNCHANGED <<path, out, stop, disk, reader>>

Dqbuf ==
    /\ pc = "dqbuf"
    /\ \/ Fault /\ pc' \in {"loop", "exited"} /\ UNCHANGED cam
       \/ /\ \E i \in Bufs :
               /\ owner[i] = "done"
               /\ b' = i /\ frame' \in Frames
               /\ owner' = [owner EXCEPT ![i] = "camsnap"]
          /\ IF since >= Period THEN pc' = "encode" /\ since' = 0
             ELSE pc' = "qbuf" /\ UNCHANGED since
          /\ UNCHANGED faults
    /\ UNCHANGED <<path, out, stop, disk, reader>>

\* write_stats takes the means, encode_jpeg makes the picture: two passes over the frame
\* each (luma and chroma).
Encode ==
    /\ pc = "encode"
    /\ out' = Append(out, frame)
    /\ pc' = IF out = <<>> THEN pc ELSE "open"
    /\ UNCHANGED <<cam, path, stop, faults, disk, reader>>

\* What follows write_atomic, whatever it returned: the picture, or the end of the frame.
Written ==
    /\ out' = <<>>
    /\ IF path = "cam_stats.json" THEN pc' = "encode" /\ path' = "cam.jpg"
       ELSE pc' = "qbuf" /\ path' = "cam_stats.json"

\* write_atomic: open(tmp, O_CREAT | O_TRUNC), also over what an earlier process left there.
Open ==
    /\ pc = "open"
    /\ \/ Fault /\ Written /\ UNCHANGED tmp
       \/ tmp' = [tmp EXCEPT ![path] = {<<>>}] /\ pc' = "write" /\ UNCHANGED <<faults, path, out>>
    /\ UNCHANGED <<cam, stop, file, reader>>

\* ... write(): complete, or short and given up.
BugShort ==
    /\ pc = "write" /\ pc' = "rename"
    /\ \/ tmp' = [tmp EXCEPT ![path] = {out}] /\ UNCHANGED faults
       \/ Fault /\ tmp' = [tmp EXCEPT ![path] = {<<out[1]>>}]
    /\ UNCHANGED <<cam, path, out, stop, file, reader>>

Write ==
    /\ pc = "write"
    /\ \/ tmp' = [tmp EXCEPT ![path] = {out}] /\ pc' = "rename" /\ UNCHANGED <<faults, path, out>>
       \/ Fault /\ tmp' = [tmp EXCEPT ![path] = {<<out[1]>>}] /\ Written
    /\ UNCHANGED <<cam, stop, file, reader>>

\* ... rename(): a reader of the old file keeps it.
Rename ==
    /\ pc = "rename"
    /\ \/ /\ file' = [file EXCEPT ![path] = tmp[path]] /\ tmp' = [tmp EXCEPT ![path] = {}]
          /\ reader' = IF reader.of # path THEN reader
                       ELSE [reader EXCEPT !.of = "old", !.old = CHOOSE c \in file[path] : TRUE]
          /\ UNCHANGED faults
       \/ Fault /\ UNCHANGED <<disk, reader>>
    /\ Written
    /\ UNCHANGED <<cam, stop>>

\* The frame is given back to the driver.
Qbuf ==
    /\ pc = "qbuf"
    /\ \/ owner' = [owner EXCEPT ![b] = "driver"] /\ pc' = "loop" /\ UNCHANGED faults
       \/ Fault /\ pc' = "exited" /\ UNCHANGED owner
    /\ UNCHANGED <<b, frame, since, path, out, stop, disk, reader>>

main == Start \/ Loop \/ Dqbuf \/ Encode \/ Open \/ Write \/ Rename \/ Qbuf

-----------------------------------------------------------------------------
(* The others                                                              *)

\* SIGTERM.
on_sig ==
    /\ Signals /\ pc # "exited" /\ ~stop
    /\ stop' = TRUE
    /\ UNCHANGED <<pc, cam, path, out, faults, disk, reader>>

\* The process is killed, or libjpeg's error handler ends it.
Kill ==
    /\ Streaming /\ Fault
    /\ pc' = "exited"
    /\ UNCHANGED <<cam, path, out, stop, disk, reader>>

\* The supervisor starts it again; closing the device has returned the buffers.  A daemon
\* that was asked to stop stays down.
Restart ==
    /\ pc = "exited" /\ ~stop
    /\ pc' = "start" /\ path' = "cam_stats.json" /\ out' = <<>>
    /\ owner' = [i \in Bufs |-> "free"]
    /\ UNCHANGED <<b, frame, since, stop, faults, disk, reader>>

\* The driver completes a frame in a buffer it has been given.
Capture ==
    /\ Streaming
    /\ \E i \in Bufs :
         /\ owner[i] = "driver"
         /\ owner' = [owner EXCEPT ![i] = "done"]
         /\ IF i = b THEN frame' \in Frames ELSE UNCHANGED frame
    /\ since' = IF since < Period THEN since + 1 ELSE since
    /\ UNCHANGED <<pc, b, path, out, stop, faults, disk, reader>>

\* An application opens a file, reads it in two parts and closes it.
Opened == IF reader.of = "old" THEN reader.old ELSE CHOOSE c \in file[reader.of] : TRUE
Read ==
    /\ \/ /\ reader.of = "none"
          /\ \E p \in Paths : file[p] # {} /\ reader' = [reader EXCEPT !.of = p]
       \/ /\ reader.of # "none" /\ Len(reader.got) < 2
          /\ LET n == Len(reader.got) + 1
             IN reader' = [reader EXCEPT !.got = Append(@, IF n <= Len(Opened) THEN <<Opened[n]>> ELSE <<>>)]
       \/ Len(reader.got) = 2 /\ reader' = Closed
    /\ UNCHANGED <<pc, cam, path, out, stop, faults, disk>>

Next == main \/ on_sig \/ Kill \/ Restart \/ Capture \/ Read

Spec == Init /\ [][Next]_vars

\* camsnap runs, the camera delivers frames, the supervisor restarts what it supervises.
LiveSpec == Spec /\ WF_vars(main) /\ WF_vars(Capture) /\ WF_vars(Restart)

-----------------------------------------------------------------------------
\* The picture does not freeze: with finitely many faults new ones are published for ever.
Publishes == []<><<Rename /\ path = "cam.jpg" /\ tmp'[path] = {}>>_vars

\* A daemon asked to stop exits, as long as frames arrive: it looks at stop between frames,
\* and in the wait it needs one more (on_sig only sets stop).
Stops == stop ~> pc = "exited"
==============================================================================
