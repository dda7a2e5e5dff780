----------------------------- MODULE MediaStore -----------------------------
(***************************************************************************)
(* Inbound media of the WeCom channel: the callback handler downloads the  *)
(* file of a message into the media directory and puts its path on the     *)
(* request it hands to the session router; the retention sweep, at start   *)
(* and then at every interval, removes the files that are too old.         *)
(*                                                                         *)
(* File names begin with the time of their creation, so a directory        *)
(* listing is in the order of creation.  A file's age counts the ticks     *)
(* since it was last written, or created while it is being copied.  The    *)
(* sweep meets no entry it cannot stat: nobody else removes one.  The      *)
(* channel calls back again for a message that was not answered with       *)
(* success: another delivery, with a file of its own.                      *)
(***************************************************************************)
EXTENDS Naturals, Sequences

CONSTANTS
  Delivery,      \* callbacks
  Retention,     \* ticks a file is kept: at least a day in the code
  CopyTimeout,   \* ticks a download may take: 10 seconds in the code
  SweepTime,     \* bound on the ticks a sweep takes
  MaxCrashes     \* bound on the crashes of the gateway

ASSUME MediaAssumption ==
  /\ Retention \in Nat \ {0}
  /\ CopyTimeout \in 0..(Retention - 1)
  /\ SweepTime \in Nat /\ MaxCrashes \in Nat

VARIABLES
  stage,     \* where the handler of each delivery is
  path,      \* deliveries whose request carries the path of its file
  file,      \* "none", "partial", "complete" or "removed"
  age,       \* ticks since the last write, up to MaxAge
  made,      \* files in the order of creation
  stuck,     \* files the process cannot remove
  spc,       \* the gateway and its sweeper: "down", "idle" or "sweep"
  serving,   \* is the HTTP server up?
  todo,      \* entries of the listing still to be looked at
  elapsed,   \* ticks since the sweep read the clock
  crashes

handlerVars == <<stage, path>>
fileVars == <<file, age, made>>
sweepVars == <<spc, serving, todo, elapsed>>
mediaVars == <<handlerVars, fileVars, stuck, sweepVars, crashes>>

MaxAge == Retention + SweepTime

Stages == {"new", "download", "copy", "dispatch", "accepted", "refused", "rejected", "gone"}

\* Type invariant: handlers, files and the sweep; a file is listed from its creation on
\* (wecom handleCallback, DownloadMedia, CleanupExpiredMediaFiles).
MediaTypeOK ==
  /\ stage \in [Delivery -> Stages]
  /\ path \subseteq Delivery
  /\ file \in [Delivery -> {"none", "partial", "complete", "removed"}]
  /\ age \in [Delivery -> 0..MaxAge]
  /\ made \in Seq(Delivery)
  /\ \A d \in Delivery : file[d] # "none" <=> \E i \in DOMAIN made : made[i] = d
  /\ stuck \subseteq Delivery
  /\ spc \in {"down", "idle", "sweep"}
  /\ serving \in BOOLEAN
  /\ todo \in Seq(Delivery)
  /\ elapsed \in 0..SweepTime
  /\ crashes \in 0..MaxCrashes

MediaInit ==
  /\ stage = [d \in Delivery |-> "new"]
  /\ path = {}
  /\ file = [d \in Delivery |-> "none"]
  /\ age = [d \in Delivery |-> 0]
  /\ made = <<>>
  /\ stuck \in SUBSET Delivery
  /\ spc = "down" /\ serving = FALSE /\ todo = <<>> /\ elapsed = 0
  /\ crashes = 0

Present(d) == file[d] \in {"partial", "complete"}

-----------------------------------------------------------------------------
(* handleCallback *)

\* The callback is read, decrypted and converted: it is refused, has no media,
\* or has one item of media with an id.
Receive(d) ==
  /\ serving
  /\ stage[d] = "new"
  /\ \E to \in {"rejected", "dispatch", "download"} : stage' = [stage EXCEPT ![d] = to]
  /\ UNCHANGED <<path, fileVars, stuck, sweepVars, crashes>>

\* No token, no answer, an answer that is not a file, or no file to write to:
\* the error is noted in the metadata and the message goes on without a path.
DownloadFails(d) ==
  /\ stage[d] = "download"
  /\ stage' = [stage EXCEPT ![d] = "dispatch"]
  /\ UNCHANGED <<path, fileVars, stuck, sweepVars, crashes>>

CreateFile(d) ==
  /\ stage[d] = "download"
  /\ stage' = [stage EXCEPT ![d] = "copy"]
  /\ file' = [file EXCEPT ![d] = "partial"]
  /\ age' = [age EXCEPT ![d] = 0]
  /\ made' = Append(made, d)
  /\ UNCHANGED <<path, stuck, sweepVars, crashes>>

\* The last write to the file was at its creation or later.
LastWrite(d) == \E a \in 0..age[d] : age' = [age EXCEPT ![d] = a]

\* The body ends.  A file that was removed while it was open stays removed.
CopyDone(d) ==
  /\ stage[d] = "copy"
  /\ stage' = [stage EXCEPT ![d] = "dispatch"]
  /\ path' = path \cup {d}
  /\ file' = [file EXCEPT ![d] = IF @ = "partial" THEN "complete" ELSE @]
  /\ LastWrite(d)
  /\ UNCHANGED <<made, stuck, sweepVars, crashes>>

\* It breaks off: what was written stays in the directory.
CopyFails(d) ==
  /\ stage[d] = "copy"
  /\ stage' = [stage EXCEPT ![d] = "dispatch"]
  /\ LastWrite(d)
  /\ UNCHANGED <<path, file, made, stuck, sweepVars, crashes>>

\* SessionRouter.HandleIncoming, and the answer to the channel.
Dispatch(d) ==
  /\ stage[d] = "dispatch"
  /\ \E to \in {"accepted", "refused"} : stage' = [stage EXCEPT ![d] = to]
  /\ UNCHANGED <<path, fileVars, stuck, sweepVars, crashes>>

-----------------------------------------------------------------------------
(* The gateway process and the sweep *)

\* CleanupExpiredMediaFiles reads the clock and lists the directory.
BeginSweep ==
  /\ spc' = "sweep"
  /\ todo' = SelectSeq(made, Present)
  /\ elapsed' = 0

\* StartMediaRetention sweeps before the server listens.
Boot ==
  /\ spc = "down"
  /\ BeginSweep
  /\ UNCHANGED <<handlerVars, fileVars, stuck, serving, crashes>>

\* The ticker fires.
Fire ==
  /\ spc = "idle"
  /\ BeginSweep
  /\ UNCHANGED <<handlerVars, fileVars, stuck, serving, crashes>>

\* Mutant of Expired: the test is inverted, what is younger than the cutoff goes.
ExpiredInverted(d) == age[d] < Retention + elapsed

\* Was the file last written at or before the cutoff?
Expired(d) == age[d] >= Retention + elapsed

\* Mutant of SweepEntry: the error ends the sweeper.
SweepEntryFatal ==
  /\ spc = "sweep" /\ todo # <<>>
  /\ LET d == Head(todo)
     IN  IF Expired(d) /\ d \in stuck
           THEN todo' = <<>> /\ spc' = "failed" /\ UNCHANGED file
           ELSE /\ todo' = Tail(todo)
                /\ file' = IF Expired(d) THEN [file EXCEPT ![d] = "removed"] ELSE file
                /\ UNCHANGED spc
  /\ UNCHANGED <<handlerVars, age, made, stuck, serving, elapsed, crashes>>

\* One entry: a file that is young enough is kept; the first one that cannot be
\* removed ends the sweep.
SweepEntry ==
  /\ spc = "sweep" /\ todo # <<>>
  /\ LET d == Head(todo)
     IN  IF Expired(d) /\ d \in stuck
           THEN todo' = <<>> /\ UNCHANGED file
           ELSE /\ todo' = Tail(todo)
                /\ file' = IF Expired(d) THEN [file EXCEPT ![d] = "removed"] ELSE file
  /\ UNCHANGED <<handlerVars, age, made, stuck, spc, serving, elapsed, crashes>>

\* The sweep returns, its error ignored; after the first one the server listens.
EndSweep ==
  /\ spc = "sweep" /\ todo = <<>>
  /\ spc' = "idle"
  /\ serving' = TRUE
  /\ elapsed' = 0
  /\ UNCHANGED <<handlerVars, fileVars, stuck, todo, crashes>>

\* Handlers end with the process; files stay.
Crash ==
  /\ spc # "down"
  /\ crashes < MaxCrashes
  /\ crashes' = crashes + 1
  /\ spc' = "down" /\ serving' = FALSE /\ todo' = <<>> /\ elapsed' = 0
  /\ stage' = [d \in Delivery |->
                 IF stage[d] \in {"download", "copy", "dispatch"} THEN "gone" ELSE stage[d]]
  /\ UNCHANGED <<path, fileVars, stuck>>

\* Time passes: not in the middle of a copy the client would have given up, nor
\* of a sweep that would have ended.
TimePasses ==
  /\ \A d \in Delivery : stage[d] = "copy" => age[d] < CopyTimeout
  /\ spc = "sweep" => elapsed < SweepTime
  /\ elapsed' = IF spc = "sweep" THEN elapsed + 1 ELSE elapsed
  /\ age' = [d \in Delivery |-> IF file[d] # "none" /\ age[d] < MaxAge THEN age[d] + 1 ELSE age[d]]
  /\ UNCHANGED <<handlerVars, file, made, stuck, spc, serving, todo, crashes>>

-----------------------------------------------------------------------------
Handler(d) ==
  \/ Receive(d) \/ DownloadFails(d) \/ CreateFile(d)
  \/ CopyDone(d) \/ CopyFails(d) \/ Dispatch(d)

Sweeper == Fire \/ SweepEntry \/ EndSweep

MediaNext == (\E d \in Delivery : Handler(d)) \/ Sweeper \/ Boot \/ Crash \/ TimePasses

\* The ticker keeps firing and a sweep goes on.
MediaSpec == MediaInit /\ [][MediaNext]_mediaVars /\ WF_mediaVars(Sweeper)

-----------------------------------------------------------------------------
\* What was accepted is there: the path of a request the router has taken names
\* a complete file for as long as files are kept, whatever sweep was listing or
\* looking at it meanwhile and whatever restarts there were (DownloadMedia,
\* CleanupExpiredMediaFiles).
AcceptedMediaIsThere ==
  \A d \in path : stage[d] \in {"dispatch", "accepted"} /\ age[d] < Retention =>
                    file[d] = "complete"

\* An earlier file, or this one, is expired and cannot be removed.
Blocked(d) ==
  \E i, j \in DOMAIN made :
    i <= j /\ made[j] = d /\ made[i] \in stuck /\ age[made[i]] >= Retention

\* Nothing is kept for ever: an expired file is removed while the gateway stays
\* up, also one left by a failed copy, a refused message or a crash, unless a file
\* that sorts before it cannot be removed (media_retention.go:68).
ExpiredIsRemoved ==
  \A d \in Delivery :
    (Present(d) /\ age[d] >= Retention) ~> (file[d] = "removed" \/ spc = "down" \/ Blocked(d))
=============================================================================
