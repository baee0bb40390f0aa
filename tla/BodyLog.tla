------------------------------- MODULE BodyLog -------------------------------
(***************************************************************************)
(* One entry of the body log (src/observability/body_log.rs): the recorder *)
(* that queues its writes, the chain that performs them one after the      *)
(* other, and the console and the pruner that delete entries meanwhile.    *)
(* Bytes of a response are numbered in the order they arrive.              *)
(***************************************************************************)
EXTENDS Integers, Sequences

CONSTANTS
  Removers,    \* deletions: the console's, one or all, and the pruner's
  MaxBytes,    \* bound on the length of the response
  CAP,         \* MAX_RECORDED_RESPONSE_BYTES
  FLUSH        \* FLUSH_BYTES

ASSUME BodyLogAssumption ==
  /\ MaxBytes \in Nat /\ CAP \in Nat /\ FLUSH \in Nat \ {0}

VARIABLES
  \* The recorder.
  rec,         \* "new", "live" or "ended"
  arrived,     \* response_bytes
  response,    \* what arrived and was not queued yet
  flushed,     \* whether any of the body was queued to be appended
  \* The chain of writes: each awaits the one queued before it.
  queue,       \* the writes not done yet, oldest first
  at,          \* how far the oldest one is
  \* The disk.
  dir,         \* whether the entry's directory is there
  files,       \* the files in it
  content,     \* of the response file
  meta,        \* the form of meta.json
  removing,    \* where each deletion is
  unlinking,   \* the files each deletion has yet to unlink
  \* History.
  failed       \* whether a write failed

recorder == <<rec, arrived, response, flushed>>
disk == <<dir, files, content, meta>>
removal == <<removing, unlinking>>
logVars == <<recorder, queue, at, disk, removal, failed>>

Names == {"request", "meta", "response"}
Bytes == 1..MaxBytes
Kinds == {"begin", "body", "append", "meta"}

LogTypeOK ==
  /\ rec \in {"new", "live", "ended"}
  /\ arrived \in 0..MaxBytes /\ response \in Seq(Bytes)
  /\ flushed \in {"no", "yes"}
  /\ queue \in Seq([kind : Kinds, bytes : Seq(Bytes)])
  /\ at \in {"ready", "first", "second"}
  /\ dir \in {"absent", "present"}
  /\ files \subseteq Names /\ (dir = "absent" => files = {})
  /\ content \in Seq(Bytes)
  /\ meta \in {"first", "final"}
  /\ removing \in [Removers -> {"idle", "unlink", "removed", "missing", "failed"}]
  /\ unlinking \in [Removers -> SUBSET Names]
  /\ failed \in {"no", "yes"}

LogInit ==
  /\ rec = "new" /\ arrived = 0 /\ response = <<>> /\ flushed = "no"
  /\ queue = <<>> /\ at = "ready"
  /\ dir = "absent" /\ files = {} /\ content = <<>> /\ meta = "first"
  /\ removing = [r \in Removers |-> "idle"]
  /\ unlinking = [r \in Removers |-> {}]
  /\ failed = "no"

-----------------------------------------------------------------------------
\* The recorder.  Only its own task runs these.

NewWrite(kind, bytes) == [kind |-> kind, bytes |-> bytes]

\* BodyLog::begin
Begin ==
  /\ rec = "new"
  /\ rec' = "live"
  /\ queue' = <<NewWrite("begin", <<>>)>>
  /\ UNCHANGED <<arrived, response, flushed, at, disk, removal, failed>>

Numbered(from, n) == [i \in 1..n |-> from + i]

\* What is kept of a chunk of n bytes: only what there is room for.
Room == IF arrived < CAP THEN CAP - arrived ELSE 0
Kept(n) == Numbered(arrived, IF n < Room THEN n ELSE Room)

\* Recorder::flush of what has arrived: nothing without bytes.
FlushOf(bytes) ==
  IF bytes = <<>>
  THEN UNCHANGED <<queue, flushed>>
  ELSE /\ queue' = Append(queue, NewWrite("append", bytes))
       /\ flushed' = "yes"

\* Recorder::chunk.  FLUSH_INTERVAL may have passed or not.
Chunk(n) ==
  /\ rec = "live" /\ arrived + n <= MaxBytes
  /\ LET held == response \o Kept(n)
     IN \/ FlushOf(held) /\ response' = <<>>
        \/ /\ Len(held) < FLUSH
           /\ response' = held
           /\ UNCHANGED <<queue, flushed>>
  /\ arrived' = arrived + n
  /\ UNCHANGED <<rec, at, disk, removal, failed>>

BodyWrites(bytes) ==
  IF flushed = "yes"
  THEN IF bytes = <<>> THEN <<>> ELSE <<NewWrite("append", bytes)>>
  ELSE <<NewWrite("body", bytes)>>

\* Recorder::record: the rest of the body, then meta.json in its complete form.
RecordMetaFirst(bytes) ==   \* a mutant: meta.json before the rest of the body
  queue' = queue \o <<NewWrite("meta", <<>>)>> \o BodyWrites(bytes)

Record(bytes) ==
  queue' = queue \o BodyWrites(bytes) \o <<NewWrite("meta", <<>>)>>

\* The end of the body, or the recorder dropped unfinished by a client that left or
\* by a cut.  A write is always pending then, so record_now never runs.
Finish ==
  /\ rec = "live"
  /\ rec' = "ended"
  /\ Record(response)
  /\ response' = <<>>
  /\ UNCHANGED <<arrived, flushed, at, disk, removal, failed>>

\* finish_with_body: a body read whole; MAX_BUFFERED_BYTES keeps it below the cap.
FinishWithBody(n) ==
  /\ rec = "live" /\ arrived = 0 /\ n <= MaxBytes /\ n <= CAP
  /\ rec' = "ended"
  /\ Record(Numbered(0, n))
  /\ arrived' = n
  /\ UNCHANGED <<response, flushed, at, disk, removal, failed>>

-----------------------------------------------------------------------------
\* The chain of writes.

First == Head(queue)
Finished == queue' = Tail(queue) /\ at' = "ready"
NextStep == IF First.kind = "begin" /\ at = "first"
            THEN at' = "second" /\ UNCHANGED queue
            ELSE Finished

\* entry_ready: the first write makes the directory, later ones want it there.
ReadyCreating ==        \* a mutant: every write makes the directory
  /\ queue # <<>> /\ at = "ready"
  /\ dir' = "present" /\ at' = "first" /\ UNCHANGED <<queue, files, content, meta>>
  /\ UNCHANGED <<recorder, removal, failed>>

Ready ==
  /\ queue # <<>> /\ at = "ready"
  /\ IF First.kind = "begin" \/ dir = "present"
     THEN dir' = "present" /\ at' = "first" /\ UNCHANGED queue
     ELSE Finished /\ UNCHANGED dir
  /\ UNCHANGED <<files, content, meta, recorder, removal, failed>>

\* What the oldest write does to the directory, its file put in place by a rename
\* but for an append.
Put ==
  CASE First.kind = "begin" /\ at = "first" ->
         files' = files \cup {"request"} /\ UNCHANGED <<content, meta>>
    [] First.kind = "begin" /\ at = "second" ->
         files' = files \cup {"meta"} /\ meta' = "first" /\ UNCHANGED content
    [] First.kind = "body" ->
         files' = files \cup {"response"} /\ content' = First.bytes /\ UNCHANGED meta
    [] First.kind = "append" ->
         /\ files' = files \cup {"response"}
         /\ content' = (IF "response" \in files THEN content ELSE <<>>) \o First.bytes
         /\ UNCHANGED meta
    [] First.kind = "meta" ->
         files' = files \cup {"meta"} /\ meta' = "final" /\ UNCHANGED content

Perform ==
  /\ at # "ready" /\ dir = "present"
  /\ Put /\ NextStep
  /\ UNCHANGED <<dir, recorder, removal, failed>>

\* A write that fails is logged and the chain goes on: a full disk, or the directory
\* gone since it was looked at.
WriteFails ==
  /\ at # "ready"
  /\ failed' = "yes"
  /\ NextStep
  /\ UNCHANGED <<disk, recorder, removal>>

-----------------------------------------------------------------------------
\* Deleting the entry: remove_dir_all unlinks the files it finds, then the directory.

At(r, s) == removing' = [removing EXCEPT ![r] = s]

RemoveFinds(r) ==
  /\ removing[r] = "idle" /\ rec # "new"
  /\ IF dir = "present"
     THEN At(r, "unlink") /\ unlinking' = [unlinking EXCEPT ![r] = files]
     ELSE At(r, "missing") /\ UNCHANGED unlinking
  /\ UNCHANGED <<recorder, queue, at, disk, failed>>

Unlink(r, f) ==
  /\ removing[r] = "unlink" /\ f \in unlinking[r]
  /\ unlinking' = [unlinking EXCEPT ![r] = @ \ {f}]
  /\ files' = files \ {f}
  /\ UNCHANGED <<removing, dir, content, meta, recorder, queue, at, failed>>

\* The directory goes only if it is empty; a file put there meanwhile keeps it.
RemoveDir(r) ==
  /\ removing[r] = "unlink" /\ unlinking[r] = {}
  /\ IF files = {} /\ dir = "present"
     THEN dir' = "absent" /\ At(r, "removed")
     ELSE At(r, "failed") /\ UNCHANGED dir
  /\ UNCHANGED <<files, content, meta, unlinking, recorder, queue, at, failed>>

-----------------------------------------------------------------------------
LogNext ==
  \/ Begin \/ Finish \/ Ready \/ Perform \/ WriteFails
  \/ \E n \in 1..MaxBytes : Chunk(n) \/ FinishWithBody(n)
  \/ \E r \in Removers : RemoveFinds(r) \/ RemoveDir(r) \/ \E f \in Names : Unlink(r, f)

LogSpec == LogInit /\ [][LogNext]_logVars

-----------------------------------------------------------------------------
Untouched == \A r \in Removers : removing[r] \in {"idle", "missing"}
Whole == Numbered(0, IF arrived < CAP THEN arrived ELSE CAP)

\* An entry nobody deletes and no write failed for ends whole: its request, the
\* response's first CAP bytes in order, and meta.json in its complete form.
\* body_log.rs:110-114.
RecordedWhole ==
  rec = "ended" /\ queue = <<>> /\ Untouched /\ failed = "no" =>
    files = Names /\ meta = "final" /\ content = Whole

\* Whoever reads a complete meta.json finds the whole response beside it, and whoever
\* reads any finds the request: body_log.rs:294-295.
FinalMeansWhole ==
  Untouched /\ failed = "no" /\ "meta" \in files =>
    /\ "request" \in files
    /\ meta = "final" => "response" \in files /\ content = Whole

\* What is found of an entry is whole.
EntriesAreWhole == RecordedWhole /\ FinalMeansWhole

\* An entry that was deleted while its stream runs stays gone: body_log.rs:430-432.
DeletedStaysGone == (\E r \in Removers : removing[r] = "removed") => dir = "absent"
=============================================================================
