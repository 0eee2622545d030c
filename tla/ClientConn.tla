----------------------------- MODULE ClientConn -----------------------------
(***************************************************************************)
(* client.Conn and its holder: one operation at a time over the arbiter's   *)
(* connection, on the machine of MachineLink.  Replies carry no number, so   *)
(* an operation takes the next frame that looks like its answer; what an     *)
(* earlier operation left in the connection is still there unless a status   *)
(* query drained it.                                                         *)
(*                                                                          *)
(* An operation of a scene is a record: its kind and path, the data of an    *)
(* upload or the target of a rename; check, whether the tracker is stale so  *)
(* that ensureFreshIdle queries first; keep, whether its caller tolerates a  *)
(* timeout and keeps the connection (a poll over USB, the check after an     *)
(* upload).  Every frame carries the number of the operation it belongs to,  *)
(* which the code cannot see.                                                *)
(***************************************************************************)
EXTENDS MachineLink

CONSTANT None

VARIABLES
    sock,       \* the arbiter's ownerConn, 0 when there is none
    dialled,    \* connections dialled so far
    program,    \* the operations still to come
    op,         \* the operation in progress, or None
    done        \* how the last one ended, or None

client == <<sock, dialled, program, op, done>>
vars == <<scene, link, client>>

Transfers == {"upload", "upload.lz", "download"}
Managed == {"ls", "rm", "mv"}
Kinds == Transfers \cup Managed \cup {"md5sum", "ftype", "play", "query", "multi"}

Do(kind, path, data, check, keep) ==
    [kind |-> kind, path |-> path, data |-> data, check |-> check, keep |-> keep]

Init ==
    /\ LinkInit
    /\ sock = 0 /\ dialled = 0 /\ program = scene.program
    /\ op = None /\ done = None

-----------------------------------------------------------------------------
(* Steps of every operation.                                                *)

Here == down[sock]
Quiet == up[sock] = <<>> /\ Here = <<>>

\* writeFrame
Write(frames) == up' = [up EXCEPT ![sock] = @ \o frames]

Rest == <<scene, open, mach, files, transferActive, job, faults>>

\* WithMachine and acquireOwnerConn.
Begin ==
    /\ op = None /\ program # <<>>
    /\ sock = 0 => dialled < MaxConns
    /\ LET do == Head(program)
           c == IF sock = 0 THEN dialled + 1 ELSE sock
       IN  /\ sock' = c
           /\ dialled' = IF sock = 0 THEN c ELSE dialled
           /\ open' = open \cup {c}
           /\ mach' = IF sock = 0 THEN [mach EXCEPT ![c].alive = TRUE] ELSE mach
           /\ op' = [do |-> do, id |-> Len(scene.program) - Len(program) + 1,
                     phase |-> IF do.check \/ do.kind = "query" THEN "drain" ELSE "send",
                     next |-> 0, total |-> 0, md5 |-> NoFile, out |-> <<>>, last |-> None]
    /\ program' = Tail(program)
    /\ done' = None
    /\ UNCHANGED <<scene, up, down, files, transferActive, job, faults>>

\* The operation returns; a connection error drops the connection.
Return(result, out, answers, drop) ==
    /\ op' = None
    /\ done' = [do |-> op.do, id |-> op.id, result |-> result, out |-> out, answers |-> answers]
    /\ sock' = IF drop THEN 0 ELSE sock
    /\ open' = IF drop THEN open \ {sock} ELSE open
    /\ down' = [down EXCEPT ![sock] = IF drop \/ Here = <<>> THEN <<>> ELSE Tail(@)]
    /\ UNCHANGED <<scene, up, mach, files, transferActive, job, faults, dialled, program>>

Read ==
    /\ down' = [down EXCEPT ![sock] = Tail(@)]
    /\ UNCHANGED <<Rest, sock, dialled, program, done>>

Ignore == Read /\ UNCHANGED <<up, op>>

Failure(f) == f.cmd = "info" /\ f.arg = "error"

-----------------------------------------------------------------------------
(* QueryState, on its own or in ensureFreshIdle: drain what is waiting, ask, *)
(* take the next status.                                                    *)

\* What is left of the frames that were waiting.
Drained == <<>>

\* The drain ends with the first pause of 2 ms, whatever the machine still owes.
\* A diagnostic it met fails the query, which ensureFreshIdle takes for a broken
\* connection.
Drain ==
    /\ op # None /\ op.phase = "drain"
    /\ IF \E i \in DOMAIN Here : Failure(Here[i])
       THEN /\ op' = None
            /\ done' = [do |-> op.do, id |-> op.id, result |-> "error", out |-> <<>>, answers |-> op.id]
            /\ sock' = IF op.do.check THEN 0 ELSE sock
            /\ open' = IF op.do.check THEN open \ {sock} ELSE open
            /\ down' = [down EXCEPT ![sock] = <<>>]
            /\ UNCHANGED <<up, dialled, program>>
       ELSE /\ down' = [down EXCEPT ![sock] = Drained]
            /\ Write(<<Frame("?", "", <<>>, op.id)>>)
            /\ op' = [op EXCEPT !.phase = "query"]
            /\ UNCHANGED <<open, sock, dialled, program, done>>
    /\ UNCHANGED <<scene, mach, files, transferActive, job, faults>>

TakeStatus(f) ==
    \/ /\ f.cmd = "status" /\ op.do.kind = "query"
       /\ Return("ok", f.arg, f.id, FALSE)
    \/ /\ f.cmd = "status" /\ op.do.kind # "query" /\ f.arg # NoFile
       /\ Return("not idle", f.arg, f.id, FALSE)
    \/ /\ f.cmd = "status" /\ op.do.kind # "query" /\ f.arg = NoFile
       /\ op' = [op EXCEPT !.phase = "send"] /\ Read /\ UNCHANGED up
    \/ Failure(f) /\ Return("error", <<>>, op.id, op.do.check)
    \/ f.cmd # "status" /\ ~Failure(f) /\ Ignore

-----------------------------------------------------------------------------
(* The first frames of an operation.  Upload sends the digest unasked.      *)

Opening ==
    LET do == op.do
        first(cmd, data) == Frame(cmd, do.path, data, op.id)
    IN  CASE do.kind \in {"upload", "upload.lz"} -> <<first(do.kind, <<>>), Frame("md5", 0, <<>>, op.id)>>
          [] do.kind = "mv" -> <<first("mv", do.data)>>
          [] OTHER -> <<first(do.kind, <<>>)>>

Send ==
    /\ op # None /\ op.phase = "send"
    /\ Write(Opening)
    /\ op' = [op EXCEPT !.phase = IF op.do.kind = "download" THEN "md5" ELSE "wait",
                        !.last = Opening[Len(Opening)]]
    /\ UNCHANGED <<Rest, down, sock, dialled, program, done>>

-----------------------------------------------------------------------------
(* Upload: the machine asks, the client answers.                            *)

\* What the file transferred holds: the container for a compressed upload.
Payload == IF op.do.kind = "upload.lz" THEN CompressLZ(op.do.data) ELSE op.do.data

\* Mutant: the last answer is not kept for a retry.
AnswerForgotten(frame) ==
    /\ Write(<<frame>>)
    /\ UNCHANGED op
    /\ Read

\* An answer is kept for a FILE_RETRY.
Answer(frame) ==
    /\ Write(<<frame>>)
    /\ op' = [op EXCEPT !.last = frame]
    /\ Read

dataPacket(seq) == Frame("data", seq, Chunk(Payload, seq), op.id)

\* FILE_CANCEL: the reason is in it, or in a diagnostic that follows.
Upload(f) ==
    \/ /\ f.cmd = "cancel" /\ f.arg # "ok"
       /\ Return("cancelled", f.arg, f.id, FALSE)
    \/ /\ f.cmd = "cancel" /\ f.arg = "ok"
       /\ op' = [op EXCEPT !.phase = "reason"] /\ Read /\ UNCHANGED up
    \/ f.cmd = "retry" /\ Write(<<op.last>>) /\ Read /\ UNCHANGED op
    \/ f.cmd = "md5" /\ Answer(Frame("md5", 0, <<>>, op.id))
    \/ f.cmd = "view" /\ Answer(Frame("view", Packets(Payload), <<>>, op.id))
    \/ f.cmd = "data" /\ Answer(dataPacket(f.arg))
    \/ f.cmd = "end" /\ Return("ok", op.do.data, f.id, FALSE)
    \/ f.cmd \notin {"cancel", "retry", "md5", "view", "data", "end"} /\ Ignore

uploadCancelReason(f) ==
    IF f.cmd \in {"info", "load info"} \/ (f.cmd = "cancel" /\ f.arg # "ok")
    THEN Return("cancelled", f.arg, f.id, FALSE) ELSE Ignore

-----------------------------------------------------------------------------
(* Download: the client asks, the machine answers.                          *)

\* fetchToCache: bytes that differ from the digest are a container, if
\* unpacking it yields the digest.
Fetched(raw) ==
    IF raw # op.md5 /\ IsContainer(raw) /\ Tail(raw) = op.md5 THEN Tail(raw) ELSE raw

reqSeq(seq) == <<Frame("data", seq, <<>>, op.id)>>

\* The packet expected is written; the last is acknowledged, and the call
\* returns without waiting for the machine's answer to that.
Packet(f) ==
    LET raw == op.out \o f.data IN
    IF f.arg >= op.total
    THEN /\ op' = None
         /\ done' = [do |-> op.do, id |-> op.id, result |-> "ok", out |-> Fetched(raw), answers |-> f.id]
         /\ Write(<<Frame("end", "", <<>>, op.id)>>)
         /\ down' = [down EXCEPT ![sock] = Tail(@)]
         /\ UNCHANGED <<Rest, sock, dialled, program>>
    ELSE /\ op' = [op EXCEPT !.out = raw, !.next = @ + 1]
         /\ Write(reqSeq(op.next + 1)) /\ Read

Download(f) ==
    \/ f.cmd = "cancel" /\ Return("cancelled", f.arg, f.id, FALSE)
    \/ /\ op.phase = "md5" /\ f.cmd = "md5"
       /\ op' = [op EXCEPT !.phase = "view", !.md5 = f.data]
       /\ Write(<<Frame("view", 0, <<>>, op.id)>>) /\ Read
    \/ /\ op.phase = "view" /\ f.cmd = "view"
       /\ op' = [op EXCEPT !.phase = "data", !.total = f.arg, !.next = 1]
       /\ Write(reqSeq(1)) /\ Read
    \/ op.phase = "data" /\ f.cmd = "end" /\ Return("ok", Fetched(op.out), f.id, FALSE)
    \/ op.phase = "data" /\ f.cmd = "data" /\ f.arg # op.next /\ Write(reqSeq(op.next)) /\ Read /\ UNCHANGED op
    \/ op.phase = "data" /\ f.cmd = "data" /\ f.arg = op.next /\ Packet(f)
    \/ /\ f.cmd \notin {"cancel"} \cup {op.phase} \cup (IF op.phase = "data" THEN {"end"} ELSE {})
       /\ Ignore

\* Writing the packet to the cache file fails.  The system's error number is a
\* net.Error, so the connection is dropped with it.
DiskFails ==
    /\ op # None /\ scene.disk /\ op.do.kind = "download" /\ op.phase = "data"
    /\ Here # <<>> /\ Head(Here).cmd = "data" /\ Head(Here).arg = op.next
    /\ Return("disk", <<>>, op.id, TRUE)

-----------------------------------------------------------------------------
(* The other operations.                                                    *)

runManaged(f) ==
    \/ f.cmd = "load info" /\ op' = [op EXCEPT !.out = Append(@, f.arg)] /\ Read /\ UNCHANGED up
    \/ f.cmd = "load finish" /\ Return("ok", op.out, f.id, FALSE)
    \/ f.cmd = "load error" /\ Return("error", op.out, f.id, FALSE)
    \/ f.cmd \notin {"load info", "load finish", "load error"} /\ Ignore

\* The path a digest is of is not looked at.
Md5(f) ==
    \/ f.cmd = "info" /\ f.arg = "digest" /\ Return("ok", f.data, f.id, FALSE)
    \/ f.cmd = "info" /\ f.arg \in {"not found", "error"} /\ Return("error", <<>>, f.id, FALSE)
    \/ f.cmd = "load error" /\ Return("error", <<>>, f.id, FALSE)
    \/ ~(f.cmd = "info" /\ f.arg \in {"digest", "not found", "error"}) /\ f.cmd # "load error" /\ Ignore

Ftype(f) ==
    IF f.cmd = "info" /\ f.arg = "ftype" THEN Return("ok", <<>>, f.id, FALSE) ELSE Ignore

QueryActivePlayback(f) ==
    \/ f.cmd = "play" /\ Return("ok", f.arg, f.id, FALSE)
    \/ Failure(f) /\ Return("error", <<>>, f.id, FALSE)
    \/ f.cmd # "play" /\ ~Failure(f) /\ Ignore

\* Any line is the command's output; "ok" ends it.
SendConsoleCommand(f) ==
    \/ f.cmd = "info" /\ f.arg = "ok" /\ Return("ok", <<>>, f.id, FALSE)
    \/ Failure(f) /\ Return("error", <<>>, f.id, FALSE)
    \/ f.cmd = "info" /\ f.arg \notin {"ok", "error"}
       /\ op' = [op EXCEPT !.out = f.data] /\ Read /\ UNCHANGED up
    \/ f.cmd # "info" /\ Ignore

Take ==
    /\ op # None /\ op.phase \notin {"drain", "send"} /\ Here # <<>>
    /\ LET f == Head(Here) IN
         IF op.phase = "query" THEN TakeStatus(f)
         ELSE IF op.phase = "reason" THEN uploadCancelReason(f)
         ELSE \/ op.do.kind \in {"upload", "upload.lz"} /\ Upload(f)
              \/ op.do.kind = "download" /\ Download(f)
              \/ op.do.kind \in Managed /\ runManaged(f)
              \/ op.do.kind = "md5sum" /\ Md5(f)
              \/ op.do.kind = "ftype" /\ Ftype(f)
              \/ op.do.kind = "play" /\ QueryActivePlayback(f)
              \/ op.do.kind = "multi" /\ SendConsoleCommand(f)

\* Mutant: the wait for a reason has no deadline.
TimeoutAfterReason ==
    /\ op # None /\ op.phase \notin {"drain", "send", "reason"}
    /\ Here = <<>>
    /\ Return("timeout", <<>>, op.id, ~op.do.keep)

\* The deadline passes.  A console command has then ended, or had no reply; a
\* cancelled upload has no reason; a query of ensureFreshIdle reads as not idle;
\* anything else is a connection error unless its caller keeps the connection.
Timeout ==
    /\ op # None /\ op.phase \notin {"drain", "send"}
    /\ scene.race \/ Quiet
    /\ Here = <<>>
    /\ CASE op.phase = "query" /\ op.do.check -> Return("not idle", <<>>, op.id, FALSE)
         [] op.phase = "reason"    -> Return("cancelled", <<>>, op.id, FALSE)
         [] op.do.kind = "multi"   -> Return(IF op.do.path = "query" /\ op.out = <<>> THEN "no reply" ELSE "ok",
                                             op.out, op.id, FALSE)
         [] OTHER                  -> Return("timeout", <<>>, op.id, ~op.do.keep)

\* The machine has closed the connection: a connection error, but a console
\* command that had output has ended, and a cancelled upload has no reason.
Eof ==
    /\ op # None /\ op.phase # "send" /\ Here = <<>> /\ ~mach[sock].alive
    /\ CASE op.phase = "reason" -> Return("cancelled", <<>>, op.id, FALSE)
         [] op.do.kind = "multi" /\ op.out # <<>> -> Return("ok", op.out, op.id, FALSE)
         [] OTHER -> Return("closed", <<>>, op.id, TRUE)

ClientNext == Begin \/ Drain \/ Send \/ Take \/ Timeout \/ Eof \/ DiskFails

Next == (LinkNext /\ UNCHANGED client) \/ ClientNext

\* The deadlines make every wait end; the machine keeps reading.
Spec == /\ Init /\ [][Next]_vars
        /\ WF_vars(ClientNext)
        /\ WF_vars((\E c \in Conns : MachineTakes(c)) /\ UNCHANGED client)

-----------------------------------------------------------------------------
TypeOK ==
    /\ open \subseteq Conns /\ sock \in {0} \cup open /\ dialled \in 0..MaxConns
    /\ \A c \in Conns : mach[c].started => mach[c].alive /\ mach[c].mode # "idle"
    /\ job \in Paths \cup {NoFile}
    /\ op # None => /\ sock # 0
                    /\ op.phase \in {"drain", "query", "send", "wait", "reason", "md5", "view", "data"}

\* FILE_END means the firmware accepted the transfer: an upload that returned
\* without an error has stored the file that was to be sent.
UploadedIsStored ==
    done # None /\ done.do.kind \in {"upload", "upload.lz"} /\ done.result = "ok"
      => files[done.do.path] = done.do.data

\* A download that returned without an error yields every byte of the file, in
\* order, whether the machine packed it or not.
DownloadIsWhole ==
    done # None /\ done.do.kind = "download" /\ done.result = "ok"
      => done.out = files[done.do.path]

\* What an operation returns is the machine's answer to it and not to one before
\* it: what the drain is for, but more than it can do, since it ends with the
\* first pause.  MCLatePoll and MCLateDigest violate it.
AnswersOwnRequest ==
    done # None /\ done.result = "ok" /\ done.do.kind \notin {"upload", "upload.lz"}
      => done.answers = done.id

\* An answer taken for another's is that to an earlier question of the same sort,
\* whose caller stopped waiting and kept the connection: a poll or the query
\* before an operation, the check after an upload, a console command.  A download,
\* a listing, a removal, a rename and a playback query get their own.
MistakenForItsLike ==
    done # None /\ done.result = "ok" /\ done.do.kind \notin {"upload", "upload.lz"}
                /\ done.answers # done.id
      => LET asked == scene.program[done.answers] IN
           /\ done.answers < done.id
           /\ \/ done.do.kind = "query" /\ (asked.check \/ (asked.kind = "query" /\ asked.keep))
              \/ done.do.kind = "md5sum" /\ asked.kind = "md5sum" /\ asked.keep
              \/ done.do.kind = "multi" /\ asked.kind = "multi"

\* The machine's transfer slot is held by one handler, which is serving a
\* transfer, and by nothing that has ended.
SlotHasOneHolder ==
    Cardinality({c \in Conns : mach[c].started}) = IF transferActive THEN 1 ELSE 0

\* Between operations the machine is not left in a transfer mode, in which it
\* would refuse every later transfer of this connection.
LeavesTransferMode ==
    op = None /\ sock # 0 /\ up[sock] = <<>> => mach[sock].mode = "idle"

\* Every operation returns.
OperationsEnd == op # None ~> op = None

\* A transfer that reports success has moved the file (Upload, Download), and no
\* operation takes the answer to one of another sort for its own.
ResultsAreTrue == UploadedIsStored /\ DownloadIsWhole /\ MistakenForItsLike

\* A transfer ends at both ends, also when frames are lost or the connection
\* is replaced: the call returns, the slot is free and the machine is not left
\* in a transfer mode.
TransfersEnd == [](LeavesTransferMode /\ SlotHasOneHolder) /\ OperationsEnd
=============================================================================
