---------------------------- MODULE MachineLink ----------------------------
(***************************************************************************)
(* The machine's end of a connection: the frame handler, its upload and     *)
(* download modes, and the file commands.  Frames travel in order in both    *)
(* directions; a frame may be lost on the way, and a connection the client   *)
(* closed ends its handler some time later.                                  *)
(*                                                                          *)
(* Files are sequences of bytes.  A digest stands for the bytes it is of,    *)
(* and a QuickLZ container is a header that tells the length, then the       *)
(* bytes.                                                                    *)
(***************************************************************************)
EXTENDS Naturals, Sequences, FiniteSets

CONSTANTS
    Paths,        \* file names of the machine
    NoFile,       \* no such file
    PacketSize,   \* bytes in a packet
    MaxConns,     \* bound: connections that are dialled
    Scenes        \* what a behaviour does and which faults it meets

VARIABLES
    scene,           \* the scene of this behaviour
    up, down,        \* frames under way to the machine, and to the client
    open,            \* the connections the client has open
    mach,            \* per connection, the state of its handler
    files,           \* FakeMachine.files
    transferActive,  \* FakeMachine.transferActive
    job,             \* what the machine plays: a path, or NoFile when it is Idle
    faults           \* frames lost or damaged, and jobs started, so far

link == <<up, down, open, mach, files, transferActive, job, faults>>

Conns == 1..MaxConns
Smaller(a, b) == IF a < b THEN a ELSE b
Frame(cmd, arg, data, id) == [cmd |-> cmd, arg |-> arg, data |-> data, id |-> id]

\* An empty file is one (empty) packet.
Packets(data) ==
    IF data = <<>> THEN 1 ELSE (Len(data) + PacketSize - 1) \div PacketSize

\* The bytes of packet seq; packet 0 lies past the end of every file, its
\* offset having wrapped.
Chunk(data, seq) ==
    IF seq = 0 THEN <<>>
    ELSE SubSeq(data, (seq - 1) * PacketSize + 1, Smaller(seq * PacketSize, Len(data)))

Header(data) == 90 + Len(data)
CompressLZ(data) == <<Header(data)>> \o data
IsContainer(data) == data # <<>> /\ Head(data) = Header(Tail(data))

NewHandler ==
    [mode |-> "idle", path |-> NoFile, lz |-> FALSE, total |-> 0, next |-> 0,
     received |-> <<>>, sending |-> <<>>, started |-> FALSE, alive |-> FALSE]

LinkInit ==
    /\ scene \in Scenes
    /\ up = [c \in Conns |-> <<>>] /\ down = [c \in Conns |-> <<>>]
    /\ open = {}
    /\ mach = [c \in Conns |-> NewHandler]
    /\ files = scene.files
    /\ transferActive = FALSE
    /\ job = NoFile
    /\ faults = [lost |-> 0, lostUp |-> 0, damaged |-> 0, jobs |-> 0]

fileOpsIdle == job = NoFile

-----------------------------------------------------------------------------
(* What the handler does with the frame it takes.                           *)

\* The frame is taken and these are sent; what is sent to a closed connection
\* goes nowhere.
Reply(c, frames) ==
    /\ up' = [up EXCEPT ![c] = Tail(@)]
    /\ down' = IF c \in open THEN [down EXCEPT ![c] = @ \o frames] ELSE down
    /\ UNCHANGED <<scene, open, job, faults>>

Says(f, text) == Frame("info", text, <<>>, f.id)
Busy(f) == <<Frame("cancel", "ok", <<>>, f.id), Says(f, "error")>>

\* FILE_START download.  The names of the transfer are set before it is known
\* whether it may begin.
StartDownload(c, f) ==
    LET m == [mach[c] EXCEPT !.path = f.arg, !.lz = FALSE, !.received = <<>>, !.next = 0]
        data == IF scene.compressDownloads THEN CompressLZ(files[f.arg]) ELSE files[f.arg]
    IN  \/ /\ transferActive \/ (~fileOpsIdle /\ job # f.arg)
           /\ mach' = [mach EXCEPT ![c] = m]
           /\ Reply(c, Busy(f))
           /\ UNCHANGED <<files, transferActive>>
        \/ /\ ~transferActive /\ (fileOpsIdle \/ job = f.arg)
           /\ files[f.arg] = NoFile
           /\ mach' = [mach EXCEPT ![c] = [m EXCEPT !.mode = "idle"]]
           /\ Reply(c, <<Frame("cancel", "not found", <<>>, f.id)>>)
           /\ UNCHANGED <<files, transferActive>>
        \/ /\ ~transferActive /\ (fileOpsIdle \/ job = f.arg)
           /\ files[f.arg] # NoFile
           /\ mach' = [mach EXCEPT ![c] = [m EXCEPT !.started = TRUE, !.mode = "download",
                                                    !.sending = data, !.total = Packets(data)]]
           /\ transferActive' = TRUE
           /\ Reply(c, <<Frame("md5", 0, files[f.arg], f.id)>>)
           /\ UNCHANGED files

\* FILE_START upload; a name ending in .lz announces a container.
StartUpload(c, f) ==
    LET m == [mach[c] EXCEPT !.path = f.arg, !.lz = (f.cmd = "upload.lz"),
                             !.received = <<>>, !.next = 0]
        begins == ~transferActive /\ fileOpsIdle
    IN  /\ mach' = [mach EXCEPT ![c] =
              IF begins THEN [m EXCEPT !.started = TRUE, !.mode = "upload"] ELSE m]
        /\ transferActive' = (transferActive \/ begins)
        /\ Reply(c, IF begins THEN <<>> ELSE Busy(f))
        /\ UNCHANGED files

\* FILE_MD5 and FILE_VIEW.
TakeMD5(c, f) ==
    /\ Reply(c, IF mach[c].mode = "upload" THEN <<Frame("view", 0, <<>>, f.id)>> ELSE <<>>)
    /\ UNCHANGED <<mach, files, transferActive>>

TakeView(c, f) ==
    /\ mach' = IF mach[c].mode = "upload"
               THEN [mach EXCEPT ![c].total = f.arg, ![c].next = 1] ELSE mach
    /\ Reply(c, CASE mach[c].mode = "upload"   -> <<Frame("data", 1, <<>>, f.id)>>
                  [] mach[c].mode = "download" -> <<Frame("view", mach[c].total, <<>>, f.id)>>
                  [] OTHER                     -> <<>>)
    /\ UNCHANGED <<files, transferActive>>

\* releaseTransfer and the return to idle mode.
Released(c) == [mach EXCEPT ![c].started = FALSE, ![c].mode = "idle"]

StillActive(c) == transferActive /\ ~mach[c].started

\* FILE_DATA in upload mode: the packet asked for is appended, another is asked
\* for, and the last stores the file.
Receive(c, f) ==
    LET m == mach[c]
        got == m.received \o f.data
        bad == m.lz /\ ~IsContainer(got)
    IN  \/ /\ f.arg # m.next
           /\ Reply(c, <<Frame("data", m.next, <<>>, f.id)>>)
           /\ UNCHANGED <<mach, files, transferActive>>
        \/ /\ f.arg = m.next /\ f.arg < m.total
           /\ mach' = [mach EXCEPT ![c].received = got, ![c].next = @ + 1]
           /\ Reply(c, <<Frame("data", m.next + 1, <<>>, f.id)>>)
           /\ UNCHANGED <<files, transferActive>>
        \/ /\ f.arg = m.next /\ f.arg >= m.total
           /\ mach' = [Released(c) EXCEPT ![c].received = got]
           /\ transferActive' = StillActive(c)
           /\ files' = IF bad THEN files
                       ELSE [files EXCEPT ![m.path] = IF m.lz THEN Tail(got) ELSE got]
           /\ Reply(c, <<Frame(IF bad THEN "cancel" ELSE "end", "decompress failed", <<>>, f.id)>>)

\* FILE_DATA in download mode: a request.  One past the end is not answered.
SendDownloadPacket(c, f) ==
    LET m == mach[c]
        known == f.arg > 0 /\ (f.arg - 1) * PacketSize <= Len(m.sending)
    IN  /\ Reply(c, IF known THEN <<Frame("data", f.arg, Chunk(m.sending, f.arg), f.id)>> ELSE <<>>)
        /\ UNCHANGED <<mach, files, transferActive>>

TakeData(c, f) ==
    \/ mach[c].mode = "upload" /\ Receive(c, f)
    \/ mach[c].mode = "download" /\ SendDownloadPacket(c, f)
    \/ mach[c].mode = "idle" /\ Reply(c, <<>>) /\ UNCHANGED <<mach, files, transferActive>>

\* FILE_END acknowledges a download, and is answered.
TakeEnd(c, f) ==
    IF mach[c].mode = "download"
    THEN /\ mach' = Released(c) /\ transferActive' = StillActive(c)
         /\ Reply(c, <<Frame("end", "", <<>>, f.id)>>)
         /\ UNCHANGED files
    ELSE Reply(c, <<>>) /\ UNCHANGED <<mach, files, transferActive>>

\* '?' and PLAY_STATUS.
TakeQuery(c, f) ==
    /\ Reply(c, <<Frame("status", job, <<>>, f.id)>>)
    /\ UNCHANGED <<mach, files, transferActive>>

TakePlayStatus(c, f) ==
    /\ Reply(c, <<Frame("play", job, <<>>, f.id)>>)
    /\ UNCHANGED <<mach, files, transferActive>>

-----------------------------------------------------------------------------
(* handleManaged: console commands.                                         *)

Listing == {p \in Paths : files[p] # NoFile}

TakeLs(c, f) ==
    /\ Reply(c, IF ~fileOpsIdle THEN <<Frame("load error", "error", <<>>, f.id)>>
                ELSE <<Frame("load info", Listing, <<>>, f.id), Frame("load finish", "", <<>>, f.id)>>)
    /\ UNCHANGED <<mach, files, transferActive>>

TakeMd5sum(c, f) ==
    /\ Reply(c, <<CASE ~fileOpsIdle            -> Says(f, "error")
                    [] files[f.arg] = NoFile   -> Says(f, "not found")
                    [] OTHER                   -> Frame("info", "digest", files[f.arg], f.id)>>)
    /\ UNCHANGED <<mach, files, transferActive>>

TakeRm(c, f) ==
    /\ files' = IF fileOpsIdle THEN [files EXCEPT ![f.arg] = NoFile] ELSE files
    /\ Reply(c, <<Frame(IF fileOpsIdle THEN "load finish" ELSE "load error", "", <<>>, f.id)>>)
    /\ UNCHANGED <<mach, transferActive>>

\* mv, to the path that the frame's data names
TakeMv(c, f) ==
    /\ files' = IF fileOpsIdle /\ files[f.arg] # NoFile
                THEN [files EXCEPT ![f.arg] = NoFile, ![Head(f.data)] = files[f.arg]] ELSE files
    /\ Reply(c, <<Frame(IF fileOpsIdle THEN "load finish" ELSE "load error", "", <<>>, f.id)>>)
    /\ UNCHANGED <<mach, transferActive>>

TakeFtype(c, f) ==
    /\ Reply(c, <<Frame("info", "ftype", <<>>, f.id)>>)
    /\ UNCHANGED <<mach, files, transferActive>>

\* A command line: a query is answered, a motion is not.
TakeCommand(c, f) ==
    /\ Reply(c, IF f.arg = "query" THEN <<Says(f, "ok")>> ELSE <<>>)
    /\ UNCHANGED <<mach, files, transferActive>>

\* FakeMachine.handle: one frame.
MachineTakes(c) ==
    /\ mach[c].alive /\ up[c] # <<>>
    /\ LET f == Head(up[c]) IN
         \/ f.cmd = "download" /\ StartDownload(c, f)
         \/ f.cmd \in {"upload", "upload.lz"} /\ StartUpload(c, f)
         \/ f.cmd = "md5" /\ TakeMD5(c, f)
         \/ f.cmd = "view" /\ TakeView(c, f)
         \/ f.cmd = "data" /\ TakeData(c, f)
         \/ f.cmd = "end" /\ TakeEnd(c, f)
         \/ f.cmd = "?" /\ TakeQuery(c, f)
         \/ f.cmd = "play" /\ TakePlayStatus(c, f)
         \/ f.cmd = "ls" /\ TakeLs(c, f)
         \/ f.cmd = "md5sum" /\ TakeMd5sum(c, f)
         \/ f.cmd = "rm" /\ TakeRm(c, f)
         \/ f.cmd = "mv" /\ TakeMv(c, f)
         \/ f.cmd = "ftype" /\ TakeFtype(c, f)
         \/ f.cmd = "multi" /\ TakeCommand(c, f)

\* The handler returns: the client has closed the connection, or has been
\* silent for the read deadline.  Frames not taken yet are lost with it.
HandlerReturns(c) ==
    /\ mach[c].alive
    /\ c \notin open \/ (scene.silent /\ up[c] = <<>> /\ down[c] = <<>>)
    /\ mach' = [mach EXCEPT ![c] = NewHandler]
    /\ transferActive' = StillActive(c)
    /\ up' = [up EXCEPT ![c] = <<>>]
    /\ UNCHANGED <<scene, down, open, files, job, faults>>

-----------------------------------------------------------------------------
(* Faults, and the machine's jobs.                                          *)

\* A frame lost on the Wi-Fi bridge.
LoseUp(c) ==
    /\ faults.lostUp < scene.lostUp /\ up[c] # <<>> /\ mach[c].alive
    /\ up' = [up EXCEPT ![c] = Tail(@)]
    /\ faults' = [faults EXCEPT !.lostUp = @ + 1]
    /\ UNCHANGED <<scene, down, open, mach, files, transferActive, job>>

LoseDown(c) ==
    /\ faults.lost < scene.lost /\ down[c] # <<>>
    /\ down' = [down EXCEPT ![c] = Tail(@)]
    /\ faults' = [faults EXCEPT !.lost = @ + 1]
    /\ UNCHANGED <<scene, up, open, mach, files, transferActive, job>>

\* The firmware cannot read a frame of an upload and asks for it again.
AskAgain(c) ==
    /\ faults.damaged < scene.damaged
    /\ mach[c].alive /\ mach[c].mode = "upload" /\ up[c] # <<>>
    /\ Head(up[c]).cmd \in {"md5", "view", "data"}
    /\ up' = [up EXCEPT ![c] = Tail(@)]
    /\ down' = IF c \in open
               THEN [down EXCEPT ![c] = Append(@, Frame("retry", "", <<>>, Head(up[c]).id))] ELSE down
    /\ faults' = [faults EXCEPT !.damaged = @ + 1]
    /\ UNCHANGED <<scene, open, mach, files, transferActive, job>>

JobStarts(p) ==
    /\ fileOpsIdle /\ faults.jobs < scene.jobs /\ files[p] # NoFile
    /\ job' = p
    /\ faults' = [faults EXCEPT !.jobs = @ + 1]
    /\ UNCHANGED <<scene, up, down, open, mach, files, transferActive>>

JobEnds ==
    /\ ~fileOpsIdle
    /\ job' = NoFile
    /\ UNCHANGED <<scene, up, down, open, mach, files, transferActive, faults>>

LinkNext ==
    \/ \E c \in Conns : MachineTakes(c) \/ HandlerReturns(c) \/ LoseUp(c) \/ LoseDown(c) \/ AskAgain(c)
    \/ \E p \in Paths : JobStarts(p)
    \/ JobEnds
=============================================================================
