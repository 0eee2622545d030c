---------------------------- MODULE MCMachineOps ----------------------------
(* Two clients.  The work is at height 0, travel at 3; a program travels     *)
(* twice.                                                                   *)
EXTENDS MachineOps

MCClients == {"a", "b"}
MCJob == <<1, 0>>
MCLimits == 0..2
Call(op, kind, v) == [op |-> op, kind |-> kind, v |-> v]
At2 == [Machine EXCEPT !.m["z"] = 2, !.w["z"] = 1]
Playing == [startProgram(At2) EXCEPT !.rpm = 1]
Halted == Halt(At2, 10)
Scene(machine, a, b) ==
    [machine |-> machine, calls |-> [c \in MCClients |-> IF c = "a" THEN a ELSE b],
     alarmLock |-> TRUE, unlockClears |-> TRUE, vacuum |-> TRUE, anchors |-> TRUE, panel |-> FALSE,
     observed |-> FALSE, lose |-> 0, control |-> 0, play |-> 0, controls |-> {}, codes |-> {}]
Stops == {"hold", "resume", "halt"}

Raise == Call("paused", "raise_z", 2)
Spindle == Call("paused", "start_spindle", 2)
StopSpindle == Call("paused", "stop_spindle", 0)
Pause == Call("pause", "", 0)
ResumeCall == Call("resume", "", 0)
Mdi(line, v) == Call("gcode", line, v)
Probing1 == Call("probe", "", 1)
Trace == Call("trace", "", 0)
Auto == Call("zero", "auto", 0)
Floor == Call("zero", "floor", 0)
Recover(kind) == Call("recover", kind, 0)

MCScenes == <<
    \* a job is paused, worked on by hand and resumed
    [Scene(Playing, <<Pause, Raise, ResumeCall>>, <<Spindle>>)
        EXCEPT !.control = 1, !.controls = Stops, !.lose = 1],
    Scene(Playing, <<Pause, StopSpindle, ResumeCall>>, <<Pause>>),
    [Scene(Playing, <<Call("feed", "", 150), Call("feed", "", 300)>>, <<Call("vacuum", "", 1), Mdi("M220", 50)>>)
        EXCEPT !.control = 2, !.controls = Stops, !.lose = 1],
    [Scene(At2, <<Call("vacuum", "", 1), Call("origin", "anchor", 1), Call("origin", "machine", 1)>>,
           <<Mdi("report", 0), Mdi("G38", 1)>>) EXCEPT !.vacuum = FALSE, !.anchors = FALSE],
    \* probing next to lines sent by hand
    [Scene(At2, <<Probing1>>, <<Mdi("G53Z", 1)>>) EXCEPT !.observed = TRUE, !.control = 1, !.controls = {"halt"}],
    [Scene(At2, <<Probing1, Probing1>>, <<Mdi("G53Z", 1)>>) EXCEPT !.control = 1, !.controls = Stops],
    [Scene([At2 EXCEPT !.m["z"] = -1], <<Auto, Probing1>>, <<>>) EXCEPT !.control = 2, !.controls = Stops, !.lose = 1],
    \* a trace next to a new work origin
    [Scene(At2, <<Trace>>, <<Call("origin", "anchor", 0), Trace>>) EXCEPT !.control = 1, !.controls = Stops, !.lose = 1],
    [Scene(At2, <<Trace>>, <<Auto>>) EXCEPT !.control = 2, !.controls = Stops],
    [Scene(At2, <<Floor, Auto>>, <<Mdi("G90X", 1)>>) EXCEPT !.control = 1, !.controls = Stops, !.lose = 1],
    \* a program that the controller starts
    [Scene(At2, <<Floor, Trace>>, <<Mdi("G53X", 1)>>) EXCEPT !.play = 1, !.observed = TRUE],
    [Scene([At2 EXCEPT !.tool = Probe3DTool], <<Call("probe3d", "", 1), Auto>>, <<>>)
        EXCEPT !.play = 1, !.lose = 1, !.control = 1, !.controls = {"halt"}],
    \* tools
    [Scene(At2, <<Call("change_tool", "", 1), Call("continue", "", 0), Call("calibrate_tool", "", 0)>>,
                <<Call("set_tool", "", Probe3DTool), Call("probe3d", "", 1), Probing1>>) EXCEPT !.lose = 1, !.observed = TRUE],
    [Scene(At2, <<Call("change_tool", "", Laser), Call("continue", "", 0), Call("drop_tool", "", 0)>>, <<Call("continue", "", 0)>>)
        EXCEPT !.control = 1, !.controls = {"halt"}],
    \* alarms
    [Scene(Halted, <<Recover("recover"), Recover("home")>>, <<Recover("unlock"), Mdi("G53X", 1)>>)
        EXCEPT !.unlockClears = FALSE, !.control = 1, !.codes = {30, 41}],
    [Scene(Halted, <<Recover("recover"), Recover("reset")>>, <<Recover("home")>>)
        EXCEPT !.control = 1, !.codes = {30, 41}, !.controls = {"halt"}, !.lose = 1, !.observed = TRUE],
    \* the simulator takes lines in Alarm
    [Scene(At2, <<Floor, Auto>>, <<>>) EXCEPT !.control = 1, !.controls = {"halt"}, !.alarmLock = FALSE]>>

\* The smallest scenes for what the code does not keep.
MCGateScenes == <<[Scene(At2, <<Mdi("G53X", 1)>>, <<>>) EXCEPT !.play = 1]>>
MCToolScenes == <<Scene(At2, <<Probing1>>, <<Call("set_tool", "", 1)>>)>>
MCReasonScenes ==
    <<[Scene(Halted, <<Recover("unlock")>>, <<Recover("unlock")>>) EXCEPT !.control = 1, !.codes = {41}]>>
MCAlarmScenes ==
    <<[Scene(At2, <<Probing1>>, <<>>) EXCEPT !.control = 1, !.controls = {"halt"}, !.alarmLock = FALSE]>>
=============================================================================
