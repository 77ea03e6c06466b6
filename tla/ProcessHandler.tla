--------------------------- MODULE ProcessHandler ---------------------------
(***************************************************************************)
(* Engine/ProcessHandler: the render of a job in a background process.     *)
(*                                                                         *)
(* The ProcessHandler lives in the main thread of the GUI; the background  *)
(* process has a main thread, which renders, and a ProcessInputChannel     *)
(* thread, which listens to the GUI.  The two processes talk through two   *)
(* local sockets, one line per message, that never lose or reorder lines;  *)
(* what may happen is that a line is read late, or by nobody.              *)
(***************************************************************************)
EXTENDS Integers, Sequences

CONSTANTS
    Jobs,           \* the RenderQueueItems, each with its ProcessHandler
    MayFail,        \* the process of these jobs may fail to start or crash
    GuiMayBeSlow,   \* the GUI may take more than 5 s to answer the process
    MaxFrames       \* bound: the frames a process renders

ASSUME ProcessAssumption ==
    MayFail \subseteq Jobs /\ GuiMayBeSlow \in BOOLEAN /\ MaxFrames \in Nat

VARIABLES
    proc,           \* where the main thread of the process is
    channel,        \* where its ProcessInputChannel thread is
    mustQuit,       \* ProcessInputChannel::_mustQuit
    inputPipe,      \* _backgroundInputPipe is set
    abortSeen,      \* the render of the process is being aborted
    frames,         \* frames it has rendered
    toGui,          \* lines the process wrote that the GUI has not read
    readyRead,      \* a readyRead() of the output socket is due
    outputSocket,   \* _bgProcessOutputSocket is set
    inputSocket,    \* _bgProcessInputSocket is set
    earlyCancel,
    aborts,         \* abort lines in the input socket
    ended           \* onProcessEnd() was called

pipeVars == <<mustQuit, inputPipe, abortSeen, frames, toGui, readyRead, outputSocket,
              inputSocket, earlyCancel, aborts>>
processVars == <<proc, channel, pipeVars, ended>>

ProcLabels == {"none", "starting", "failed", "connect", "await", "load", "start",
               "render", "exit", "flag", "test", "sleep", "over", "crashed", "dead"}
Lines == {"ServerCreated", "RenderingStarted", "FrameRendered", "RenderingFinished"}

ProcessTypeOK ==
    /\ proc \in [Jobs -> ProcLabels] /\ channel \in [Jobs -> {"off", "run", "over"}]
    /\ \A s \in {mustQuit, inputPipe, abortSeen, readyRead, outputSocket, inputSocket,
                 earlyCancel, ended} : s \in [Jobs -> BOOLEAN]
    /\ frames \in [Jobs -> 0 .. MaxFrames] /\ aborts \in [Jobs -> 0 .. 2]
    /\ \A j \in Jobs : toGui[j] \in Seq(Lines)

ProcessInit ==
    /\ proc = [j \in Jobs |-> "none"] /\ channel = [j \in Jobs |-> "off"]
    /\ mustQuit = [j \in Jobs |-> FALSE] /\ inputPipe = [j \in Jobs |-> FALSE]
    /\ abortSeen = [j \in Jobs |-> FALSE] /\ frames = [j \in Jobs |-> 0]
    /\ toGui = [j \in Jobs |-> <<>>] /\ readyRead = [j \in Jobs |-> FALSE]
    /\ outputSocket = [j \in Jobs |-> FALSE] /\ inputSocket = [j \in Jobs |-> FALSE]
    /\ earlyCancel = [j \in Jobs |-> FALSE] /\ aborts = [j \in Jobs |-> 0]
    /\ ended = [j \in Jobs |-> FALSE]

Set(f, j, v) == [f EXCEPT ![j] = v]
ProcessMove(j, label) == proc' = Set(proc, j, label)

-----------------------------------------------------------------------------
(* The GUI: main thread *)

(* A process that does not start emits error(), never finished() *)
StartProcess(j) ==
    /\ proc[j] = "none"
    /\ ProcessMove(j, "starting")
    /\ UNCHANGED <<channel, pipeVars, ended>>

WriteAbort(j) == aborts' = Set(aborts, j, IF aborts[j] = 2 THEN 2 ELSE aborts[j] + 1)

ReadConnection(j) ==
    /\ readyRead[j] /\ toGui[j] # <<>> /\ Head(toGui[j]) = "ServerCreated"
    /\ inputSocket' = Set(inputSocket, j, TRUE)
    /\ UNCHANGED <<earlyCancel, aborts>>

(* waitForConnected(5000) returns at once: the socket is connected *)
EarlyCancelSent_Forgotten(j) == UNCHANGED <<earlyCancel, aborts>>
EarlyCancelSent(j) == earlyCancel' = Set(earlyCancel, j, FALSE) /\ WriteAbort(j)

ReadStarted(j) ==
    /\ readyRead[j] /\ toGui[j] # <<>> /\ Head(toGui[j]) = "RenderingStarted"
    /\ IF earlyCancel[j] THEN EarlyCancelSent(j) ELSE UNCHANGED <<earlyCancel, aborts>>
    /\ UNCHANGED inputSocket

ReadProgress(j) ==
    /\ readyRead[j] /\ toGui[j] # <<>>
    /\ Head(toGui[j]) \in {"FrameRendered", "RenderingFinished"}
    /\ UNCHANGED <<inputSocket, earlyCancel, aborts>>

(* One line is read for each readyRead(), however many lines have come *)
OnDataWrittenToSocket(j) ==
    /\ ReadConnection(j) \/ ReadStarted(j) \/ ReadProgress(j)
    /\ toGui' = Set(toGui, j, Tail(toGui[j]))
    /\ readyRead' = Set(readyRead, j, FALSE)
    /\ UNCHANGED <<proc, channel, mustQuit, inputPipe, abortSeen, frames, outputSocket,
                   ended>>

(* ProcessHandler::onProcessCanceled() *)
CancelProcess(j) ==
    /\ IF inputSocket[j] THEN WriteAbort(j) /\ UNCHANGED earlyCancel
                         ELSE earlyCancel' = Set(earlyCancel, j, TRUE) /\ UNCHANGED aborts
    /\ UNCHANGED <<proc, channel, mustQuit, inputPipe, abortSeen, frames, toGui,
                   readyRead, outputSocket, inputSocket, ended>>

OnNewConnectionPending(j) ==
    /\ proc[j] \notin {"none", "starting", "failed", "connect"}
    /\ ~outputSocket[j] /\ ~ended[j]
    /\ outputSocket' = Set(outputSocket, j, TRUE)
    /\ readyRead' = Set(readyRead, j, toGui[j] # <<>>)
    /\ UNCHANGED <<proc, channel, mustQuit, inputPipe, abortSeen, frames, toGui,
                   inputSocket, earlyCancel, aborts, ended>>

-----------------------------------------------------------------------------
(* The background process: its main thread and its render *)

(* writeToOutputChannel(): the GUI gets a readyRead() for what has come *)
WriteLine(j, line) ==
    /\ toGui' = Set(toGui, j, Append(toGui[j], line))
    /\ readyRead' = Set(readyRead, j, outputSocket[j])

ProcessStarts(j) ==
    /\ proc[j] = "starting"
    /\ \/ ProcessMove(j, "connect")
       \/ j \in MayFail /\ ProcessMove(j, "failed")
    /\ UNCHANGED <<channel, pipeVars, ended>>

(* initialize(): connects to the GUI, announces its own server... *)
Announce(j) ==
    /\ proc[j] = "connect"
    /\ WriteLine(j, "ServerCreated") /\ ProcessMove(j, "await")
    /\ UNCHANGED <<channel, mustQuit, inputPipe, abortSeen, frames, outputSocket,
                   inputSocket, earlyCancel, aborts, ended>>

(* ...and waits 5 s for the GUI to connect to it.  Then start() *)
EndOfWait(j) ==
    /\ proc[j] = "await" /\ (inputSocket[j] \/ GuiMayBeSlow)
    /\ inputPipe' = Set(inputPipe, j, inputSocket[j])
    /\ channel' = Set(channel, j, "run")
    /\ ProcessMove(j, "load")
    /\ UNCHANGED <<mustQuit, abortSeen, frames, toGui, readyRead, outputSocket,
                   inputSocket, earlyCancel, aborts, ended>>

(* The project is loaded; the scheduler thread starts and says so *)
LoadProject(j) ==
    /\ proc[j] = "load" /\ ProcessMove(j, "start")
    /\ UNCHANGED <<channel, pipeVars, ended>>

RenderingStarts(j) ==
    /\ proc[j] = "start"
    /\ WriteLine(j, "RenderingStarted") /\ ProcessMove(j, "render")
    /\ UNCHANGED <<channel, mustQuit, inputPipe, abortSeen, frames, outputSocket,
                   inputSocket, earlyCancel, aborts, ended>>

FramesLeft(j) == frames[j] < MaxFrames

RenderFrame(j) ==
    /\ proc[j] = "render" /\ ~abortSeen[j] /\ FramesLeft(j)
    /\ frames' = Set(frames, j, frames[j] + 1)
    /\ WriteLine(j, "FrameRendered")
    /\ UNCHANGED <<proc, channel, mustQuit, inputPipe, abortSeen, outputSocket,
                   inputSocket, earlyCancel, aborts, ended>>

RenderingEnds(j) ==
    /\ proc[j] = "render" /\ (abortSeen[j] \/ ~FramesLeft(j))
    /\ WriteLine(j, "RenderingFinished") /\ ProcessMove(j, "exit")
    /\ UNCHANGED <<channel, mustQuit, inputPipe, abortSeen, frames, outputSocket,
                   inputSocket, earlyCancel, aborts, ended>>

(* ~ProcessInputChannel(): reads isRunning(), sets the flag, and waits     *)
(* without holding the mutex the thread notifies under.                    *)
Exit(j) ==
    /\ proc[j] = "exit"
    /\ ProcessMove(j, IF channel[j] = "run" THEN "flag" ELSE "over")
    /\ UNCHANGED <<channel, pipeVars, ended>>

AskChannelToQuit(j) ==
    /\ proc[j] = "flag"
    /\ mustQuit' = Set(mustQuit, j, TRUE) /\ ProcessMove(j, "test")
    /\ UNCHANGED <<channel, inputPipe, abortSeen, frames, toGui, readyRead,
                   outputSocket, inputSocket, earlyCancel, aborts, ended>>

TestMustQuit(j) ==
    /\ proc[j] = "test"
    /\ ProcessMove(j, IF mustQuit[j] THEN "sleep" ELSE "over")
    /\ UNCHANGED <<channel, pipeVars, ended>>

Crash(j) ==
    /\ j \in MayFail /\ proc[j] \in {"load", "render"}
    /\ ProcessMove(j, "crashed") /\ channel' = Set(channel, j, "over")
    /\ UNCHANGED <<pipeVars, ended>>

-----------------------------------------------------------------------------
(* The background process: run() of its ProcessInputChannel *)

Lives(j) == proc[j] \notin {"over", "crashed", "dead"}

(* Without a connection run() uses a null pointer *)
CrashWithoutPipe(j) ==
    /\ channel[j] = "run" /\ Lives(j) /\ ~inputPipe[j]
    /\ ProcessMove(j, "crashed") /\ channel' = Set(channel, j, "over")
    /\ UNCHANGED <<pipeVars, ended>>

(* abortAnyProcessing() quits what renders at that time; the thread is     *)
(* over after the first abort.                                             *)
AbortsRender(j) == proc[j] \in {"start", "render"}

ReceiveAbort(j) ==
    /\ channel[j] = "run" /\ Lives(j) /\ inputPipe[j] /\ aborts[j] > 0
    /\ aborts' = Set(aborts, j, aborts[j] - 1)
    /\ abortSeen' = Set(abortSeen, j, abortSeen[j] \/ AbortsRender(j))
    /\ channel' = Set(channel, j, "over")
    /\ UNCHANGED <<proc, mustQuit, inputPipe, frames, toGui, readyRead, outputSocket,
                   inputSocket, earlyCancel, ended>>

(* Nothing came for 100 ms: _mustQuit is tested, and wakeOne() only wakes  *)
(* a thread that waits already.                                            *)
ChannelQuits(j) ==
    /\ channel[j] = "run" /\ Lives(j) /\ inputPipe[j] /\ mustQuit[j]
    /\ mustQuit' = Set(mustQuit, j, FALSE)
    /\ channel' = Set(channel, j, "over")
    /\ proc' = IF proc[j] = "sleep" THEN Set(proc, j, "test") ELSE proc
    /\ UNCHANGED <<inputPipe, abortSeen, frames, toGui, readyRead, outputSocket,
                   inputSocket, earlyCancel, aborts, ended>>

(* Both processes are through with the sockets *)
ForgetPipes(j) ==
    /\ toGui' = Set(toGui, j, <<>>) /\ aborts' = Set(aborts, j, 0)
    /\ readyRead' = Set(readyRead, j, FALSE) /\ frames' = Set(frames, j, 0)
    /\ inputPipe' = Set(inputPipe, j, FALSE) /\ mustQuit' = Set(mustQuit, j, FALSE)
    /\ UNCHANGED <<channel, abortSeen, outputSocket, inputSocket, earlyCancel>>

-----------------------------------------------------------------------------
BackgroundStep(j) ==
    \/ ProcessStarts(j) \/ Announce(j) \/ EndOfWait(j) \/ LoadProject(j)
    \/ RenderingStarts(j) \/ RenderFrame(j) \/ RenderingEnds(j) \/ Exit(j)
    \/ AskChannelToQuit(j) \/ TestMustQuit(j) \/ Crash(j)

ChannelStep(j) == CrashWithoutPipe(j) \/ ReceiveAbort(j) \/ ChannelQuits(j)

(* What the event loop of the GUI does for the sockets *)
SocketStep(j) == OnDataWrittenToSocket(j) \/ OnNewConnectionPending(j)

(* A process that will never report its end: it did not start, or its two  *)
(* threads missed each other when it exits.                                *)
HungInExit(j)    == proc[j] = "sleep" /\ channel[j] = "over"
NeverReports(j)  == proc[j] = "failed" \/ HungInExit(j)
=============================================================================
