------------------------- MODULE RenderQueue_proofs -------------------------
(* Theorems about RenderQueue and ProcessHandler, for any writers and jobs. *)
EXTENDS RenderQueue, Subsequences_proofs, SequenceTheorems, FiniteSetTheorems, TLAPS

USE ProcessAssumption, RenderQueueAssumption

-----------------------------------------------------------------------------
(* The invariants *)

JobsOf(w) == {j \in Jobs : WriterOf[j] = w}
TaskRecords == [jobs : SUBSET Jobs, canceled : BOOLEAN, job : Jobs \cup {NoJob}]
EventRecords == [to : {"app", "task"}, writer : Writers, job : Jobs \cup {NoJob}]
FrameRecords == [step : Steps, job : Jobs]
BlockingLabels == {"idle", "call", "locked", "waiting", "over"}

(* The variables of ProcessHandler are functions of the jobs.              *)
PipeTypes ==
    /\ proc \in [Jobs -> ProcLabels] /\ channel \in [Jobs -> {"off", "run", "over"}]
    /\ mustQuit \in [Jobs -> BOOLEAN] /\ inputPipe \in [Jobs -> BOOLEAN]
    /\ abortSeen \in [Jobs -> BOOLEAN] /\ readyRead \in [Jobs -> BOOLEAN]
    /\ outputSocket \in [Jobs -> BOOLEAN] /\ inputSocket \in [Jobs -> BOOLEAN]
    /\ earlyCancel \in [Jobs -> BOOLEAN] /\ ended \in [Jobs -> BOOLEAN]
    /\ frames \in [Jobs -> 0 .. MaxFrames] /\ aborts \in [Jobs -> 0 .. 2]
    /\ toGui \in [Jobs -> Seq(Lines)]

MainTypes ==
    /\ mode \in Modes /\ queuing \in BOOLEAN /\ everUnqueued \in BOOLEAN
    /\ renderQueue \in Seq(Jobs) /\ activeRenders \in Seq(Jobs)
    /\ task \in [Writers -> TaskRecords]
    /\ events \in Seq(EventRecords) /\ todo \in Seq(FrameRecords)
    /\ blocking \in [Jobs -> BlockingLabels]
    /\ asked \subseteq Jobs /\ rendered \subseteq Jobs /\ canceled \subseteq Jobs

EngineTypes ==
    /\ requests \in [Writers -> Seq(Jobs)] /\ enqueued \in [Writers -> Seq(Jobs)]
    /\ late \in [Writers -> Seq(Jobs)] /\ engine \in [Writers -> EngineLabels]
    /\ current \in [Writers -> Jobs \cup {NoJob}]
    /\ abortRequested \in [Writers -> BOOLEAN] /\ wasAborted \in [Writers -> BOOLEAN]
    /\ \A w \in Writers : Range(requests[w]) \subseteq JobsOf(w)

(* The first request of a writer is in one of the queues of its scheduler, *)
(* or is what its scheduler renders.                                       *)
FirstRequest(w) == <<Head(requests[w])>>
RequestInHand(w) ==
    \/ requests[w] = <<>> /\ enqueued[w] = <<>> /\ late[w] = <<>>
         /\ engine[w] \in {"idle", "reset"}
    \/ requests[w] # <<>> /\ enqueued[w] = FirstRequest(w) /\ late[w] = <<>>
         /\ engine[w] \in {"idle", "reset"}
    \/ requests[w] # <<>> /\ enqueued[w] = <<>> /\ late[w] = FirstRequest(w)
         /\ engine[w] \in {"idle", "reset"}
    \/ requests[w] # <<>> /\ enqueued[w] = <<>> /\ late[w] = <<>>
         /\ engine[w] \in {"render", "report", "notify", "notified"}
         /\ current[w] = Head(requests[w])
RequestsInHand == \A w \in Writers : RequestInHand(w)

(* A task is connected to jobs of its writer, the last one among them.     *)
TaskIsOf(w) ==
    /\ task[w].jobs \subseteq JobsOf(w)
    /\ task[w].jobs # {} => task[w].job \in task[w].jobs
    /\ task[w].jobs = {} => ~task[w].canceled
TasksAreOfWriters == \A w \in Writers : TaskIsOf(w)

EventsAreOfWriters ==
    \A e \in Range(events) : IF e.to = "task" THEN e.job \in JobsOf(e.writer)
                                              ELSE e.job = NoJob

TypesInv == PipeTypes /\ MainTypes /\ EngineTypes /\ RequestsInHand /\ TasksAreOfWriters
              /\ EventsAreOfWriters

(* Each mode leaves alone what the others work with.                       *)
NoProcess == \A j \in Jobs : /\ proc[j] = "none" /\ channel[j] = "off" /\ ~ended[j]
                             /\ toGui[j] = <<>> /\ ~readyRead[j]
NoEngine  == /\ \A w \in Writers : engine[w] = "idle" /\ requests[w] = <<>>
             /\ events = <<>>
             /\ \A f \in Range(todo) : f.step \in {"start", "stopped"}
NoQueue   == /\ renderQueue = <<>> /\ activeRenders = <<>> /\ events = <<>>
             /\ todo = <<>> /\ \A w \in Writers : task[w].jobs = {} /\ ~abortRequested[w]
ModeInv ==
    /\ mode # "Process" => NoProcess
    /\ mode = "Process" => NoEngine
    /\ mode = "Blocking" => NoQueue
    /\ mode # "Blocking" => \A j \in Jobs : blocking[j] = "idle"

-----------------------------------------------------------------------------
(* Where the jobs are, when no render overlaps the next one of its writer *)

Queued == Range(renderQueue)
Active == Range(activeRenders)
InWork == {"render", "ask", "push"}
OnePerWriter(S) == \A j, k \in S : WriterOf[j] = WriterOf[k] => j = k
Apart(S, T) == \A j \in S, k \in T : WriterOf[j] # WriterOf[k]

(* A writer has one place: in the queue, in a call that starts its render  *)
(* or tells its task, or among the active renders.                         *)
PlacesInv ==
    /\ IsInjective(renderQueue) /\ IsInjective(activeRenders) /\ IsInjective(todo)
    /\ OnePerWriter(Queued) /\ OnePerWriter(Active) /\ Apart(Queued, Active)
    /\ \A f, g \in Range(todo) : WriterOf[f.job] = WriterOf[g.job] => f = g
    /\ \A f \in Range(todo) :
          /\ f.step \in {"start", "stopped"} => Apart(Queued \cup Active, {f.job})
          /\ f.step \in InWork => f.job \in Active

(* What waits is the job of a live task; what is to start or active is the *)
(* last job of its task, if the task is still in the panel.                *)
OfTask(j) == task[WriterOf[j]].jobs # {} => task[WriterOf[j]].job = j
TasksInv ==
    /\ \A j \in Queued : Live(WriterOf[j]) /\ OfTask(j)
    /\ \A j \in Active : OfTask(j)
    /\ \A f \in Range(todo) : f.step = "start" => OfTask(f.job)

NoEvent(w) == \A e \in Range(events) : e.writer # w
Quiet(w) == engine[w] = "idle" /\ requests[w] = <<>> /\ NoEvent(w)

(* What waits or is about to start finds its engine idle, and nothing of   *)
(* the last render of its writer left.                                     *)
QuietInv ==
    /\ \A j \in Queued : Quiet(WriterOf[j])
    /\ \A f \in Range(todo) : f.step # "stopped" => Quiet(WriterOf[f.job])

Settled(j) == j \in rendered \/ j \in canceled

(* An engine works for an active render, and aborts only what was canceled *)
AbortsInv ==
    \A w \in Writers :
        /\ late[w] = <<>>
        /\ abortRequested[w] => engine[w] # "idle" /\ mode = "Gui"
        /\ mode = "Gui" => Len(requests[w]) <= 1
EngineInv ==
    \A w \in Writers : mode = "Gui" =>
        /\ requests[w] # <<>> /\ engine[w] \in {"idle", "render", "report", "reset"} =>
              Head(requests[w]) \in Active /\ NoEvent(w)
        /\ engine[w] = "render" /\ abortRequested[w] => current[w] \in canceled
        /\ engine[w] = "report" => Settled(current[w])

(* The end of a render is told once, of a render that is over.             *)
EventsInv ==
    /\ IsInjective(events)
    /\ \A e \in Range(events) : e.to = "app" =>
          \E j \in Active : WriterOf[j] = e.writer /\ Settled(j)

(* A process that has started is active until its end is handled; it is    *)
(* asked to abort only what was canceled.                                  *)
ProcessInv ==
    \A j \in Jobs :
        /\ proc[j] # "none" /\ ~ended[j] => j \in Active
        /\ ended[j] => proc[j] \in {"over", "crashed"} /\ toGui[j] = <<>>
        /\ proc[j] \in {"none", "starting", "failed", "connect"} => toGui[j] = <<>>
        /\ proc[j] # "dead"
        /\ earlyCancel[j] \/ aborts[j] > 0 \/ abortSeen[j] => j \in canceled

(* As long as renders are queued, no two of them start or are active.      *)
CountInv ==
    ~everUnqueued =>
        /\ queuing
        /\ \A j, k \in Active : j = k
        /\ \A f, g \in Range(todo) : f.step = "start" /\ g.step = "start" => f = g
        /\ \A f \in Range(todo) : f.step = "start" => Active = {}

(* Who is told of the end of a job is told of one that has ended.          *)
LostInv ==
    /\ NoRequestLost
    /\ \A f \in Range(todo) : f.step = "stopped" =>
          Settled(f.job) \/ proc[f.job] = "crashed"

QueuesInv == /\ PlacesInv /\ TasksInv /\ QuietInv /\ AbortsInv /\ EngineInv /\ EventsInv
             /\ ProcessInv /\ CountInv /\ LostInv

-----------------------------------------------------------------------------
(* The lines of a process *)

BeforeRender == {"none", "starting", "connect", "await", "load", "start"}
Started(j) == "RenderingStarted" \in Range(toGui[j])

(* The GUI reads the lines in their order: one that has not connected to   *)
(* the process has not read that its render has started.                   *)
LinesAreInOrder(j) ==
    /\ proc[j] \in {"none", "starting", "connect", "await"} => channel[j] = "off"
    /\ proc[j] \in {"none", "starting", "connect"} => toGui[j] = <<>>
    /\ (proc[j] \in {"await", "load", "start", "render"} /\ ~inputSocket[j]) =>
          /\ toGui[j] # <<>> /\ Head(toGui[j]) = "ServerCreated"
          /\ proc[j] = "render" => Started(j)
LinesInv == \A j \in Jobs : LinesAreInOrder(j)

(* CancelIsOnItsWay, for a process that has not come to its render too.    *)
AbortIsOnItsWay(j) ==
    proc[j] \in BeforeRender \cup {"render"} =>
        \/ abortSeen[j] \/ aborts[j] > 0 \/ channel[j] = "over"
        \/ earlyCancel[j] /\ (proc[j] # "render" \/ Started(j))
CancelInv == mode = "Process" => \A j \in canceled : AbortIsOnItsWay(j)

-----------------------------------------------------------------------------
(* Types *)

(* What a step does to the processes: nothing, or one of these.            *)
EndOfProcess(j) ==
    /\ proc[j] \in {"over", "crashed"} /\ ~ended[j] /\ ended' = Set(ended, j, TRUE)
    /\ \A k \in Jobs : proc'[k] \in {proc[k], "dead"}
    /\ proc' \in [Jobs -> ProcLabels]
    /\ ForgetPipes(j)
ProcessStep ==
    \/ UNCHANGED processVars
    \/ \E j \in Jobs : \/ StartProcess(j) \/ CancelProcess(j) \/ SocketStep(j)
                       \/ BackgroundStep(j) \/ ChannelStep(j) \/ EndOfProcess(j)

(* The steps of a process that write a line keep the types.                *)
LEMMA WriteLineTypes ==
  ASSUME PipeTypes, NEW j \in Jobs, NEW line \in Lines, WriteLine(j, line)
  PROVE  toGui' \in [Jobs -> Seq(Lines)] /\ readyRead' \in [Jobs -> BOOLEAN]
<1>1. toGui[j] \in Seq(Lines)
  BY DEF PipeTypes
<1>2. Append(toGui[j], line) \in Seq(Lines)
  BY <1>1, AppendProperties
<1>. QED
  BY <1>2 DEF PipeTypes, WriteLine, Set

(* So does an abort line.                                                  *)
LEMMA WriteAbortTypes ==
  ASSUME PipeTypes, NEW j \in Jobs, WriteAbort(j)
  PROVE  aborts' \in [Jobs -> 0 .. 2] /\ aborts'[j] > 0
<1>1. aborts[j] \in 0 .. 2 /\ aborts \in [Jobs -> 0 .. 2]
  BY DEF PipeTypes
<1>2. aborts'[j] \in 1 .. 2 /\ \A k \in Jobs \ {j} : aborts'[k] = aborts[k]
  BY <1>1 DEF WriteAbort, Set
<1>. QED
  BY <1>1, <1>2 DEF WriteAbort, Set

(* Every step of a process keeps the types of its variables.               *)
LEMMA PipeTypesPreserved ==
  ASSUME PipeTypes, ProcessStep
  PROVE  PipeTypes'
<1>1. CASE UNCHANGED processVars
  BY <1>1 DEF processVars, pipeVars, PipeTypes
<1>2. CASE \E j \in Jobs : StartProcess(j)
  BY <1>2 DEF StartProcess, ProcessMove, Set, ProcLabels, pipeVars, PipeTypes
<1>3. CASE \E j \in Jobs : CancelProcess(j)
  <2> PICK j \in Jobs : CancelProcess(j)
    BY <1>3
  <2>1. aborts' \in [Jobs -> 0 .. 2] /\ earlyCancel' \in [Jobs -> BOOLEAN]
    BY WriteAbortTypes DEF CancelProcess, Set, PipeTypes
  <2>. QED
    BY <2>1 DEF CancelProcess, PipeTypes
<1>4. CASE \E j \in Jobs : SocketStep(j)
  <2>1. CASE \E j \in Jobs : OnDataWrittenToSocket(j)
    <3> PICK j \in Jobs : OnDataWrittenToSocket(j)
      BY <2>1
    <3>1. toGui[j] # <<>> /\ toGui[j] \in Seq(Lines)
      BY DEF OnDataWrittenToSocket, ReadConnection, ReadStarted, ReadProgress, PipeTypes
    <3>2. Tail(toGui[j]) \in Seq(Lines)
      BY <3>1, EmptySeq, HeadTailProperties
    <3>3. /\ inputSocket' \in [Jobs -> BOOLEAN] /\ earlyCancel' \in [Jobs -> BOOLEAN]
          /\ aborts' \in [Jobs -> 0 .. 2]
      <4>1. CASE ReadConnection(j)
        BY <4>1 DEF ReadConnection, Set, PipeTypes
      <4>2. CASE ReadStarted(j)
        BY <4>2, WriteAbortTypes DEF ReadStarted, EarlyCancelSent, Set, PipeTypes
      <4>3. CASE ReadProgress(j)
        BY <4>3 DEF ReadProgress, PipeTypes
      <4>. QED
        BY <4>1, <4>2, <4>3 DEF OnDataWrittenToSocket
    <3>. QED
      BY <3>2, <3>3 DEF OnDataWrittenToSocket, Set, PipeTypes
  <2>2. CASE \E j \in Jobs : OnNewConnectionPending(j)
    BY <2>2 DEF OnNewConnectionPending, Set, PipeTypes
  <2>. QED
    BY <1>4, <2>1, <2>2 DEF SocketStep
<1>5. CASE \E j \in Jobs : BackgroundStep(j)
  <2> PICK j \in Jobs : BackgroundStep(j)
    BY <1>5
  <2>1. CASE ProcessStarts(j) \/ LoadProject(j) \/ Exit(j) \/ TestMustQuit(j)
    BY <2>1 DEF ProcessStarts, LoadProject, Exit, TestMustQuit, ProcessMove, Set,
                ProcLabels, pipeVars, PipeTypes
  <2>2. CASE EndOfWait(j)
    BY <2>2 DEF EndOfWait, ProcessMove, Set, ProcLabels, PipeTypes
  <2>7. CASE AskChannelToQuit(j)
    BY <2>7 DEF AskChannelToQuit, ProcessMove, Set, ProcLabels, PipeTypes
  <2>8. CASE Crash(j)
    BY <2>8 DEF Crash, ProcessMove, Set, ProcLabels, pipeVars, PipeTypes
  <2>3. CASE Announce(j)
    <3>1. toGui' \in [Jobs -> Seq(Lines)] /\ readyRead' \in [Jobs -> BOOLEAN]
      BY <2>3, WriteLineTypes DEF Announce, Lines
    <3>. QED
      BY <2>3, <3>1 DEF Announce, ProcessMove, Set, ProcLabels, PipeTypes
  <2>4. CASE RenderingStarts(j)
    <3>1. toGui' \in [Jobs -> Seq(Lines)] /\ readyRead' \in [Jobs -> BOOLEAN]
      BY <2>4, WriteLineTypes DEF RenderingStarts, Lines
    <3>. QED
      BY <2>4, <3>1 DEF RenderingStarts, ProcessMove, Set, ProcLabels, PipeTypes
  <2>5. CASE RenderFrame(j)
    <3>1. toGui' \in [Jobs -> Seq(Lines)] /\ readyRead' \in [Jobs -> BOOLEAN]
      BY <2>5, WriteLineTypes DEF RenderFrame, Lines
    <3>2. frames' \in [Jobs -> 0 .. MaxFrames]
      BY <2>5 DEF RenderFrame, FramesLeft, Set, PipeTypes
    <3>. QED
      BY <2>5, <3>1, <3>2 DEF RenderFrame, PipeTypes
  <2>6. CASE RenderingEnds(j)
    <3>1. toGui' \in [Jobs -> Seq(Lines)] /\ readyRead' \in [Jobs -> BOOLEAN]
      BY <2>6, WriteLineTypes DEF RenderingEnds, Lines
    <3>. QED
      BY <2>6, <3>1 DEF RenderingEnds, ProcessMove, Set, ProcLabels, PipeTypes
  <2>. QED
    BY <2>1, <2>2, <2>3, <2>4, <2>5, <2>6, <2>7, <2>8 DEF BackgroundStep
<1>6. CASE \E j \in Jobs : ChannelStep(j)
  <2> PICK j \in Jobs : ChannelStep(j)
    BY <1>6
  <2>1. CASE CrashWithoutPipe(j)
    BY <2>1 DEF CrashWithoutPipe, ProcessMove, Set, ProcLabels, pipeVars, PipeTypes
  <2>2. CASE ReceiveAbort(j)
    <3>1. aborts' \in [Jobs -> 0 .. 2]
      <4>1. aborts[j] - 1 \in 0 .. 2
        BY <2>2 DEF ReceiveAbort, PipeTypes
      <4>. QED
        BY <2>2, <4>1 DEF ReceiveAbort, Set, PipeTypes
    <3>2. abortSeen' \in [Jobs -> BOOLEAN] /\ channel' \in [Jobs -> {"off", "run", "over"}]
      <4>1. (abortSeen[j] \/ AbortsRender(j)) \in BOOLEAN
        BY DEF PipeTypes, AbortsRender
      <4>. QED
        BY <2>2, <4>1, Zenon DEF ReceiveAbort, Set, PipeTypes
    <3>. QED
      BY <2>2, <3>1, <3>2 DEF ReceiveAbort, PipeTypes
  <2>3. CASE ChannelQuits(j)
    BY <2>3 DEF ChannelQuits, Set, ProcLabels, PipeTypes
  <2>. QED
    BY <2>1, <2>2, <2>3 DEF ChannelStep
<1>7. CASE \E j \in Jobs : EndOfProcess(j)
  <2>1. <<>> \in Seq(Lines)
    BY EmptySeq
  <2>. QED
    BY <1>7, <2>1 DEF EndOfProcess, ForgetPipes, Set, PipeTypes
<1>. QED
  BY <1>1, <1>2, <1>3, <1>4, <1>5, <1>6, <1>7 DEF ProcessStep

-----------------------------------------------------------------------------
(* The lists of jobs, frames and events *)

(* The first element of a list, and the others.                            *)
LEMMA HeadAndTail ==
  ASSUME NEW A, NEW s \in Seq(A), s # <<>>
  PROVE  /\ Head(s) \in A /\ Tail(s) \in Seq(A)
         /\ Range(s) = {Head(s)} \cup Range(Tail(s)) /\ Range(s) \subseteq A
<1> DEFINE n == Len(s)
<1>1. n \in Nat \ {0} /\ DOMAIN s = 1 .. n /\ s \in [1 .. n -> A]
  BY EmptySeq, LenProperties
<1>2. /\ Tail(s) \in Seq(A) /\ Len(Tail(s)) = n - 1 /\ Head(s) = s[1]
      /\ \A i \in 1 .. n - 1 : Tail(s)[i] = s[i + 1]
  BY HeadTailProperties
<1>3. DOMAIN Tail(s) = 1 .. n - 1
  BY <1>2, LenProperties
<1>4. ASSUME NEW x \in Range(s) PROVE x \in {Head(s)} \cup Range(Tail(s))
  <2>1. PICK i \in 1 .. n : x = s[i]
    BY <1>1 DEF Range
  <2>2. CASE i # 1
    <3>1. i - 1 \in 1 .. n - 1 /\ Tail(s)[i - 1] = s[i]
      BY <1>1, <1>2, <2>2
    <3>. QED
      BY <1>3, <2>1, <3>1 DEF Range
  <2>. QED
    BY <1>2, <2>1, <2>2
<1>5. ASSUME NEW x \in Range(Tail(s)) PROVE x \in Range(s)
  <2>1. PICK i \in 1 .. n - 1 : x = s[i + 1]
    BY <1>2, <1>3 DEF Range
  <2>2. i + 1 \in 1 .. n
    BY <1>1
  <2>. QED
    BY <1>1, <2>1, <2>2 DEF Range
<1>6. Head(s) \in Range(s) /\ Range(s) \subseteq A
  BY <1>1, <1>2 DEF Range
<1>. QED
  BY <1>1, <1>2, <1>4, <1>5, <1>6

(* A list of one element, before another list.                             *)
LEMMA Prepended ==
  ASSUME NEW A, NEW s \in Seq(A), NEW x \in A
  PROVE  /\ <<x>> \o s \in Seq(A)
         /\ Range(<<x>> \o s) = {x} \cup Range(s)
         /\ IsInjective(s) /\ x \notin Range(s) => IsInjective(<<x>> \o s)
<1> DEFINE t == <<x>>
<1>1. t \in Seq(A) /\ Range(t) = {x} /\ IsInjective(t)
  BY DEF Range, IsInjective
<1> HIDE DEF t
<1>2. /\ t \o s \in Seq(A) /\ Range(t \o s) = Range(t) \cup Range(s)
      /\ IsInjective(t) /\ IsInjective(s) /\ Range(t) \cap Range(s) = {}
           => IsInjective(t \o s)
  BY <1>1, ConcatOfLists
<1>3. IsInjective(s) /\ x \notin Range(s) => IsInjective(t \o s)
  BY <1>1, <1>2
<1>. QED
  BY <1>1, <1>2, <1>3 DEF t

(* A list of one element.                                                  *)
LEMMA OneElement ==
  ASSUME NEW A, NEW x \in A
  PROVE  <<x>> \in Seq(A) /\ Range(<<x>>) = {x} /\ IsInjective(<<x>>) /\ Len(<<x>>) = 1
  BY DEF Range, IsInjective

(* A list of two.                                                          *)
LEMMA TwoElements ==
  ASSUME NEW A, NEW x \in A, NEW y \in A, x # y
  PROVE  /\ <<x>> \o <<y>> \in Seq(A)
         /\ Range(<<x>> \o <<y>>) = {x, y}
         /\ IsInjective(<<x>> \o <<y>>)
<1> DEFINE s == <<x>>
           t == <<y>>
<1>1. /\ s \in Seq(A) /\ Range(s) = {x} /\ IsInjective(s)
      /\ t \in Seq(A) /\ Range(t) = {y} /\ IsInjective(t)
  BY OneElement
<1> HIDE DEF s, t
<1>2. /\ s \o t \in Seq(A) /\ Range(s \o t) = Range(s) \cup Range(t)
      /\ IsInjective(s) /\ IsInjective(t) /\ Range(s) \cap Range(t) = {}
           => IsInjective(s \o t)
  BY <1>1, ConcatOfLists
<1>3. Range(s) \cap Range(t) = {}
  BY <1>1
<1>4. Range(s \o t) = {x, y}
  BY <1>1, <1>2
<1>. QED
  BY <1>1, <1>2, <1>3, <1>4 DEF s, t

(* All that is needed of short lists.                                      *)
LEMMA ShortLists ==
  ASSUME NEW A, NEW x \in A, NEW y \in A
  PROVE  /\ <<>> \in Seq(A) /\ Range(<<>>) = {} /\ IsInjective(<<>>)
         /\ <<x>> \in Seq(A) /\ Range(<<x>>) = {x} /\ IsInjective(<<x>>)
         /\ <<x>> # <<>> /\ Head(<<x>>) = x /\ Tail(<<x>>) = <<>> /\ Len(<<x>>) = 1
         /\ <<x, y>> \in Seq(A) /\ Range(<<x, y>>) = {x, y} /\ Len(<<x, y>>) = 2
         /\ x # y => IsInjective(<<x, y>>)
         /\ <<x, y>> # <<>> /\ Head(<<x, y>>) = x /\ Tail(<<x, y>>) = <<y>>
  BY DEF Range, IsInjective

(* removeRenderFromQueue(): the items of the other writers stay, and when  *)
(* a writer has one at most, no item of these writers does.                *)
LEMMA FirstsRemoved ==
  ASSUME NEW q \in Seq(Jobs), NEW ws
  PROVE  /\ WithoutFirstOf(q, ws) \in Seq(Jobs)
         /\ Range(WithoutFirstOf(q, ws)) \subseteq Range(q)
         /\ IsInjective(q) => IsInjective(WithoutFirstOf(q, ws))
         /\ IsInjective(q) /\ OnePerWriter(Range(q)) =>
              Range(WithoutFirstOf(q, ws)) = {j \in Range(q) : WriterOf[j] \notin ws}
<1> DEFINE isFirst(i) == \A k \in 1 .. i - 1 : WriterOf[q[k]] # WriterOf[q[i]]
           firsts == {q[i] : i \in {k \in DOMAIN q : WriterOf[q[k]] \in ws /\ isFirst(k)}}
           kept == Range(q) \ firsts
<1>1. WithoutFirstOf(q, ws) = Filter(q, kept)
  BY DEF WithoutFirstOf
<1>2. /\ Filter(q, kept) \in Seq(Jobs) /\ Range(Filter(q, kept)) = Range(q) \cap kept
      /\ IsInjective(q) => IsInjective(Filter(q, kept))
  BY FilterProperties
<1>3. ASSUME NEW j \in firsts PROVE WriterOf[j] \in ws
  OBVIOUS
<1>4. ASSUME IsInjective(q), OnePerWriter(Range(q)),
             NEW j \in Range(q), WriterOf[j] \in ws
      PROVE  j \in firsts
  <2>1. PICK i \in DOMAIN q : j = q[i]
    BY DEF Range
  <2>2. DOMAIN q = 1 .. Len(q) /\ Len(q) \in Nat
    BY LenProperties
  <2>3. ASSUME NEW k \in 1 .. i - 1 PROVE WriterOf[q[k]] # WriterOf[q[i]]
    <3>1. k \in DOMAIN q /\ k # i
      BY <2>2
    <3>2. q[k] # q[i] /\ q[k] \in Range(q) /\ q[i] \in Range(q)
      BY <1>4, <3>1 DEF IsInjective, Range
    <3>. QED
      BY <1>4, <3>2 DEF OnePerWriter
  <2>. QED
    BY <1>4, <2>1, <2>3
<1> HIDE DEF firsts
<1>. QED
  BY <1>1, <1>2, <1>3, <1>4

(* The frames of calls that start these renders.                           *)
LEMMA StartFrames ==
  ASSUME NEW js \in Seq(Jobs)
  PROVE  /\ StartAll(js) \in Seq(FrameRecords)
         /\ Range(StartAll(js)) = {Frame("start", j) : j \in Range(js)}
         /\ IsInjective(js) => IsInjective(StartAll(js))
<1>1. Len(js) \in Nat /\ DOMAIN js = 1 .. Len(js) /\ \A i \in DOMAIN js : js[i] \in Jobs
  BY LenProperties, ElementOfSeq
<1>2. StartAll(js) \in [1 .. Len(js) -> FrameRecords]
  BY <1>1 DEF StartAll, Frame, FrameRecords, Steps
<1>3. StartAll(js) \in Seq(FrameRecords)
  BY <1>1, <1>2, IsASeq
<1>. QED
  BY <1>1, <1>3 DEF StartAll, Frame, Range, IsInjective

-----------------------------------------------------------------------------
(* What the calls that steps share do *)

(* startWritersRendering(): A is queued, B starts.                         *)
Enqueued(q, js, A, B) ==
    /\ A \cup B = Range(js) /\ A \cap B = {}
    /\ renderQueue' \in Seq(Jobs) /\ Range(renderQueue') = Range(q) \cup A
    /\ IsInjective(q) /\ Range(q) \cap Range(js) = {} => IsInjective(renderQueue')
    /\ todo' \in Seq(FrameRecords) /\ Range(todo') = {Frame("start", j) : j \in B}
    /\ IsInjective(todo')
    /\ queuing => /\ \A j, k \in B : j = k
                  /\ activeRenders # <<>> => B = {}

(* Each render is queued or starts; one starts at a time if renders are    *)
(* queued.                                                                 *)
LEMMA RendersEnqueued ==
  ASSUME NEW q \in Seq(Jobs), NEW js \in Seq(Jobs), js # <<>>, IsInjective(js),
         todo = <<>>, Enqueue(q, js)
  PROVE  \E A, B \in SUBSET Jobs : Enqueued(q, js, A, B)
<1>1. Range(js) \subseteq Jobs
  BY HeadAndTail
<1>2. {} \in SUBSET Jobs /\ Range(js) \in SUBSET Jobs /\ {Head(js)} \in SUBSET Jobs
      /\ Range(Tail(js)) \in SUBSET Jobs
  BY <1>1, HeadAndTail
<1>3. /\ todo \in Seq(FrameRecords) /\ Range(todo) = {Frame("start", j) : j \in {}}
      /\ IsInjective(todo)
  BY ShortLists DEF Range, IsInjective
<1>4. CASE ~queuing
  <2>1. renderQueue' = q /\ todo' = StartAll(js)
    BY <1>4 DEF Enqueue
  <2>2. Enqueued(q, js, {}, Range(js))
    BY <1>4, <2>1, StartFrames DEF Enqueued
  <2>. QED
    BY <1>2, <2>2
<1>5. CASE queuing /\ activeRenders # <<>>
  <2>1. renderQueue' = q \o js /\ todo' = todo
    BY <1>5 DEF Enqueue, SomethingActive
  <2>2. Enqueued(q, js, Range(js), {})
    BY <1>3, <2>1, ConcatOfLists DEF Enqueued
  <2>. QED
    BY <1>2, <2>2
<1>6. CASE queuing /\ activeRenders = <<>>
  <2>1. renderQueue' = q \o Tail(js) /\ todo' = StartAll(<<Head(js)>>)
    BY <1>6 DEF Enqueue, SomethingActive, Others
  <2>2. /\ Head(js) \in Jobs /\ Tail(js) \in Seq(Jobs) /\ IsInjective(Tail(js))
        /\ Range(Tail(js)) = Range(js) \ {Head(js)} /\ Head(js) \in Range(js)
    BY TailOfList, HeadAndTail
  <2>3. /\ <<Head(js)>> \in Seq(Jobs) /\ Range(<<Head(js)>>) = {Head(js)}
        /\ IsInjective(<<Head(js)>>)
    BY <2>2, ShortLists
  <2>4. /\ StartAll(<<Head(js)>>) \in Seq(FrameRecords)
        /\ Range(StartAll(<<Head(js)>>)) = {Frame("start", j) : j \in {Head(js)}}
        /\ IsInjective(StartAll(<<Head(js)>>))
    BY <2>3, StartFrames
  <2>5. /\ q \o Tail(js) \in Seq(Jobs) /\ Range(q \o Tail(js)) = Range(q) \cup Range(Tail(js))
        /\ IsInjective(q) /\ Range(q) \cap Range(js) = {} => IsInjective(q \o Tail(js))
    <3> DEFINE t == Tail(js)
    <3>1. t \in Seq(Jobs) /\ IsInjective(t) /\ Range(t) \subseteq Range(js)
      BY <2>2
    <3> HIDE DEF t
    <3>2. /\ q \o t \in Seq(Jobs) /\ Range(q \o t) = Range(q) \cup Range(t)
          /\ IsInjective(q) /\ IsInjective(t) /\ Range(q) \cap Range(t) = {}
               => IsInjective(q \o t)
      BY <3>1, ConcatOfLists
    <3>3. Range(q) \cap Range(js) = {} => Range(q) \cap Range(t) = {}
      BY <3>1
    <3>. QED
      BY <3>1, <3>2, <3>3 DEF t
  <2>6. Enqueued(q, js, Range(Tail(js)), {Head(js)})
    BY <1>6, <2>1, <2>2, <2>4, <2>5 DEF Enqueued
  <2>. QED
    BY <1>2, <2>6
<1>. QED
  BY <1>4, <1>5, <1>6

(* startNextQueuedRender(): N is the next one, if there is one.            *)
NextStarted(w, rest, N) ==
    /\ activeRenders' = ActiveWithout(w)
    /\ N \subseteq Jobs /\ Queued = N \cup Queued' /\ \A j, k \in N : j = k
    /\ renderQueue' \in Seq(Jobs)
    /\ IsInjective(renderQueue) => IsInjective(renderQueue') /\ N \cap Queued' = {}
    /\ todo' \in Seq(FrameRecords)
    /\ Range(todo') = {Frame("start", j) : j \in N} \cup Range(rest)
    /\ IsInjective(rest) /\ (\A j \in N : Frame("start", j) \notin Range(rest))
         => IsInjective(todo')

(* The first item of the queue, if there is one, starts.                   *)
LEMMA NextRenderStarted ==
  ASSUME renderQueue \in Seq(Jobs), NEW w, NEW rest \in Seq(FrameRecords),
         StartNext(w, rest)
  PROVE  \E N \in SUBSET Jobs : NextStarted(w, rest, N)
<1>1. activeRenders' = ActiveWithout(w)
  BY DEF StartNext
<1>2. CASE renderQueue = <<>>
  <2>1. renderQueue' = <<>> /\ todo' = rest
    BY <1>2 DEF StartNext
  <2>2. Queued = {} /\ Queued' = {} /\ renderQueue' \in Seq(Jobs)
    BY <1>2, <2>1 DEF Queued, Range
  <2>3. IsInjective(renderQueue) => IsInjective(renderQueue')
    BY <1>2, <2>1
  <2>4. NextStarted(w, rest, {})
    BY <1>1, <2>1, <2>2, <2>3 DEF NextStarted
  <2>. QED
    BY <2>4
<1>3. CASE renderQueue # <<>>
  <2> DEFINE j == Head(renderQueue)
  <2>1. renderQueue' = Tail(renderQueue) /\ todo' = <<Frame("start", j)>> \o rest
    BY <1>3 DEF StartNext
  <2>2. /\ j \in Jobs /\ renderQueue' \in Seq(Jobs) /\ Queued = {j} \cup Queued'
    BY <1>3, <2>1, HeadAndTail DEF Queued
  <2>3. IsInjective(renderQueue) => IsInjective(renderQueue') /\ {j} \cap Queued' = {}
    BY <1>3, <2>1, TailOfList DEF Queued
  <2>4. Frame("start", j) \in FrameRecords
    BY <2>2 DEF Frame, FrameRecords, Steps
  <2> HIDE DEF j
  <2>5. /\ todo' \in Seq(FrameRecords) /\ Range(todo') = {Frame("start", j)} \cup Range(rest)
        /\ IsInjective(rest) /\ Frame("start", j) \notin Range(rest) => IsInjective(todo')
    BY <2>1, <2>4, Prepended
  <2>6. NextStarted(w, rest, {j})
    BY <1>1, <2>2, <2>3, <2>5 DEF NextStarted
  <2>. QED
    BY <2>2, <2>6
<1>. QED
  BY <1>2, <1>3

(* cancelTask() of the tasks of these writers: the jobs of live ones are   *)
(* canceled.  At most one of them has a process.                           *)
LiveOf(ws) == {w \in ws : Live(w)}
CancelEffect(ws) ==
    /\ canceled' = canceled \cup {task[w].job : w \in LiveOf(ws)}
    /\ \A w \in LiveOf(ws) : task[w].job \in JobsOf(w)
    /\ mode = "Process" /\ LiveOf(ws) # {} =>
          \E w \in LiveOf(ws) : CancelProcess(task[w].job)
    /\ mode # "Process" \/ LiveOf(ws) = {} => UNCHANGED processVars
    /\ abortRequested' \in [Writers -> BOOLEAN]
    /\ \A w \in Writers : abortRequested'[w] =>
          \/ abortRequested[w]
          \/ mode = "Gui" /\ w \in LiveOf(ws) /\ engine[w] # "idle"
    /\ \A w \in Writers : abortRequested[w] => abortRequested'[w]

(* What CancelRenders() does to each of its variables.                     *)
LEMMA RendersCanceled ==
  ASSUME TypesInv, NEW ws \in SUBSET Writers, CancelRenders(ws)
  PROVE  CancelEffect(ws)
<1> DEFINE live == {w \in ws : Live(w)}
<1>1. live = LiveOf(ws) /\ live \subseteq Writers
  BY DEF LiveOf
<1>2. /\ canceled' = canceled \cup {task[w].job : w \in live}
      /\ IF mode = "Process" /\ live # {}
            THEN CancelProcess(task[CHOOSE w \in live : TRUE].job)
            ELSE UNCHANGED processVars
      /\ IF mode = "Gui" THEN AbortEngines(live) ELSE UNCHANGED abortRequested
  BY DEF CancelRenders
<1>3. \A w \in live : task[w].job \in JobsOf(w)
  BY <1>1 DEF Live, TypesInv, TasksAreOfWriters, TaskIsOf
<1>4. abortRequested \in [Writers -> BOOLEAN]
  BY DEF TypesInv, EngineTypes
<1> HIDE DEF live
<1>5. /\ abortRequested' \in [Writers -> BOOLEAN]
      /\ \A w \in Writers : abortRequested'[w] =>
            abortRequested[w] \/ (mode = "Gui" /\ w \in live /\ engine[w] # "idle")
      /\ \A w \in Writers : abortRequested[w] => abortRequested'[w]
  <2>1. CASE mode = "Gui"
    <3>1. abortRequested' = [w \in Writers |-> abortRequested[w]
                                           \/ (w \in live /\ engine[w] # "idle")]
      BY <1>2, <2>1 DEF AbortEngines
    <3>. QED
      BY <1>4, <2>1, <3>1, Zenon
  <2>2. CASE mode # "Gui"
    BY <1>2, <1>4, <2>2
  <2>. QED
    BY <2>1, <2>2
<1>6. mode = "Process" /\ live # {} => \E w \in live : CancelProcess(task[w].job)
  <2> DEFINE c == CHOOSE w \in live : TRUE
  <2>1. live # {} => c \in live
    OBVIOUS
  <2> HIDE DEF c
  <2>2. mode = "Process" /\ live # {} => CancelProcess(task[c].job)
    BY <1>2 DEF c
  <2>. QED
    BY <2>1, <2>2
<1>. QED
  BY <1>1, <1>2, <1>3, <1>5, <1>6, Zenon DEF CancelEffect

(* onRenderEngineStopped(): the task of this job is over, and takes what   *)
(* waits of its writer out of the queue.                                   *)
StoppedTasks(j) == {w \in Writers : j \in task[w].jobs /\ Live(w)}
LEMMA TaskIsStopped ==
  ASSUME TypesInv, NEW j, TaskStopped(j)
  PROVE  /\ task' \in [Writers -> TaskRecords] /\ TasksAreOfWriters'
         /\ \A w \in Writers : /\ task'[w].jobs = task[w].jobs /\ task'[w].job = task[w].job
                               /\ w \notin StoppedTasks(j) => task'[w] = task[w]
                               /\ Live(w)' => Live(w)
         /\ renderQueue' = WithoutFirstOf(renderQueue, StoppedTasks(j))
         /\ renderQueue' \in Seq(Jobs) /\ Queued' \subseteq Queued
         /\ \A w \in StoppedTasks(j) : j \in JobsOf(w)
<1> DEFINE ws == StoppedTasks(j)
<1>1. /\ task' = [w \in Writers |-> IF w \in ws THEN [task[w] EXCEPT !.canceled = TRUE]
                                                 ELSE task[w]]
      /\ renderQueue' = WithoutFirstOf(renderQueue, ws)
  BY DEF TaskStopped, StoppedTasks
<1>2. task \in [Writers -> TaskRecords] /\ TasksAreOfWriters /\ renderQueue \in Seq(Jobs)
  BY DEF TypesInv, MainTypes
<1> HIDE DEF ws
<1>3. ASSUME NEW w \in Writers
      PROVE  /\ task'[w] \in TaskRecords
             /\ task'[w].jobs = task[w].jobs /\ task'[w].job = task[w].job
             /\ task'[w] = task[w] \/ (w \in ws /\ task'[w].canceled)
  BY <1>1, <1>2 DEF TaskRecords
<1>4. task' \in [Writers -> TaskRecords]
  BY <1>1, <1>3
<1>5. \A w \in ws : w \in Writers /\ j \in task[w].jobs /\ task[w].jobs # {}
  BY DEF ws, StoppedTasks, Live
<1>6. TasksAreOfWriters'
  BY <1>2, <1>3, <1>5 DEF TasksAreOfWriters, TaskIsOf
<1>7. \A w \in ws : j \in JobsOf(w)
  BY <1>2, <1>5 DEF TasksAreOfWriters, TaskIsOf
<1>8. \A w \in Writers : Live(w)' => Live(w)
  BY <1>3 DEF Live
<1>9. renderQueue' \in Seq(Jobs) /\ Queued' \subseteq Queued
  BY <1>1, <1>2, FirstsRemoved DEF Queued
<1>10. \A w \in Writers : w \notin ws => task'[w] = task[w]
  BY <1>3
<1>. QED
  BY <1>1, <1>3, <1>4, <1>6, <1>7, <1>8, <1>9, <1>10 DEF ws

-----------------------------------------------------------------------------
(* The requests of a writer and its scheduler *)

(* A list with a new last element.                                         *)
LEMMA Appended ==
  ASSUME NEW A, NEW s \in Seq(A), NEW x \in A
  PROVE  /\ Append(s, x) \in Seq(A) /\ Append(s, x) # <<>>
         /\ Range(Append(s, x)) = Range(s) \cup {x}
         /\ s = <<>> => Append(s, x) = <<x>>
         /\ s # <<>> => Head(Append(s, x)) = Head(s)
         /\ Len(Append(s, x)) = Len(s) + 1
         /\ Len(s) \in Nat /\ (Len(s) > 0 <=> s # <<>>)
<1>1. Append(s, x) \in Seq(A) /\ Range(Append(s, x)) = Range(s) \cup {x}
  BY AppendToList
<1>2. /\ Append(s, x) # <<>> /\ Len(Append(s, x)) = Len(s) + 1
      /\ \A i \in 1 .. Len(s) : Append(s, x)[i] = s[i]
  BY AppendProperties
<1>3. Len(s) \in Nat /\ (Len(s) > 0 <=> s # <<>>)
  BY LenProperties, EmptySeq
<1>4. s = <<>> => Append(s, x) = <<x>>
  OBVIOUS
<1>5. s # <<>> => Head(Append(s, x)) = Head(s)
  <2>1. s # <<>> => Head(s) = s[1] /\ Head(Append(s, x)) = Append(s, x)[1]
    BY <1>1, <1>2, HeadTailProperties
  <2>. QED
    BY <1>2, <1>3, <2>1
<1>. QED
  BY <1>1, <1>2, <1>3, <1>4, <1>5

(* startTask() puts the task in one of the two queues of the scheduler.    *)
LEMMA TaskIsQueued ==
  ASSUME EngineTypes, NEW w \in Writers, NEW j \in Jobs, StartTask(w, j),
         enqueued[w] = <<>>, late[w] = <<>>
  PROVE  /\ enqueued' \in [Writers -> Seq(Jobs)] /\ late' \in [Writers -> Seq(Jobs)]
         /\ \A v \in Writers \ {w} : enqueued'[v] = enqueued[v] /\ late'[v] = late[v]
         /\ IF abortRequested[w] THEN enqueued'[w] = <<>> /\ late'[w] = <<j>>
                                 ELSE enqueued'[w] = <<j>> /\ late'[w] = <<>>
<1>1. Append(<<>>, j) = <<j>> /\ <<j>> \in Seq(Jobs)
  BY ShortLists
<1>2. CASE abortRequested[w]
  <2>1. late' = Set(late, w, <<j>>) /\ enqueued' = enqueued
    BY <1>1, <1>2 DEF StartTask
  <2>. QED
    BY <1>1, <1>2, <2>1 DEF Set, EngineTypes
<1>3. CASE ~abortRequested[w]
  <2>1. enqueued' = Set(enqueued, w, <<j>>) /\ late' = late
    BY <1>1, <1>3 DEF StartTask
  <2>. QED
    BY <1>1, <1>3, <2>1 DEF Set, EngineTypes
<1>. QED
  BY <1>2, <1>3

(* A request goes to the end of those of its writer, and to its scheduler  *)
(* if it is the only one.                                                  *)
PushEffect(j) ==
    LET w == WriterOf[j]
    IN /\ EngineTypes' /\ RequestsInHand'
       /\ \A v \in Writers \ {w} : /\ requests'[v] = requests[v]
                                   /\ enqueued'[v] = enqueued[v] /\ late'[v] = late[v]
       /\ requests'[w] = Append(requests[w], j)
       /\ late'[w] = late[w] \/ (abortRequested[w] /\ requests[w] = <<>>)
       /\ UNCHANGED <<engine, current, abortRequested, wasAborted, dataLock>>
LEMMA RequestPushed ==
  ASSUME EngineTypes, RequestsInHand, NEW j \in Jobs, PushRequest(j)
  PROVE  PushEffect(j)
<1> DEFINE w == WriterOf[j]
           rs == requests[w]
<1>1. /\ requests' = Set(requests, w, Append(rs, j))
      /\ IF AlreadyRendering(w) THEN UNCHANGED <<enqueued, late>> ELSE StartTask(w, j)
      /\ UNCHANGED <<engine, current, abortRequested, wasAborted, dataLock>>
  BY DEF PushRequest
<1>2. w \in Writers /\ j \in JobsOf(w)
  BY DEF JobsOf
<1>3. rs \in Seq(Jobs) /\ Range(rs) \subseteq JobsOf(w)
  BY <1>2 DEF EngineTypes
<1>4. RequestInHand(w)
  BY <1>2 DEF RequestsInHand
<1> HIDE DEF w
<1>5. /\ Append(rs, j) \in Seq(Jobs) /\ Append(rs, j) # <<>>
      /\ Range(Append(rs, j)) = Range(rs) \cup {j}
      /\ rs = <<>> => Head(Append(rs, j)) = j
      /\ rs # <<>> => Head(Append(rs, j)) = Head(rs)
      /\ AlreadyRendering(w) <=> rs # <<>>
  <2>1. Head(<<j>>) = j
    OBVIOUS
  <2>. QED
    BY <1>3, <2>1, Appended DEF AlreadyRendering
<1>6. /\ requests' \in [Writers -> Seq(Jobs)] /\ requests'[w] = Append(rs, j)
      /\ \A v \in Writers \ {w} : requests'[v] = requests[v]
  BY <1>1, <1>2, <1>5 DEF Set, EngineTypes
<1>7. \A v \in Writers : Range(requests'[v]) \subseteq JobsOf(v)
  BY <1>2, <1>3, <1>5, <1>6 DEF EngineTypes
<1>8. /\ enqueued' \in [Writers -> Seq(Jobs)] /\ late' \in [Writers -> Seq(Jobs)]
      /\ \A v \in Writers \ {w} : enqueued'[v] = enqueued[v] /\ late'[v] = late[v]
      /\ late'[w] = late[w] \/ (abortRequested[w] /\ requests[w] = <<>>)
      /\ RequestInHand(w)'
  <2>1. CASE rs # <<>>
    <3>1. enqueued' = enqueued /\ late' = late
      BY <1>1, <1>5, <2>1
    <3>. QED
      BY <1>1, <1>4, <1>5, <1>6, <2>1, <3>1 DEF RequestInHand, FirstRequest, EngineTypes
  <2>2. CASE rs = <<>>
    <3>1. /\ enqueued[w] = <<>> /\ late[w] = <<>> /\ engine[w] \in {"idle", "reset"}
          /\ StartTask(w, j)
      BY <1>1, <1>4, <1>5, <2>2 DEF RequestInHand
    <3>2. /\ enqueued' \in [Writers -> Seq(Jobs)] /\ late' \in [Writers -> Seq(Jobs)]
          /\ \A v \in Writers \ {w} : enqueued'[v] = enqueued[v] /\ late'[v] = late[v]
          /\ IF abortRequested[w] THEN enqueued'[w] = <<>> /\ late'[w] = <<j>>
                                  ELSE enqueued'[w] = <<j>> /\ late'[w] = <<>>
      BY <1>2, <3>1, TaskIsQueued
    <3>3. /\ requests'[w] # <<>> /\ FirstRequest(w)' = <<j>> /\ engine'[w] = engine[w]
      BY <1>1, <1>5, <1>6, <2>2 DEF FirstRequest
    <3>4. RequestInHand(w)'
      BY <3>1, <3>2, <3>3 DEF RequestInHand
    <3>. QED
      BY <2>2, <3>1, <3>2, <3>4
  <2>. QED
    BY <2>1, <2>2
<1>9. EngineTypes'
  BY <1>1, <1>6, <1>7, <1>8 DEF EngineTypes
<1>10. ASSUME NEW v \in Writers PROVE RequestInHand(v)'
  <2>1. CASE v # w
    <3>1. RequestInHand(v)
      BY DEF RequestsInHand
    <3>. QED
      BY <1>1, <1>6, <1>8, <2>1, <3>1 DEF RequestInHand, FirstRequest
  <2>. QED
    BY <1>8, <2>1
<1>11. RequestsInHand'
  BY <1>10 DEF RequestsInHand
<1>. QED
  BY <1>1, <1>6, <1>8, <1>9, <1>11 DEF PushEffect, w

(* The other writers of a step that changes the engine of one.             *)
LEMMA OthersInHand ==
  ASSUME RequestsInHand, NEW w \in Writers, RequestInHand(w)',
         \A v \in Writers \ {w} :
             /\ requests'[v] = requests[v] /\ enqueued'[v] = enqueued[v]
             /\ late'[v] = late[v] /\ engine'[v] = engine[v] /\ current'[v] = current[v]
  PROVE  RequestsInHand'
<1>1. ASSUME NEW v \in Writers \ {w} PROVE RequestInHand(v)'
  <2>1. RequestInHand(v)
    BY DEF RequestsInHand
  <2>. QED
    BY <1>1, <2>1 DEF RequestInHand, FirstRequest
<1>. QED
  BY <1>1 DEF RequestsInHand

(* The steps of an engine that take a task, end it and notify keep the     *)
(* types of the engines.                                                   *)
LEMMA BeginEndTypes ==
  ASSUME TypesInv, NEW w \in Writers,
         BeginTask(w) \/ EndTask(w) \/ ReportFinished(w) \/ NotifyRenderFinished(w)
  PROVE  /\ EngineTypes' /\ RequestsInHand'
         /\ rendered' = rendered \/ (rendered' = rendered \cup {current[w]}
                                     /\ current[w] \in Jobs)
<1>1. EngineTypes /\ RequestsInHand /\ RequestInHand(w)
  BY DEF TypesInv, RequestsInHand
<1>2. requests[w] # <<>> => Head(requests[w]) \in Jobs
  BY <1>1, HeadAndTail DEF EngineTypes
<1>3. CASE BeginTask(w)
  <2>1. /\ engine[w] = "idle" /\ enqueued[w] # <<>>
        /\ current' = Set(current, w, enqueued[w][Len(enqueued[w])])
        /\ enqueued' = Set(enqueued, w, <<>>) /\ engine' = Set(engine, w, "render")
        /\ UNCHANGED <<requests, late, abortRequested, wasAborted, rendered>>
    BY <1>3 DEF BeginTask
  <2>2. requests[w] # <<>> /\ enqueued[w] = FirstRequest(w) /\ late[w] = <<>>
    BY <1>1, <2>1 DEF RequestInHand
  <2>3. enqueued[w][Len(enqueued[w])] = Head(requests[w])
    BY <2>2 DEF FirstRequest
  <2>4. EngineTypes'
    BY <1>1, <1>2, <2>1, <2>2, <2>3, EmptySeq DEF EngineTypes, Set, EngineLabels
  <2>5. RequestInHand(w)'
    BY <1>1, <2>1, <2>2, <2>3 DEF RequestInHand, EngineTypes, Set
  <2>6. RequestsInHand'
    BY <1>1, <2>1, <2>5, OthersInHand DEF Set, EngineTypes
  <2>. QED
    BY <2>1, <2>4, <2>6
<1>4. CASE EndTask(w)
  <2>1. /\ engine[w] = "render" /\ engine' = Set(engine, w, "report")
        /\ wasAborted' = Set(wasAborted, w, abortRequested[w])
        /\ rendered' = IF abortRequested[w] THEN rendered ELSE rendered \cup {current[w]}
        /\ UNCHANGED <<requests, enqueued, late, current, abortRequested>>
    BY <1>4 DEF EndTask
  <2>2. requests[w] # <<>> /\ current[w] = Head(requests[w])
    BY <1>1, <2>1 DEF RequestInHand
  <2>3. EngineTypes'
    BY <1>1, <2>1 DEF EngineTypes, Set, EngineLabels
  <2>4. RequestInHand(w)'
    BY <1>1, <2>1, <2>2 DEF RequestInHand, EngineTypes, Set
  <2>5. RequestsInHand'
    BY <1>1, <2>1, <2>4, OthersInHand DEF Set, EngineTypes
  <2>. QED
    BY <1>2, <2>1, <2>2, <2>3, <2>5
<1>5. CASE ReportFinished(w) \/ NotifyRenderFinished(w)
  <2>1. PICK next \in {"notify", "notified"} :
           /\ engine' = Set(engine, w, next)
           /\ engine[w] \in {"report", "notify"}
           /\ UNCHANGED <<requests, enqueued, late, current, abortRequested, wasAborted,
                          rendered>>
    BY <1>5 DEF ReportFinished, NotifyRenderFinished
  <2>2. EngineTypes'
    BY <1>1, <2>1 DEF EngineTypes, Set, EngineLabels
  <2>3. RequestInHand(w)'
    BY <1>1, <2>1 DEF RequestInHand, EngineTypes, Set
  <2>4. RequestsInHand'
    BY <1>1, <2>1, <2>3, OthersInHand DEF Set, EngineTypes
  <2>. QED
    BY <2>1, <2>2, <2>4
<1>. QED
  BY <1>3, <1>4, <1>5

(* So does the step that goes to the next request of the writer.           *)
LEMMA PopTypes ==
  ASSUME TypesInv, NEW w \in Writers, PopRequest(w)
  PROVE  /\ EngineTypes' /\ RequestsInHand'
         /\ requests[w] # <<>> /\ requests'[w] = Tail(requests[w])
         /\ \A v \in Writers \ {w} : requests'[v] = requests[v] /\ late'[v] = late[v]
         /\ late'[w] = <<>> \/ (abortRequested[w] /\ requests'[w] # <<>>)
<1>1. EngineTypes /\ RequestsInHand /\ RequestInHand(w)
  BY DEF TypesInv, RequestsInHand
<1>2. /\ engine[w] = "notified" /\ engine' = Set(engine, w, "reset")
      /\ requests' = Set(requests, w, Tail(requests[w]))
      /\ IF RequestsRemain(requests'[w]) THEN StartTask(w, Head(requests'[w]))
                                         ELSE UNCHANGED <<enqueued, late>>
      /\ UNCHANGED <<current, abortRequested, wasAborted>>
  BY DEF PopRequest, RequestsLeft
<1>3. requests[w] # <<>> /\ enqueued[w] = <<>> /\ late[w] = <<>>
  BY <1>1, <1>2 DEF RequestInHand
<1>4. /\ Tail(requests[w]) \in Seq(Jobs)
      /\ Range(Tail(requests[w])) \subseteq JobsOf(w)
  BY <1>1, <1>3, HeadAndTail DEF EngineTypes
<1>5. /\ requests'[w] = Tail(requests[w]) /\ requests' \in [Writers -> Seq(Jobs)]
      /\ \A v \in Writers \ {w} : requests'[v] = requests[v]
      /\ engine' \in [Writers -> EngineLabels] /\ engine'[w] = "reset"
      /\ \A v \in Writers \ {w} : engine'[v] = engine[v]
  BY <1>1, <1>2, <1>4 DEF EngineTypes, Set, EngineLabels
<1>6. \A v \in Writers : Range(requests'[v]) \subseteq JobsOf(v)
  BY <1>1, <1>4, <1>5 DEF EngineTypes
<1>7. /\ enqueued' \in [Writers -> Seq(Jobs)] /\ late' \in [Writers -> Seq(Jobs)]
      /\ \A v \in Writers \ {w} : enqueued'[v] = enqueued[v] /\ late'[v] = late[v]
      /\ RequestInHand(w)'
      /\ late'[w] = <<>> \/ (abortRequested[w] /\ requests'[w] # <<>>)
  <2>1. CASE requests'[w] = <<>>
    <3>1. enqueued' = enqueued /\ late' = late
      BY <1>2, <2>1 DEF RequestsRemain
    <3>. QED
      BY <1>1, <1>3, <1>5, <2>1, <3>1 DEF RequestInHand, EngineTypes
  <2>2. CASE requests'[w] # <<>>
    <3> DEFINE j == Head(requests'[w])
    <3>1. j \in Jobs /\ StartTask(w, j)
      BY <1>2, <1>4, <1>5, <2>2, HeadAndTail DEF RequestsRemain
    <3>2. FirstRequest(w)' = <<j>>
      BY DEF FirstRequest
    <3> HIDE DEF j
    <3>3. /\ enqueued' \in [Writers -> Seq(Jobs)] /\ late' \in [Writers -> Seq(Jobs)]
          /\ \A v \in Writers \ {w} : enqueued'[v] = enqueued[v] /\ late'[v] = late[v]
          /\ IF abortRequested[w] THEN enqueued'[w] = <<>> /\ late'[w] = <<j>>
                                  ELSE enqueued'[w] = <<j>> /\ late'[w] = <<>>
      BY <1>1, <1>3, <3>1, TaskIsQueued
    <3>4. RequestInHand(w)'
      BY <1>5, <2>2, <3>2, <3>3 DEF RequestInHand
    <3>. QED
      BY <2>2, <3>3, <3>4
  <2>. QED
    BY <2>1, <2>2
<1>8. EngineTypes'
  BY <1>1, <1>2, <1>5, <1>6, <1>7 DEF EngineTypes
<1>9. RequestsInHand'
  <2>1. \A v \in Writers \ {w} : current'[v] = current[v]
    BY <1>2
  <2>. QED
    BY <1>1, <1>5, <1>7, <2>1, OthersInHand
<1>. QED
  BY <1>3, <1>5, <1>7, <1>8, <1>9

(* So does the end of run(), which may merge the queues.                   *)
LEMMA ResetTypes ==
  ASSUME TypesInv, NEW w \in Writers, ResetAbort(w)
  PROVE  EngineTypes' /\ RequestsInHand'
<1>1. EngineTypes /\ RequestsInHand /\ RequestInHand(w)
  BY DEF TypesInv, RequestsInHand
<1>2. /\ engine[w] = "reset" /\ engine' = Set(engine, w, "idle")
      /\ current' = Set(current, w, NoJob)
      /\ IF wasAborted[w]
           THEN /\ enqueued' = Set(enqueued, w, enqueued[w] \o late[w])
                /\ late' = Set(late, w, <<>>)
           ELSE UNCHANGED <<enqueued, late>>
      /\ abortRequested' = Set(abortRequested, w, FALSE)
      /\ UNCHANGED <<requests, wasAborted>>
  BY DEF ResetAbort
<1>3. /\ enqueued[w] \in Seq(Jobs) /\ late[w] \in Seq(Jobs)
      /\ enqueued[w] = <<>> \/ late[w] = <<>>
  BY <1>1, <1>2 DEF RequestInHand, EngineTypes
<1>4. /\ enqueued[w] \o late[w] = IF late[w] = <<>> THEN enqueued[w] ELSE late[w]
      /\ enqueued[w] \o late[w] \in Seq(Jobs) /\ <<>> \in Seq(Jobs)
  <2>1. enqueued[w] \o <<>> = enqueued[w] /\ <<>> \o late[w] = late[w]
    BY <1>3, ConcatEmptySeq
  <2>. QED
    BY <1>3, <2>1, EmptySeq
<1>5. EngineTypes'
  <2>1. enqueued' \in [Writers -> Seq(Jobs)] /\ late' \in [Writers -> Seq(Jobs)]
    <3>1. CASE wasAborted[w]
      <4>1. /\ enqueued' = Set(enqueued, w, enqueued[w] \o late[w])
            /\ late' = Set(late, w, <<>>)
        BY <1>2, <3>1
      <4> DEFINE merged == enqueued[w] \o late[w]
      <4>2. merged \in Seq(Jobs) /\ <<>> \in Seq(Jobs)
        BY <1>4
      <4> HIDE DEF merged
      <4>. QED
        BY <1>1, <4>1, <4>2 DEF EngineTypes, Set, merged
    <3>2. CASE ~wasAborted[w]
      BY <1>1, <1>2, <3>2 DEF EngineTypes
    <3>. QED
      BY <3>1, <3>2
  <2>2. /\ engine' \in [Writers -> EngineLabels] /\ current' \in [Writers -> Jobs \cup {NoJob}]
        /\ abortRequested' \in [Writers -> BOOLEAN]
    BY <1>1, <1>2 DEF EngineTypes, Set, EngineLabels
  <2>. QED
    BY <1>1, <1>2, <2>1, <2>2 DEF EngineTypes
<1>6. RequestInHand(w)'
  <2>1. FirstRequest(w)' = FirstRequest(w) /\ requests'[w] = requests[w] /\ engine'[w] = "idle"
    BY <1>1, <1>2 DEF FirstRequest, EngineTypes, Set
  <2>2. CASE wasAborted[w]
    <3>1. enqueued'[w] = enqueued[w] \o late[w] /\ late'[w] = <<>>
      BY <1>1, <1>2, <2>2 DEF EngineTypes, Set
    <3>. QED
      BY <1>1, <1>2, <1>4, <2>1, <3>1 DEF RequestInHand
  <2>3. CASE ~wasAborted[w]
    BY <1>1, <1>2, <2>1, <2>3 DEF RequestInHand
  <2>. QED
    BY <2>2, <2>3
<1>7. RequestsInHand'
  <2>1. \A v \in Writers \ {w} :
             /\ requests'[v] = requests[v] /\ enqueued'[v] = enqueued[v]
             /\ late'[v] = late[v] /\ engine'[v] = engine[v] /\ current'[v] = current[v]
    BY <1>1, <1>2 DEF EngineTypes, Set
  <2>. QED
    BY <1>1, <1>6, <2>1, OthersInHand
<1>. QED
  BY <1>5, <1>7

-----------------------------------------------------------------------------
(* The steps and the types *)

(* What s_renderFinished() queues.                                         *)
LEMMA EventsQueued ==
  ASSUME TypesInv, NEW w \in Writers, ReportFinished(w)
  PROVE  /\ events' \in Seq(EventRecords) /\ EventsAreOfWriters'
         /\ mode # "Gui" => events' = events
         /\ \A e \in Range(events') : e \in Range(events) \/ e.writer = w
         /\ \A e \in Range(events) : e \in Range(events')
         /\ NoEvent(w) /\ IsInjective(events) => IsInjective(events')
<1>1. events \in Seq(EventRecords) /\ EventsAreOfWriters /\ TaskIsOf(w)
  BY DEF TypesInv, MainTypes, TasksAreOfWriters
<1>2. events' = IF mode = "Gui" THEN events \o FinishedEvents(w) ELSE events
  BY DEF ReportFinished
<1>3. CASE mode = "Gui"
  <2> DEFINE a == [to |-> "app", writer |-> w, job |-> NoJob]
             t == [to |-> "task", writer |-> w, job |-> task[w].job]
             new == FinishedEvents(w)
  <2>1. a \in EventRecords /\ a.writer = w /\ a.to = "app" /\ a.job = NoJob
    BY DEF EventRecords
  <2>2. CASE task[w].jobs = {}
    <3>1. new = <<a>>
      BY <2>2 DEF FinishedEvents
    <3>2. new \in Seq(EventRecords) /\ Range(new) = {a} /\ IsInjective(new)
      BY <2>1, <3>1, OneElement
    <3> HIDE DEF new, a
    <3>3. /\ events \o new \in Seq(EventRecords)
          /\ Range(events \o new) = Range(events) \cup {a}
          /\ IsInjective(events) /\ a \notin Range(events) => IsInjective(events \o new)
      BY <1>1, <3>2, ConcatOfLists
    <3>4. NoEvent(w) => a \notin Range(events)
      BY <2>1 DEF NoEvent
    <3>. QED
      BY <1>1, <1>2, <1>3, <2>1, <3>3, <3>4 DEF EventsAreOfWriters, new
  <2>3. CASE task[w].jobs # {}
    <3>1. new = <<a>> \o <<t>>
      BY <2>3 DEF FinishedEvents
    <3>2. task[w].job \in JobsOf(w)
      BY <1>1, <2>3 DEF TaskIsOf
    <3>3. t \in EventRecords /\ t.writer = w /\ t.to = "task" /\ t.job \in JobsOf(w)
      BY <3>2 DEF EventRecords, JobsOf
    <3>4. a # t
      BY <2>1, <3>3
    <3> HIDE DEF new, a, t
    <3>5. new \in Seq(EventRecords) /\ Range(new) = {a, t} /\ IsInjective(new)
      <4>1. a \in EventRecords /\ t \in EventRecords /\ a # t
        BY <2>1, <3>3, <3>4
      <4>2. /\ <<a>> \o <<t>> \in Seq(EventRecords) /\ Range(<<a>> \o <<t>>) = {a, t}
            /\ IsInjective(<<a>> \o <<t>>)
        BY ONLY <4>1, TwoElements
      <4>. QED
        BY <3>1, <4>2
    <3>6. /\ events \o new \in Seq(EventRecords)
          /\ Range(events \o new) = Range(events) \cup {a, t}
          /\ IsInjective(events) /\ a \notin Range(events) /\ t \notin Range(events)
               => IsInjective(events \o new)
      BY <1>1, <3>5, ConcatOfLists
    <3>7. NoEvent(w) => a \notin Range(events) /\ t \notin Range(events)
      BY <2>1, <3>3 DEF NoEvent
    <3>. QED
      BY <1>1, <1>2, <1>3, <2>1, <3>3, <3>6, <3>7 DEF EventsAreOfWriters, new
  <2>. QED
    BY <2>2, <2>3
<1>4. CASE mode # "Gui"
  BY <1>1, <1>2, <1>4 DEF EventsAreOfWriters
<1>. QED
  BY <1>3, <1>4

(* Every step of an engine keeps the types.                                *)
LEMMA EngineStepTypes ==
  ASSUME TypesInv, NEW w \in Writers, EngineStep(w)
  PROVE  TypesInv'
<1>1. UNCHANGED <<processVars, queueVars, task, todo, userVars>>
  BY DEF EngineStep
<1>2. PipeTypes' /\ TasksAreOfWriters'
  BY <1>1 DEF TypesInv, PipeTypes, processVars, pipeVars, TasksAreOfWriters, TaskIsOf
<1>3. /\ MainTypes /\ EventsAreOfWriters
      /\ mode' = mode /\ queuing' = queuing /\ everUnqueued' = everUnqueued
      /\ renderQueue' = renderQueue /\ activeRenders' = activeRenders /\ task' = task
      /\ todo' = todo /\ asked' = asked /\ canceled' = canceled
  BY <1>1 DEF TypesInv, queueVars, userVars
<1>4. /\ EngineTypes' /\ RequestsInHand' /\ rendered' \subseteq Jobs
      /\ events' \in Seq(EventRecords) /\ EventsAreOfWriters'
      /\ blocking' \in [Jobs -> BlockingLabels]
  <2>1. CASE BeginTask(w) \/ EndTask(w) \/ NotifyRenderFinished(w)
    <3>1. events' = events /\ blocking' = blocking
      BY <2>1 DEF BeginTask, EndTask, NotifyRenderFinished
    <3>2. /\ EngineTypes' /\ RequestsInHand'
          /\ rendered' = rendered \/ (rendered' = rendered \cup {current[w]}
                                      /\ current[w] \in Jobs)
      BY <2>1, BeginEndTypes
    <3>. QED
      BY <1>3, <3>1, <3>2 DEF MainTypes, EventsAreOfWriters
  <2>2. CASE ReportFinished(w)
    <3>1. blocking' = blocking /\ rendered' = rendered
      BY <2>2 DEF ReportFinished
    <3>2. EngineTypes' /\ RequestsInHand'
      BY <2>2, BeginEndTypes
    <3>3. events' \in Seq(EventRecords) /\ EventsAreOfWriters'
      BY <2>2, EventsQueued
    <3>. QED
      BY <1>3, <3>1, <3>2, <3>3 DEF MainTypes
  <2>3. CASE PopRequest(w)
    <3>1. EngineTypes' /\ RequestsInHand' /\ requests[w] # <<>>
      BY <2>3, PopTypes
    <3>2. Head(requests[w]) \in Jobs
      BY <3>1, HeadAndTail DEF TypesInv, EngineTypes
    <3>3. blocking' \in [Jobs -> BlockingLabels]
      BY <1>3, <2>3, <3>2 DEF PopRequest, Set, MainTypes, BlockingLabels
    <3>4. events' = events /\ rendered' = rendered
      BY <2>3 DEF PopRequest
    <3>. QED
      BY <1>3, <3>1, <3>3, <3>4 DEF MainTypes, EventsAreOfWriters
  <2>4. CASE ResetAbort(w)
    <3>1. EngineTypes' /\ RequestsInHand'
      BY <2>4, ResetTypes
    <3>2. events' = events /\ rendered' = rendered /\ blocking' = blocking
      BY <2>4 DEF ResetAbort
    <3>. QED
      BY <1>3, <3>1, <3>2 DEF MainTypes, EventsAreOfWriters
  <2>. QED
    BY <2>1, <2>2, <2>3, <2>4 DEF EngineStep
<1>5. MainTypes'
  BY <1>3, <1>4 DEF MainTypes
<1>. QED
  BY <1>2, <1>4, <1>5 DEF TypesInv

(* The lists of jobs a user renders at once: of different writers.         *)
Requests == {<<j>> : j \in Jobs} \cup {<<j, k>> : j \in Jobs, k \in Jobs}
WritersOf(js) == {WriterOf[j] : j \in Range(js)}
LEMMA RequestedList ==
  ASSUME NEW js \in Requests, Cardinality(WritersOf(js)) = Len(js)
  PROVE  /\ js \in Seq(Jobs) /\ js # <<>> /\ IsInjective(js) /\ OnePerWriter(Range(js))
         /\ Range(js) \subseteq Jobs /\ Range(js) # {}
         /\ WritersOf(js) \subseteq Writers /\ IsFiniteSet(WritersOf(js))
<1>1. CASE \E j \in Jobs : js = <<j>>
  <2>1. PICK j \in Jobs : js = <<j>>
    BY <1>1
  <2>2. js \in Seq(Jobs) /\ js # <<>> /\ IsInjective(js) /\ Range(js) = {j}
    BY <2>1, ShortLists
  <2>3. WritersOf(js) = {WriterOf[j]}
    BY <2>2 DEF WritersOf
  <2>4. IsFiniteSet({WriterOf[j]})
    BY FS_Singleton
  <2>5. WriterOf[j] \in Writers
    OBVIOUS
  <2>. QED
    BY <2>2, <2>3, <2>4, <2>5 DEF OnePerWriter
<1>2. CASE \E j \in Jobs, k \in Jobs : js = <<j, k>>
  <2>1. PICK j \in Jobs, k \in Jobs : js = <<j, k>>
    BY <1>2
  <2>2. /\ js \in Seq(Jobs) /\ js # <<>> /\ Len(js) = 2 /\ Range(js) = {j, k}
        /\ j # k => IsInjective(js)
    <3>1. j \in Jobs /\ k \in Jobs
      OBVIOUS
    <3>2. /\ <<j, k>> \in Seq(Jobs) /\ <<j, k>> # <<>> /\ Len(<<j, k>>) = 2
          /\ Range(<<j, k>>) = {j, k}
          /\ j # k => IsInjective(<<j, k>>)
      BY ONLY <3>1 DEF Range, IsInjective
    <3>. QED
      BY <2>1, <3>2
  <2>3. WritersOf(js) = {WriterOf[j], WriterOf[k]}
    BY <2>2 DEF WritersOf
  <2>4. WriterOf[j] # WriterOf[k]
    <3>1. SUFFICES ASSUME WriterOf[j] = WriterOf[k] PROVE FALSE
      OBVIOUS
    <3>2. WritersOf(js) = {WriterOf[j]}
      BY <2>3, <3>1
    <3>3. Cardinality({WriterOf[j]}) = 1
      BY FS_Singleton
    <3>4. Cardinality(WritersOf(js)) = 2
      BY <2>2
    <3>. QED
      BY <3>2, <3>3, <3>4
  <2>5. IsFiniteSet({WriterOf[j]} \cup {WriterOf[k]})
    BY FS_Singleton, FS_Union
  <2>6. {WriterOf[j], WriterOf[k]} = {WriterOf[j]} \cup {WriterOf[k]}
    OBVIOUS
  <2>7. IsFiniteSet(WritersOf(js)) /\ WritersOf(js) \subseteq Writers
    BY <2>3, <2>5, <2>6
  <2>8. IsInjective(js) /\ js \in Seq(Jobs) /\ js # <<>>
    BY <2>2, <2>4
  <2>9. OnePerWriter(Range(js)) /\ Range(js) \subseteq Jobs /\ Range(js) # {}
    <3>1. Range(js) = {j, k}
      BY <2>2
    <3>. QED
      BY ONLY <2>4, <3>1, j \in Jobs, k \in Jobs DEF OnePerWriter
  <2>. QED
    BY ONLY <2>7, <2>8, <2>9
<1>. QED
  BY <1>1, <1>2 DEF Requests

(* What a request to render does to the tasks and the queue.               *)
NewTask(j) == [jobs |-> {j}, canceled |-> FALSE, job |-> j]
RequestEffect(js) ==
    /\ mode # "Blocking" /\ todo = <<>> /\ Range(js) \cap asked = {}
    /\ \A w \in WritersOf(js) : Overlap \/ ~Busy(w)
    /\ asked' = asked \cup Range(js)
    /\ CancelEffect(WritersOf(js))
    /\ mode = "Process" => \A v, w \in LiveOf(WritersOf(js)) : v = w
    /\ task' \in [Writers -> TaskRecords]
    /\ \A w \in Writers \ WritersOf(js) : task'[w] = task[w]
    /\ \A j \in Range(js) : task'[WriterOf[j]] = NewTask(j)
    /\ \E A, B \in SUBSET Jobs :
          Enqueued(WithoutFirstOf(renderQueue, LiveOf(WritersOf(js))), js, A, B)
    /\ UNCHANGED <<activeRenders, requests, enqueued, late, engine, current, wasAborted,
                   events, mode, queuing, everUnqueued, blocking, rendered>>
LEMMA RenderRequested ==
  ASSUME TypesInv, NEW js \in Requests, RequestRender(js)
  PROVE  /\ RequestEffect(js)
         /\ js \in Seq(Jobs) /\ IsInjective(js) /\ OnePerWriter(Range(js))
         /\ Range(js) \subseteq Jobs /\ WritersOf(js) \subseteq Writers
<1> DEFINE ws == WritersOf(js)
           q == WithoutFirstOf(renderQueue, LiveOf(ws))
<1>1. /\ mode # "Blocking" /\ todo = <<>> /\ Range(js) \cap asked = {}
      /\ Cardinality(ws) = Len(js)
      /\ \A w \in ws : Overlap \/ ~Busy(w)
      /\ mode = "Process" => Cardinality(LiveOf(ws)) <= 1
      /\ asked' = asked \cup Range(js)
      /\ CancelRenders(ws)
      /\ task' = [w \in Writers |-> IF w \in ws
                     THEN [jobs |-> {ByWriter(js, w)}, canceled |-> FALSE,
                           job |-> ByWriter(js, w)]
                     ELSE task[w]]
      /\ Enqueue(q, js)
      /\ UNCHANGED <<activeRenders, requests, enqueued, late, engine, current, wasAborted,
                     events, mode, queuing, everUnqueued, blocking, rendered>>
  BY DEF RequestRender, WritersOf, UserIsFree, Fresh, LiveOf
<1>2. /\ js \in Seq(Jobs) /\ js # <<>> /\ IsInjective(js) /\ OnePerWriter(Range(js))
      /\ Range(js) \subseteq Jobs /\ ws \subseteq Writers /\ IsFiniteSet(ws)
  BY <1>1, RequestedList
<1>3. ASSUME NEW j \in Range(js) PROVE ByWriter(js, WriterOf[j]) = j
  <2>1. \E k \in Range(js) : WriterOf[k] = WriterOf[j]
    OBVIOUS
  <2>2. /\ ByWriter(js, WriterOf[j]) \in Range(js)
        /\ WriterOf[ByWriter(js, WriterOf[j])] = WriterOf[j]
    BY <2>1 DEF ByWriter
  <2>. QED
    BY <1>2, <2>2 DEF OnePerWriter
<1>4. \A w \in ws : \E j \in Range(js) : w = WriterOf[j] /\ ByWriter(js, w) = j
  BY <1>3 DEF WritersOf
<1>5. task \in [Writers -> TaskRecords] /\ renderQueue \in Seq(Jobs)
  BY DEF TypesInv, MainTypes
<1>6. \A j \in Range(js) : WriterOf[j] \in ws /\ WriterOf[j] \in Writers
  BY <1>2 DEF WritersOf
<1>7. CancelEffect(ws)
  BY <1>1, <1>2, RendersCanceled
<1>8. mode = "Process" => \A v, w \in LiveOf(ws) : v = w
  <2> SUFFICES ASSUME mode = "Process", NEW v \in LiveOf(ws), NEW w \in LiveOf(ws), v # w
               PROVE  FALSE
    OBVIOUS
  <2>1. IsFiniteSet(LiveOf(ws))
    BY <1>2, FS_Subset DEF LiveOf
  <2>2. /\ Cardinality({v, w}) <= Cardinality(LiveOf(ws)) /\ Cardinality({v, w}) \in Nat
        /\ Cardinality(LiveOf(ws)) \in Nat
    <3>1. {v, w} \subseteq LiveOf(ws)
      OBVIOUS
    <3>2. IsFiniteSet({v, w})
      BY <2>1, <3>1, FS_Subset
    <3>. QED
      BY <2>1, <3>1, <3>2, FS_Subset, FS_CardinalityType
  <2>3. Cardinality({v, w}) = 2
    <3>1. Cardinality({v}) = 1 /\ IsFiniteSet({v})
      BY FS_Singleton
    <3>2. w \notin {v}
      OBVIOUS
    <3>4. Cardinality({v} \cup {w}) = 2
      <4> DEFINE S == {v}
      <4>1. IsFiniteSet(S) /\ Cardinality(S) = 1 /\ w \notin S
        BY <3>1, <3>2
      <4> HIDE DEF S
      <4>2. Cardinality(S \cup {w}) = Cardinality(S) + 1
        BY <4>1, FS_AddElement, Zenon
      <4>3. Cardinality(S \cup {w}) = 2
        BY <4>1, <4>2
      <4>. QED
        BY <4>3 DEF S
    <3>3. {v} \cup {w} = {v, w}
      OBVIOUS
    <3>. QED
      BY <3>3, <3>4
  <2>. QED
    BY <1>1, <2>2, <2>3
<1> HIDE DEF ws
<1>9. task' \in [Writers -> TaskRecords]
  <2>1. \A w \in ws : ByWriter(js, w) \in Jobs
    BY <1>2, <1>4
  <2>2. \A w \in ws : [jobs |-> {ByWriter(js, w)}, canceled |-> FALSE,
                       job |-> ByWriter(js, w)] \in TaskRecords
    BY <2>1 DEF TaskRecords
  <2>3. \A w \in Writers : task'[w] \in TaskRecords
    BY <1>1, <1>5, <2>2
  <2>. QED
    BY <1>1, <2>3
<1>10. \A j \in Range(js) : task'[WriterOf[j]] = NewTask(j)
  BY <1>1, <1>3, <1>6 DEF NewTask
<1>11. q \in Seq(Jobs)
  BY <1>5, FirstsRemoved
<1> HIDE DEF q
<1>12. \E A, B \in SUBSET Jobs : Enqueued(q, js, A, B)
  BY <1>1, <1>2, <1>11, RendersEnqueued
<1>13. \A w \in Writers \ ws : task'[w] = task[w]
  BY <1>1
<1>. QED
  BY <1>1, <1>2, <1>7, <1>8, <1>9, <1>10, <1>12, <1>13 DEF RequestEffect, ws, q

(* A step that changes nothing of the engines but what they are asked to   *)
(* abort.                                                                  *)
LEMMA EnginesKept ==
  ASSUME TypesInv, UNCHANGED <<requests, enqueued, late, engine, current, wasAborted>>,
         abortRequested' \in [Writers -> BOOLEAN]
  PROVE  EngineTypes' /\ RequestsInHand'
  BY DEF TypesInv, EngineTypes, RequestsInHand, RequestInHand, FirstRequest

(* A click cancels the process of one live task at most.                   *)
LEMMA CancelIsProcessStep ==
  ASSUME NEW ws, CancelEffect(ws)
  PROVE  ProcessStep
<1>1. CASE UNCHANGED processVars
  BY <1>1 DEF ProcessStep
<1>2. CASE ~UNCHANGED processVars
  <2>1. \E w \in LiveOf(ws) : CancelProcess(task[w].job)
    BY <1>2 DEF CancelEffect
  <2>2. \A w \in LiveOf(ws) : task[w].job \in Jobs
    BY DEF CancelEffect, JobsOf
  <2>3. \E j \in Jobs : CancelProcess(j)
    BY <2>1, <2>2
  <2>. QED
    BY <2>3 DEF ProcessStep
<1>. QED
  BY <1>1, <1>2

(* It cancels jobs, and takes back no cancel.                              *)
LEMMA CanceledJobs ==
  ASSUME TypesInv, NEW ws, CancelEffect(ws)
  PROVE  canceled' \subseteq Jobs /\ canceled \subseteq canceled'
  BY DEF CancelEffect, JobsOf, TypesInv, MainTypes

(* The types after a request to render.                                    *)
LEMMA RequestTypes ==
  ASSUME TypesInv, NEW js \in Requests, RequestRender(js)
  PROVE  TypesInv'
<1> DEFINE ws == WritersOf(js)
<1>1. /\ RequestEffect(js) /\ Range(js) \subseteq Jobs /\ ws \subseteq Writers
  BY RenderRequested
<1>2. /\ CancelEffect(ws) /\ asked' = asked \cup Range(js)
      /\ task' \in [Writers -> TaskRecords]
      /\ \A w \in Writers \ ws : task'[w] = task[w]
      /\ \A j \in Range(js) : task'[WriterOf[j]] = NewTask(j)
      /\ renderQueue' \in Seq(Jobs) /\ todo' \in Seq(FrameRecords)
      /\ UNCHANGED <<activeRenders, requests, enqueued, late, engine, current, wasAborted,
                     events, mode, queuing, everUnqueued, blocking, rendered>>
  BY <1>1 DEF RequestEffect, Enqueued
<1>3. PipeTypes'
  BY <1>2, CancelIsProcessStep, PipeTypesPreserved DEF TypesInv
<1>4. EngineTypes' /\ RequestsInHand'
  BY <1>2, EnginesKept DEF CancelEffect
<1>5. TasksAreOfWriters'
  <2>1. ASSUME NEW w \in Writers PROVE TaskIsOf(w)'
    <3>1. CASE w \in ws
      <4>1. PICK j \in Range(js) : w = WriterOf[j]
        BY <3>1 DEF WritersOf
      <4>2. task'[w] = NewTask(j) /\ j \in JobsOf(w)
        BY <1>1, <1>2, <4>1 DEF JobsOf
      <4>. QED
        BY <4>2 DEF TaskIsOf, NewTask
    <3>2. CASE w \notin ws
      BY <1>2, <3>2 DEF TypesInv, TasksAreOfWriters, TaskIsOf
    <3>. QED
      BY <3>1, <3>2
  <2>. QED
    BY <2>1 DEF TasksAreOfWriters
<1>6. canceled' \subseteq Jobs
  BY <1>2, CanceledJobs
<1>7. MainTypes' /\ EventsAreOfWriters'
  BY <1>1, <1>2, <1>6 DEF TypesInv, MainTypes, EventsAreOfWriters
<1>. QED
  BY <1>3, <1>4, <1>5, <1>7 DEF TypesInv

(* After a click on pause or cancel.                                       *)
LEMMA CancelTypes ==
  ASSUME TypesInv, NEW w \in Writers, NEW remove \in BOOLEAN, CancelTask(w, remove)
  PROVE  /\ TypesInv' /\ CancelEffect({w}) /\ Live(w)
         /\ task'[w] = NoTaskYet \/ task'[w] = [task[w] EXCEPT !.canceled = TRUE]
         /\ \A v \in Writers \ {w} : task'[v] = task[v]
<1>1. /\ Live(w) /\ CancelRenders({w})
      /\ renderQueue' = WithoutFirstOf(renderQueue, {w})
      /\ task' = IF remove THEN Set(task, w, NoTaskYet)
                           ELSE [task EXCEPT ![w].canceled = TRUE]
      /\ UNCHANGED <<activeRenders, requests, enqueued, late, engine, current, wasAborted,
                     events, todo, mode, queuing, asked, everUnqueued, blocking, rendered>>
  BY DEF CancelTask
<1>2. CancelEffect({w})
  BY <1>1, RendersCanceled
<1>3. /\ task \in [Writers -> TaskRecords] /\ TasksAreOfWriters
      /\ renderQueue \in Seq(Jobs)
  BY DEF TypesInv, MainTypes
<1>4. PipeTypes'
  BY <1>2, CancelIsProcessStep, PipeTypesPreserved DEF TypesInv
<1>5. EngineTypes' /\ RequestsInHand'
  BY <1>1, <1>2, EnginesKept DEF CancelEffect
<1>6. /\ task' \in [Writers -> TaskRecords]
      /\ task'[w] = NoTaskYet \/ task'[w] = [task[w] EXCEPT !.canceled = TRUE]
      /\ \A v \in Writers \ {w} : task'[v] = task[v]
  BY <1>1, <1>3 DEF Set, NoTaskYet, TaskRecords
<1>7. TasksAreOfWriters'
  <2>1. TaskIsOf(w)'
    <3>1. TaskIsOf(w) /\ task[w] \in TaskRecords
      BY <1>3 DEF TasksAreOfWriters
    <3>2. CASE task'[w] = NoTaskYet
      BY <3>2 DEF TaskIsOf, NoTaskYet
    <3>3. CASE task'[w] = [task[w] EXCEPT !.canceled = TRUE]
      <4>1. task'[w].jobs = task[w].jobs /\ task'[w].job = task[w].job
        BY <3>1, <3>3 DEF TaskRecords
      <4>2. task[w].jobs # {}
        BY <1>1 DEF Live
      <4>. QED
        BY <3>1, <4>1, <4>2 DEF TaskIsOf
    <3>. QED
      BY <1>6, <3>2, <3>3
  <2>2. \A v \in Writers \ {w} : TaskIsOf(v)'
    BY <1>3, <1>6 DEF TasksAreOfWriters, TaskIsOf
  <2>. QED
    BY <2>1, <2>2 DEF TasksAreOfWriters
<1>8. renderQueue' \in Seq(Jobs)
  BY <1>1, <1>3, FirstsRemoved
<1>9. canceled' \subseteq Jobs
  BY <1>2, CanceledJobs
<1>10. MainTypes' /\ EventsAreOfWriters'
  BY <1>1, <1>6, <1>8, <1>9 DEF TypesInv, MainTypes, EventsAreOfWriters
<1>. QED
  BY <1>1, <1>2, <1>4, <1>5, <1>6, <1>7, <1>10 DEF TypesInv

(* After a click on restart.                                               *)
RestartEffect(w, j) ==
    /\ todo = <<>> /\ task[w].canceled /\ j \notin asked /\ WriterOf[j] = w
    /\ Overlap \/ ~Busy(w)
    /\ asked' = asked \cup {j}
    /\ task'[w] = [jobs |-> task[w].jobs \cup {j}, canceled |-> FALSE, job |-> j]
    /\ \A v \in Writers \ {w} : task'[v] = task[v]
    /\ \E A, B \in SUBSET Jobs : Enqueued(renderQueue, <<j>>, A, B)
    /\ UNCHANGED <<processVars, activeRenders, engineVars, events, mode, queuing,
                   canceled, everUnqueued, blocking, rendered>>
LEMMA RestartTypes ==
  ASSUME TypesInv, NEW w \in Writers, NEW j \in Jobs, RestartTask(w, j)
  PROVE  TypesInv' /\ RestartEffect(w, j)
<1>1. /\ todo = <<>> /\ task[w].canceled /\ Range(<<j>>) \cap asked = {}
      /\ WriterOf[j] = w
      /\ Overlap \/ ~Busy(w)
      /\ asked' = asked \cup {j}
      /\ task' = Set(task, w, [jobs |-> task[w].jobs \cup {j}, canceled |-> FALSE, job |-> j])
      /\ Enqueue(renderQueue, <<j>>)
      /\ UNCHANGED <<processVars, activeRenders, engineVars, events, mode, queuing,
                     canceled, cancels, everUnqueued, blocking, rendered>>
  BY DEF RestartTask, UserIsFree, Fresh
<1>2. /\ task \in [Writers -> TaskRecords] /\ TasksAreOfWriters
      /\ renderQueue \in Seq(Jobs) /\ PipeTypes
  BY DEF TypesInv, MainTypes
<1>3. <<j>> \in Seq(Jobs) /\ <<j>> # <<>> /\ IsInjective(<<j>>) /\ Range(<<j>>) = {j}
  BY ShortLists
<1> DEFINE js == <<j>>
<1>4. \E A, B \in SUBSET Jobs : Enqueued(renderQueue, js, A, B)
  <2>1. js \in Seq(Jobs) /\ js # <<>> /\ IsInjective(js) /\ Enqueue(renderQueue, js)
    BY <1>1, <1>3
  <2> HIDE DEF js
  <2>. QED
    BY <1>1, <1>2, <2>1, RendersEnqueued
<1> HIDE DEF js
<1>5. /\ task' \in [Writers -> TaskRecords]
      /\ task'[w] = [jobs |-> task[w].jobs \cup {j}, canceled |-> FALSE, job |-> j]
      /\ \A v \in Writers \ {w} : task'[v] = task[v]
  BY <1>1, <1>2 DEF Set, TaskRecords
<1>6. TasksAreOfWriters'
  <2>1. TaskIsOf(w)'
    <3>1. TaskIsOf(w) /\ j \in JobsOf(w)
      <4>1. TaskIsOf(w)
        BY <1>2 DEF TasksAreOfWriters
      <4>2. j \in JobsOf(w)
        BY <1>1 DEF JobsOf
      <4>. QED
        BY <4>1, <4>2
    <3>2. task'[w].jobs = task[w].jobs \cup {j} /\ task'[w].job = j
      BY <1>5
    <3>. QED
      BY <3>1, <3>2 DEF TaskIsOf
  <2>2. \A v \in Writers \ {w} : TaskIsOf(v)'
    BY <1>2, <1>5 DEF TasksAreOfWriters, TaskIsOf
  <2>. QED
    BY <2>1, <2>2 DEF TasksAreOfWriters
<1>7. PipeTypes'
  BY <1>1, <1>2, PipeTypesPreserved DEF ProcessStep
<1>8. EngineTypes' /\ RequestsInHand'
  <2>1. /\ UNCHANGED <<requests, enqueued, late, engine, current, wasAborted>>
        /\ abortRequested' \in [Writers -> BOOLEAN]
    BY <1>1 DEF engineVars, TypesInv, EngineTypes
  <2>. QED
    BY <2>1, EnginesKept
<1>9. renderQueue' \in Seq(Jobs) /\ todo' \in Seq(FrameRecords)
  BY <1>4 DEF Enqueued
<1>10. MainTypes' /\ EventsAreOfWriters'
  BY <1>1, <1>5, <1>9 DEF TypesInv, MainTypes, EventsAreOfWriters
<1>11. RestartEffect(w, j)
  <2>1. j \notin asked
    BY <1>1, <1>3
  <2>2. UNCHANGED <<processVars, activeRenders, engineVars, events, mode, queuing,
                    canceled, everUnqueued, blocking, rendered>>
    BY <1>1
  <2>3. \E A, B \in SUBSET Jobs : Enqueued(renderQueue, <<j>>, A, B)
    BY <1>4 DEF js
  <2>. QED
    BY <1>1, <1>5, <2>1, <2>2, <2>3 DEF RestartEffect
<1>. QED
  BY <1>6, <1>7, <1>8, <1>10, <1>11 DEF TypesInv

(* The call the main thread is in: what is left when it goes on or returns *)
LEMMA CallInProgress ==
  ASSUME TypesInv, todo # <<>>
  PROVE  /\ Head(todo) \in FrameRecords /\ Job \in Jobs /\ Head(todo) \in Range(todo)
         /\ Head(todo) = Frame(Head(todo).step, Job)
         /\ Tail(todo) \in Seq(FrameRecords)
         /\ Range(todo) = {Head(todo)} \cup Range(Tail(todo))
         /\ IsInjective(todo) => /\ IsInjective(Tail(todo))
                                 /\ Head(todo) \notin Range(Tail(todo))
         /\ \A step \in Steps :
               LET rest == <<Frame(step, Job)>> \o Tail(todo)
               IN /\ rest \in Seq(FrameRecords)
                  /\ Range(rest) = {Frame(step, Job)} \cup Range(Tail(todo))
                  /\ IsInjective(Tail(todo)) /\ Frame(step, Job) \notin Range(Tail(todo))
                       => IsInjective(rest)
<1>1. todo \in Seq(FrameRecords)
  BY DEF TypesInv, MainTypes
<1>2. /\ Head(todo) \in FrameRecords /\ Tail(todo) \in Seq(FrameRecords)
      /\ Range(todo) = {Head(todo)} \cup Range(Tail(todo))
  BY <1>1, HeadAndTail
<1>3. Job \in Jobs /\ Head(todo) = Frame(Head(todo).step, Job) /\ Head(todo) \in Range(todo)
  BY <1>2 DEF Job, FrameRecords, Frame
<1>4. IsInjective(todo) => /\ IsInjective(Tail(todo))
                           /\ Head(todo) \notin Range(Tail(todo))
  BY <1>1, TailOfList
<1>5. ASSUME NEW step \in Steps
      PROVE  LET rest == <<Frame(step, Job)>> \o Tail(todo)
             IN /\ rest \in Seq(FrameRecords)
                /\ Range(rest) = {Frame(step, Job)} \cup Range(Tail(todo))
                /\ IsInjective(Tail(todo)) /\ Frame(step, Job) \notin Range(Tail(todo))
                     => IsInjective(rest)
  <2>1. Frame(step, Job) \in FrameRecords
    BY <1>3 DEF Frame, FrameRecords
  <2>. QED
    BY <1>2, <2>1, Prepended
<1>. QED
  BY <1>2, <1>3, <1>4, <1>5

(* The types of what a step of the main thread leaves alone.               *)
LEMMA EngineVarsKept ==
  ASSUME TypesInv, UNCHANGED engineVars
  PROVE  EngineTypes' /\ RequestsInHand'
<1>1. /\ UNCHANGED <<requests, enqueued, late, engine, current, wasAborted>>
      /\ abortRequested' \in [Writers -> BOOLEAN]
  BY DEF engineVars, TypesInv, EngineTypes
<1>. QED
  BY <1>1, EnginesKept

(* Likewise of the tasks and of the events.                                *)
LEMMA TasksKept ==
  ASSUME TypesInv, UNCHANGED task
  PROVE  TasksAreOfWriters' /\ task' \in [Writers -> TaskRecords]
  BY DEF TypesInv, MainTypes, TasksAreOfWriters, TaskIsOf

(* Likewise of the processes.                                              *)
LEMMA ProcessesKept ==
  ASSUME TypesInv, UNCHANGED processVars
  PROVE  PipeTypes'
  BY PipeTypesPreserved DEF ProcessStep, TypesInv

(* The types after a call of the main thread starts a render.              *)
LEMMA StartTypes ==
  ASSUME TypesInv, StartRendering
  PROVE  /\ TypesInv' /\ Doing("start")
         /\ activeRenders' \in Seq(Jobs) /\ Active' = Active \cup {Job}
         /\ IsInjective(activeRenders) /\ Job \notin Active => IsInjective(activeRenders')
         /\ mode = "Process" => StartProcess(Job) /\ todo' = Tail(todo)
         /\ mode # "Process" => /\ UNCHANGED processVars
                                /\ todo' = <<Frame("render", Job)>> \o Tail(todo)
<1>1. /\ Doing("start") /\ activeRenders' = Append(activeRenders, Job)
      /\ IF mode = "Process"
            THEN StartProcess(Job) /\ todo' = Tail(todo)
            ELSE todo' = <<Frame("render", Job)>> \o Tail(todo) /\ UNCHANGED processVars
      /\ UNCHANGED <<renderQueue, engineVars, task, events, userVars, blocking, rendered>>
  BY DEF StartRendering
<1>2. /\ Job \in Jobs /\ Tail(todo) \in Seq(FrameRecords)
      /\ <<Frame("render", Job)>> \o Tail(todo) \in Seq(FrameRecords)
  <2>1. "render" \in Steps /\ todo # <<>>
    BY <1>1 DEF Steps, Doing
  <2>. QED
    BY <2>1, CallInProgress
<1>3. /\ activeRenders' \in Seq(Jobs) /\ Active' = Active \cup {Job}
      /\ IsInjective(activeRenders) /\ Job \notin Active => IsInjective(activeRenders')
  <2>1. activeRenders \in Seq(Jobs)
    BY DEF TypesInv, MainTypes
  <2>. QED
    BY <1>1, <1>2, <2>1, AppendToList DEF Active
<1>4. PipeTypes'
  <2>1. ProcessStep
    BY <1>1, <1>2 DEF ProcessStep
  <2>. QED
    BY <2>1, PipeTypesPreserved DEF TypesInv
<1>5. EngineTypes' /\ RequestsInHand'
  BY <1>1, EngineVarsKept
<1>6. todo' \in Seq(FrameRecords)
  BY <1>1, <1>2
<1>7. MainTypes' /\ TasksAreOfWriters' /\ EventsAreOfWriters'
  BY <1>1, <1>3, <1>6, TasksKept DEF TypesInv, MainTypes, EventsAreOfWriters, userVars
<1>. QED
  BY <1>1, <1>3, <1>4, <1>5, <1>7 DEF TypesInv

(* After it asks the user, or queues the request.                          *)
LEMMA SequenceTypes ==
  ASSUME TypesInv, RenderFullSequence
  PROVE  /\ TypesInv' /\ todo # <<>> /\ Head(todo).step \in {"render", "push"}
         /\ \/ UNCHANGED engineVars /\ todo' = <<Frame("ask", Job)>> \o Tail(todo)
            \/ PushRequest(Job) /\ PushEffect(Job) /\ todo' = Tail(todo)
         /\ UNCHANGED <<processVars, queueVars, task, events, userVars, blocking, rendered>>
<1>1. /\ todo # <<>> /\ Head(todo).step \in {"render", "push"}
      /\ \/ UNCHANGED engineVars /\ todo' = <<Frame("ask", Job)>> \o Tail(todo)
         \/ PushRequest(Job) /\ todo' = Tail(todo)
      /\ UNCHANGED <<processVars, queueVars, task, events, userVars, blocking, rendered>>
  BY DEF RenderFullSequence, Doing
<1>2. /\ Job \in Jobs /\ Tail(todo) \in Seq(FrameRecords)
      /\ <<Frame("ask", Job)>> \o Tail(todo) \in Seq(FrameRecords)
  <2>1. "ask" \in Steps
    BY DEF Steps
  <2>. QED
    BY <1>1, <2>1, CallInProgress
<1>3. PushRequest(Job) => PushEffect(Job)
  BY <1>2, RequestPushed DEF TypesInv
<1>4. EngineTypes' /\ RequestsInHand'
  BY <1>1, <1>3, EngineVarsKept DEF PushEffect
<1>5. todo' \in Seq(FrameRecords)
  BY <1>1, <1>2
<1>6. PipeTypes' /\ TasksAreOfWriters'
  BY <1>1, ProcessesKept, TasksKept
<1>7. MainTypes' /\ EventsAreOfWriters'
  BY <1>1, <1>5, <1>6, TasksKept
     DEF TypesInv, MainTypes, EventsAreOfWriters, userVars, queueVars
<1>. QED
  BY <1>1, <1>3, <1>4, <1>6, <1>7 DEF TypesInv

(* After the user agrees.                                                  *)
LEMMA AcceptTypes ==
  ASSUME TypesInv, AcceptQuestion
  PROVE  TypesInv'
<1>1. /\ todo # <<>> /\ todo' = <<Frame("push", Job)>> \o Tail(todo)
      /\ UNCHANGED <<processVars, queueVars, engineVars, task, events, userVars, blocking,
                     rendered>>
  BY DEF AcceptQuestion, Doing
<1>2. todo' \in Seq(FrameRecords)
  <2>1. "push" \in Steps
    BY DEF Steps
  <2>. QED
    BY <1>1, <2>1, CallInProgress
<1>3. PipeTypes' /\ TasksAreOfWriters' /\ EngineTypes' /\ RequestsInHand'
  BY <1>1, ProcessesKept, TasksKept, EngineVarsKept
<1>4. MainTypes' /\ EventsAreOfWriters'
  BY <1>1, <1>2, TasksKept
     DEF TypesInv, MainTypes, EventsAreOfWriters, userVars, queueVars
<1>. QED
  BY <1>3, <1>4 DEF TypesInv

(* What startNextQueuedRender() leaves to do has its types.                *)
LEMMA NextStartedTypes ==
  ASSUME TypesInv, NEW w \in Writers, NEW rest \in Seq(FrameRecords), StartNext(w, rest)
  PROVE  /\ \E N \in SUBSET Jobs : NextStarted(w, rest, N)
         /\ renderQueue' \in Seq(Jobs) /\ activeRenders' \in Seq(Jobs)
         /\ todo' \in Seq(FrameRecords)
<1>1. renderQueue \in Seq(Jobs) /\ activeRenders \in Seq(Jobs)
  BY DEF TypesInv, MainTypes
<1>2. PICK N \in SUBSET Jobs : NextStarted(w, rest, N)
  BY <1>1, NextRenderStarted
<1>3. activeRenders' \in Seq(Jobs)
  BY <1>1, <1>2, FirstsRemoved DEF NextStarted, ActiveWithout
<1>. QED
  BY <1>2, <1>3 DEF NextStarted

(* After the user refuses.                                                 *)
LEMMA RefuseTypes ==
  ASSUME TypesInv, RefuseQuestion
  PROVE  TypesInv'
<1>1. /\ todo # <<>> /\ canceled' = canceled \cup {Job}
      /\ \/ StartNext(WriterOf[Job], <<Frame("stopped", Job)>> \o Tail(todo))
         \/ todo' = Tail(todo) /\ UNCHANGED queueVars
      /\ UNCHANGED <<processVars, engineVars, task, events, mode, queuing, asked, cancels,
                     everUnqueued, blocking, rendered>>
  BY DEF RefuseQuestion, Doing
<1>2. /\ Job \in Jobs /\ Tail(todo) \in Seq(FrameRecords)
      /\ <<Frame("stopped", Job)>> \o Tail(todo) \in Seq(FrameRecords)
      /\ WriterOf[Job] \in Writers
  <2>1. "stopped" \in Steps
    BY DEF Steps
  <2>. QED
    BY <1>1, <2>1, CallInProgress
<1>3. /\ renderQueue' \in Seq(Jobs) /\ activeRenders' \in Seq(Jobs)
      /\ todo' \in Seq(FrameRecords)
  <2>1. CASE StartNext(WriterOf[Job], <<Frame("stopped", Job)>> \o Tail(todo))
    BY <1>2, <2>1, NextStartedTypes
  <2>2. CASE todo' = Tail(todo) /\ UNCHANGED queueVars
    BY <1>2, <2>2 DEF queueVars, TypesInv, MainTypes
  <2>. QED
    BY <1>1, <2>1, <2>2
<1>4. PipeTypes' /\ TasksAreOfWriters' /\ EngineTypes' /\ RequestsInHand'
  BY <1>1, ProcessesKept, TasksKept, EngineVarsKept
<1>5. MainTypes' /\ EventsAreOfWriters'
  BY <1>1, <1>2, <1>3, TasksKept DEF TypesInv, MainTypes, EventsAreOfWriters
<1>. QED
  BY <1>4, <1>5 DEF TypesInv

(* After a task is told that its render has stopped.                       *)
LEMMA StopTypes ==
  ASSUME TypesInv, StopTask
  PROVE  TypesInv'
<1>1. /\ todo # <<>> /\ TaskStopped(Job) /\ todo' = Tail(todo)
      /\ UNCHANGED <<processVars, activeRenders, engineVars, events, userVars, blocking,
                     rendered>>
  BY DEF StopTask, Doing
<1>2. todo' \in Seq(FrameRecords)
  BY <1>1, CallInProgress
<1>3. /\ task' \in [Writers -> TaskRecords] /\ TasksAreOfWriters'
      /\ renderQueue' \in Seq(Jobs)
  BY <1>1, TaskIsStopped
<1>4. PipeTypes' /\ EngineTypes' /\ RequestsInHand'
  BY <1>1, ProcessesKept, EngineVarsKept
<1>5. MainTypes' /\ EventsAreOfWriters'
  BY <1>1, <1>2, <1>3 DEF TypesInv, MainTypes, EventsAreOfWriters, userVars
<1>. QED
  BY <1>3, <1>4, <1>5 DEF TypesInv

(* The event the main thread handles, and the others.                      *)
LEMMA NextEvent ==
  ASSUME TypesInv, events # <<>>, events' = Tail(events)
  PROVE  /\ Head(events) \in EventRecords /\ Head(events) \in Range(events)
         /\ Range(events) = {Head(events)} \cup Range(events')
         /\ events' \in Seq(EventRecords) /\ EventsAreOfWriters'
         /\ IsInjective(events) => /\ IsInjective(events')
                                   /\ Head(events) \notin Range(events')
<1>1. events \in Seq(EventRecords)
  BY DEF TypesInv, MainTypes
<1>2. /\ Head(events) \in EventRecords
      /\ Range(events) = {Head(events)} \cup Range(events')
      /\ events' \in Seq(EventRecords)
  BY <1>1, HeadAndTail
<1>3. IsInjective(events) => /\ IsInjective(events')
                             /\ Head(events) \notin Range(events')
  BY <1>1, TailOfList
<1>4. EventsAreOfWriters'
  BY <1>2 DEF TypesInv, EventsAreOfWriters
<1>. QED
  BY <1>2, <1>3, <1>4

(* After AppInstance is told of the end of a render.                       *)
LEMMA QueuedRenderFinishedTypes ==
  ASSUME TypesInv, OnQueuedRenderFinished
  PROVE  TypesInv'
<1>1. /\ events # <<>> /\ StartNext(Head(events).writer, todo) /\ events' = Tail(events)
      /\ UNCHANGED <<processVars, engineVars, task, userVars, blocking, rendered>>
  BY DEF OnQueuedRenderFinished
<1>2. /\ events' \in Seq(EventRecords) /\ EventsAreOfWriters'
      /\ Head(events).writer \in Writers
  BY <1>1, NextEvent DEF EventRecords
<1>3. todo \in Seq(FrameRecords)
  BY DEF TypesInv, MainTypes
<1>4. /\ renderQueue' \in Seq(Jobs) /\ activeRenders' \in Seq(Jobs)
      /\ todo' \in Seq(FrameRecords)
  BY <1>1, <1>2, <1>3, NextStartedTypes
<1>5. PipeTypes' /\ TasksAreOfWriters' /\ EngineTypes' /\ RequestsInHand'
  BY <1>1, ProcessesKept, TasksKept, EngineVarsKept
<1>6. MainTypes'
  BY <1>1, <1>2, <1>4, TasksKept DEF TypesInv, MainTypes, userVars
<1>. QED
  BY <1>2, <1>5, <1>6 DEF TypesInv

(* After a task is told that the engine has stopped.                       *)
LEMMA EngineStoppedTypes ==
  ASSUME TypesInv, OnRenderEngineStopped
  PROVE  TypesInv'
<1>1. /\ events # <<>> /\ TaskStopped(Head(events).job) /\ events' = Tail(events)
      /\ UNCHANGED <<processVars, activeRenders, engineVars, todo, userVars, blocking,
                     rendered>>
  BY DEF OnRenderEngineStopped
<1>2. events' \in Seq(EventRecords) /\ EventsAreOfWriters'
  BY <1>1, NextEvent
<1>3. /\ task' \in [Writers -> TaskRecords] /\ TasksAreOfWriters'
      /\ renderQueue' \in Seq(Jobs)
  BY <1>1, TaskIsStopped
<1>4. PipeTypes' /\ EngineTypes' /\ RequestsInHand'
  BY <1>1, ProcessesKept, EngineVarsKept
<1>5. MainTypes'
  BY <1>1, <1>2, <1>3 DEF TypesInv, MainTypes, userVars
<1>. QED
  BY <1>2, <1>3, <1>4, <1>5 DEF TypesInv

(* What the end of a process does to the processes: to this one, and to    *)
(* one that is killed, if there is one.                                    *)
LEMMA ProcessFinished ==
  ASSUME TypesInv, NEW j \in Jobs, OnBackgroundRenderProcessFinished(j)
  PROVE  /\ EndOfProcess(j)
         /\ \A k \in Jobs : k \notin Forgotten(j) \ Active' => proc'[k] = proc[k]
<1>1. /\ proc[j] \in {"over", "crashed"} /\ ~ended[j] /\ ended' = Set(ended, j, TRUE)
      /\ proc' = [k \in Jobs |-> IF k \in Forgotten(j) \ Active' THEN "dead" ELSE proc[k]]
      /\ ForgetPipes(j)
  BY DEF OnBackgroundRenderProcessFinished, Active
<1>2. proc \in [Jobs -> ProcLabels]
  BY DEF TypesInv, PipeTypes
<1> DEFINE D == Forgotten(j) \ Active'
<1>3. proc' = [k \in Jobs |-> IF k \in D THEN "dead" ELSE proc[k]]
  BY <1>1
<1> HIDE DEF D
<1>4. /\ proc' \in [Jobs -> ProcLabels]
      /\ \A k \in Jobs : proc'[k] \in {proc[k], "dead"} /\ (k \notin D => proc'[k] = proc[k])
  BY <1>2, <1>3 DEF ProcLabels
<1>. QED
  BY <1>1, <1>4 DEF EndOfProcess, D

(* After the end of a process.                                             *)
LEMMA ProcessFinishedTypes ==
  ASSUME TypesInv, NEW j \in Jobs, OnBackgroundRenderProcessFinished(j)
  PROVE  TypesInv'
<1>1. /\ StartNext(WriterOf[j], <<Frame("stopped", j)>> \o todo)
      /\ rendered' = rendered \/ rendered' = rendered \cup {j}
      /\ UNCHANGED <<engineVars, task, events, userVars, blocking>>
  BY DEF OnBackgroundRenderProcessFinished
<1>2. PipeTypes'
  <2>1. ProcessStep
    BY ProcessFinished DEF ProcessStep
  <2>. QED
    BY <2>1, PipeTypesPreserved DEF TypesInv
<1>3. <<Frame("stopped", j)>> \o todo \in Seq(FrameRecords)
  <2>1. Frame("stopped", j) \in FrameRecords
    BY DEF Frame, FrameRecords, Steps
  <2>. QED
    BY <2>1, Prepended DEF TypesInv, MainTypes
<1>4. WriterOf[j] \in Writers
  OBVIOUS
<1>5. /\ renderQueue' \in Seq(Jobs) /\ activeRenders' \in Seq(Jobs)
      /\ todo' \in Seq(FrameRecords)
  BY <1>1, <1>3, <1>4, NextStartedTypes
<1>6. TasksAreOfWriters' /\ EngineTypes' /\ RequestsInHand'
  BY <1>1, TasksKept, EngineVarsKept
<1>7. MainTypes' /\ EventsAreOfWriters'
  BY <1>1, <1>5, TasksKept DEF TypesInv, MainTypes, EventsAreOfWriters, userVars
<1>. QED
  BY <1>2, <1>6, <1>7 DEF TypesInv

(* After a line of a process, or its connection.                           *)
LEMMA SocketTypes ==
  ASSUME TypesInv, NEW j \in Jobs, OnSocket(j)
  PROVE  TypesInv'
<1>1. /\ SocketStep(j)
      /\ TaskStopped(j) \/ UNCHANGED <<task, renderQueue>>
      /\ UNCHANGED <<activeRenders, engineVars, events, todo, userVars, blocking, rendered>>
  BY DEF OnSocket
<1>2. PipeTypes'
  BY <1>1, PipeTypesPreserved DEF ProcessStep, TypesInv
<1>3. /\ task' \in [Writers -> TaskRecords] /\ TasksAreOfWriters'
      /\ renderQueue' \in Seq(Jobs)
  <2>1. CASE TaskStopped(j)
    BY <2>1, TaskIsStopped
  <2>2. CASE UNCHANGED <<task, renderQueue>>
    BY <2>2, TasksKept DEF TypesInv, MainTypes
  <2>. QED
    BY <1>1, <2>1, <2>2
<1>4. EngineTypes' /\ RequestsInHand'
  BY <1>1, EngineVarsKept
<1>5. MainTypes' /\ EventsAreOfWriters'
  BY <1>1, <1>3 DEF TypesInv, MainTypes, EventsAreOfWriters, userVars
<1>. QED
  BY <1>2, <1>3, <1>4, <1>5 DEF TypesInv

(* After a step of a background process.                                   *)
LEMMA BackgroundTypes ==
  ASSUME TypesInv, NEW j \in Jobs, InBackground(j)
  PROVE  TypesInv'
<1>1. /\ BackgroundStep(j) \/ ChannelStep(j)
      /\ UNCHANGED <<queueVars, engineVars, guiVars, userVars, blocking, rendered>>
  BY DEF InBackground
<1>2. PipeTypes'
  BY <1>1, PipeTypesPreserved DEF ProcessStep, TypesInv
<1>3. /\ EngineTypes' /\ RequestsInHand' /\ TasksAreOfWriters'
      /\ task' \in [Writers -> TaskRecords]
  BY <1>1, EngineVarsKept, TasksKept DEF guiVars
<1>4. MainTypes' /\ EventsAreOfWriters'
  BY <1>1, <1>3 DEF TypesInv, MainTypes, EventsAreOfWriters, userVars, queueVars, guiVars
<1>. QED
  BY <1>2, <1>3, <1>4 DEF TypesInv

(* After a step of blockingMap().                                          *)
LEMMA BlockingTypes ==
  ASSUME TypesInv, NEW j \in Jobs, BlockingRender(j) \/ WaitNotRunning(j)
  PROVE  TypesInv'
<1>1. /\ blocking' \in [Jobs -> BlockingLabels]
      /\ UNCHANGED <<processVars, queueVars, guiVars, userVars, rendered>>
  BY DEF BlockingRender, WaitNotRunning, Set, TypesInv, MainTypes, BlockingLabels
<1>2. EngineTypes' /\ RequestsInHand'
  <2>1. CASE PushRequest(j)
    <3>1. PushEffect(j)
      BY <2>1, RequestPushed DEF TypesInv
    <3>. QED
      BY <3>1 DEF PushEffect
  <2>2. CASE UNCHANGED engineVars
    BY <2>2, EngineVarsKept
  <2>. QED
    BY <2>1, <2>2 DEF BlockingRender, WaitNotRunning
<1>3. PipeTypes' /\ TasksAreOfWriters' /\ task' \in [Writers -> TaskRecords]
  BY <1>1, ProcessesKept, TasksKept DEF guiVars
<1>4. MainTypes' /\ EventsAreOfWriters'
  BY <1>1, <1>3 DEF TypesInv, MainTypes, EventsAreOfWriters, userVars, queueVars, guiVars
<1>. QED
  BY <1>2, <1>3, <1>4 DEF TypesInv

(* After the user changes a setting, or a command line is run.             *)
LEMMA SettingTypes ==
  ASSUME TypesInv, ChangeQueuing \/ BlockingMap
  PROVE  TypesInv'
<1>1. /\ UNCHANGED <<processVars, queueVars, engineVars, guiVars, mode, canceled, rendered>>
      /\ queuing' \in BOOLEAN /\ everUnqueued' \in BOOLEAN /\ asked' \subseteq Jobs
      /\ blocking' \in [Jobs -> BlockingLabels]
  BY DEF ChangeQueuing, BlockingMap, TypesInv, MainTypes, BlockingLabels
<1>2. EngineTypes' /\ RequestsInHand'
  BY <1>1, EngineVarsKept
<1>3. PipeTypes' /\ TasksAreOfWriters' /\ task' \in [Writers -> TaskRecords]
  BY <1>1, ProcessesKept, TasksKept DEF guiVars
<1>4. MainTypes' /\ EventsAreOfWriters'
  BY <1>1, <1>3 DEF TypesInv, MainTypes, EventsAreOfWriters, queueVars, guiVars
<1>. QED
  BY <1>2, <1>3, <1>4 DEF TypesInv

(* The initial state has the types.                                        *)
LEMMA InitTypes == Init => TypesInv
<1> SUFFICES ASSUME Init PROVE TypesInv
  OBVIOUS
<1>1. PipeTypes
  BY EmptySeq DEF Init, ProcessInit, PipeTypes, ProcLabels
<1>2. EngineTypes /\ RequestsInHand
  <2>1. Range(<<>>) = {}
    BY DEF Range
  <2>2. EngineTypes
    BY <2>1, EmptySeq DEF Init, EngineTypes, EngineLabels
  <2>3. RequestsInHand
    BY DEF Init, RequestsInHand, RequestInHand
  <2>. QED
    BY <2>2, <2>3
<1>3. TasksAreOfWriters /\ task \in [Writers -> TaskRecords]
  BY DEF Init, TasksAreOfWriters, TaskIsOf, NoTaskYet, TaskRecords
<1>4. EventsAreOfWriters
  BY DEF Init, EventsAreOfWriters, Range
<1>5. MainTypes
  <2>1. /\ renderQueue \in Seq(Jobs) /\ activeRenders \in Seq(Jobs)
        /\ events \in Seq(EventRecords) /\ todo \in Seq(FrameRecords)
    BY EmptySeq DEF Init
  <2>. QED
    BY <1>3, <2>1 DEF Init, MainTypes, BlockingLabels
<1>. QED
  BY <1>1, <1>2, <1>3, <1>4, <1>5 DEF TypesInv

(* Every step keeps the types: one lemma for each action above.            *)
LEMMA TypesPreserved ==
  ASSUME TypesInv, [Next]_vars
  PROVE  TypesInv'
<1>1. CASE UNCHANGED vars
  <2>1. UNCHANGED <<processVars, queueVars, engineVars, guiVars, userVars, blocking, rendered>>
    BY <1>1 DEF vars
  <2>2. EngineTypes' /\ RequestsInHand'
    BY <2>1, EngineVarsKept
  <2>3. PipeTypes' /\ TasksAreOfWriters' /\ task' \in [Writers -> TaskRecords]
    BY <2>1, ProcessesKept, TasksKept DEF guiVars
  <2>4. MainTypes' /\ EventsAreOfWriters'
    BY <2>1, <2>3 DEF TypesInv, MainTypes, EventsAreOfWriters, queueVars, guiVars, userVars
  <2>. QED
    BY <2>2, <2>3, <2>4 DEF TypesInv
<1>2. CASE UserStep
  <2>1. CASE \E js \in Requests : RequestRender(js)
    BY <2>1, RequestTypes
  <2>2. CASE \E w \in Writers, remove \in BOOLEAN : CancelTask(w, remove)
    BY <2>2, CancelTypes
  <2>3. CASE \E w \in Writers, j \in Jobs : RestartTask(w, j)
    BY <2>3, RestartTypes
  <2>4. CASE ChangeQueuing \/ BlockingMap
    BY <2>4, SettingTypes
  <2>5. \A j, k \in Jobs : <<j>> \in Requests /\ <<j, k>> \in Requests
    BY DEF Requests
  <2>6. CASE \E j \in Jobs : RequestRender(<<j>>)
    BY <2>1, <2>5, <2>6
  <2>7. CASE \E j, k \in Jobs : RequestRender(<<j, k>>)
    BY <2>1, <2>5, <2>7
  <2>. QED
    BY <1>2, <2>2, <2>3, <2>4, <2>6, <2>7 DEF UserStep
<1>3. CASE MainStep
  <2>1. CASE \E j \in Jobs : OnBackgroundRenderProcessFinished(j)
    BY <2>1, ProcessFinishedTypes
  <2>2. CASE \E j \in Jobs : OnSocket(j)
    BY <2>2, SocketTypes
  <2>. QED
    BY <1>3, <2>1, <2>2, StartTypes, SequenceTypes, StopTypes, QueuedRenderFinishedTypes,
       EngineStoppedTypes DEF MainStep
<1>4. CASE Answer
  BY <1>4, AcceptTypes, RefuseTypes DEF Answer
<1>5. CASE \E w \in Writers : EngineStep(w)
  BY <1>5, EngineStepTypes
<1>6. CASE \E j \in Jobs : BlockingStep(j) \/ InBackground(j)
  BY <1>6, BlockingTypes, BackgroundTypes DEF BlockingStep
<1>. QED
  BY <1>1, <1>2, <1>3, <1>4, <1>5, <1>6 DEF Next, Work

(* The invariant above has all that the type invariant of the model says.  *)
LEMMA TypesImplyTypeOK == TypesInv => TypeOK
<1> SUFFICES ASSUME TypesInv PROVE TypeOK
  OBVIOUS
<1>1. ProcessTypeOK
  BY DEF TypesInv, PipeTypes, ProcessTypeOK
<1>2. ASSUME NEW w \in Writers
      PROVE  Range(requests[w]) \cup Range(enqueued[w]) \cup Range(late[w])
                \subseteq {j \in Jobs : WriterOf[j] = w}
  <2>1. RequestInHand(w) /\ Range(requests[w]) \subseteq JobsOf(w) /\ requests[w] \in Seq(Jobs)
    BY DEF TypesInv, EngineTypes, RequestsInHand
  <2>2. Range(<<>>) = {}
    BY DEF Range
  <2>3. requests[w] # <<>> => Range(FirstRequest(w)) \subseteq Range(requests[w])
    <3>1. requests[w] # <<>> => Head(requests[w]) \in Range(requests[w])
      BY <2>1, HeadAndTail
    <3>2. Range(FirstRequest(w)) = {Head(requests[w])}
      BY DEF FirstRequest, Range
    <3>. QED
      BY <3>1, <3>2
  <2>4. Range(enqueued[w]) \subseteq JobsOf(w) /\ Range(late[w]) \subseteq JobsOf(w)
    BY <2>1, <2>2, <2>3 DEF RequestInHand
  <2>. QED
    BY <2>1, <2>4 DEF JobsOf
<1>3. \A i \in DOMAIN todo : todo[i].step \in Steps
  <2>1. todo \in Seq(FrameRecords)
    BY DEF TypesInv, MainTypes
  <2>2. \A i \in DOMAIN todo : todo[i] \in FrameRecords
    BY <2>1, ElementOfSeq, LenProperties
  <2>. QED
    BY <2>2 DEF FrameRecords
<1>. QED
  BY <1>1, <1>2, <1>3
     DEF TypesInv, MainTypes, EngineTypes, TypeOK, TaskRecords, BlockingLabels

(* The queues, the engines, the tasks and the processes of an application  *)
(* are always in a state their code may be in: what a writer was asked to  *)
(* render is for that writer, whatever renders overlap.                    *)
THEOREM QueueTypes == Spec => []TypeOK
<1>1. TypesInv /\ [Next]_vars => TypesInv'
  BY TypesPreserved
<1>. QED
  BY InitTypes, TypesImplyTypeOK, <1>1, PTL DEF Spec

-----------------------------------------------------------------------------
(* The steps of each mode *)

UserChange ==
    \/ \E js \in Requests : RequestRender(js)
    \/ \E w \in Writers, remove \in BOOLEAN : CancelTask(w, remove)
    \/ \E w \in Writers, j \in Jobs : RestartTask(w, j)
    \/ ChangeQueuing
ProcessModeStep ==
    \/ StartRendering \/ StopTask
    \/ \E j \in Jobs : OnBackgroundRenderProcessFinished(j) \/ OnSocket(j) \/ InBackground(j)
GuiModeStep ==
    \/ StartRendering \/ RenderFullSequence \/ StopTask \/ AcceptQuestion \/ RefuseQuestion
    \/ OnQueuedRenderFinished \/ OnRenderEngineStopped \/ \E w \in Writers : EngineStep(w)
BlockingModeStep ==
    \/ BlockingMap \/ ChangeQueuing
    \/ (\E w \in Writers : EngineStep(w)) \/ \E j \in Jobs : BlockingStep(j)

(* Nothing happens to processes that have not been started.                *)
LEMMA NoProcessNoStep ==
  ASSUME NoProcess, NEW j \in Jobs
  PROVE  /\ ~SocketStep(j) /\ ~BackgroundStep(j) /\ ~ChannelStep(j)
         /\ ~OnBackgroundRenderProcessFinished(j)
<1>1. proc[j] = "none" /\ channel[j] = "off" /\ toGui[j] = <<>>
  BY DEF NoProcess
<1>2. ~SocketStep(j) /\ ~OnBackgroundRenderProcessFinished(j)
  BY <1>1 DEF SocketStep, OnDataWrittenToSocket, OnNewConnectionPending, ReadConnection,
              ReadStarted, ReadProgress, OnBackgroundRenderProcessFinished
<1>3. ~ChannelStep(j)
  BY <1>1 DEF ChannelStep, CrashWithoutPipe, ReceiveAbort, ChannelQuits
<1>4. ~BackgroundStep(j)
  BY <1>1 DEF BackgroundStep, ProcessStarts, Announce, EndOfWait, LoadProject,
              RenderingStarts, RenderFrame, RenderingEnds, Exit, AskChannelToQuit,
              TestMustQuit, Crash
<1>. QED
  BY <1>2, <1>3, <1>4

(* No step changes the mode, and each mode has its own steps.              *)
LEMMA StepOfMode ==
  ASSUME TypesInv, ModeInv, Next
  PROVE  /\ mode \in {"Gui", "Process", "Blocking"} /\ mode' = mode
         /\ mode = "Process" => UserChange \/ ProcessModeStep
         /\ mode = "Gui" => (UserChange \/ GuiModeStep) /\ UNCHANGED processVars
         /\ mode = "Blocking" => BlockingModeStep /\ UNCHANGED processVars
<1>1. mode \in {"Gui", "Process", "Blocking"}
  BY DEF TypesInv, MainTypes
<1>2. mode # "Process" => \A j \in Jobs : ~InBackground(j) /\ ~OnSocket(j)
                                           /\ ~OnBackgroundRenderProcessFinished(j)
  BY NoProcessNoStep DEF ModeInv, InBackground, OnSocket
<1>3. mode # "Blocking" => \A j \in Jobs : ~BlockingStep(j)
  BY DEF ModeInv, BlockingStep, BlockingRender, WaitNotRunning
<1>4. UserStep => UserChange \/ BlockingMap
  <2>1. \A j, k \in Jobs : <<j>> \in Requests /\ <<j, k>> \in Requests
    BY DEF Requests
  <2>2. (\E j \in Jobs : RequestRender(<<j>>)) => UserChange
    BY <2>1 DEF UserChange
  <2>3. (\E j, k \in Jobs : RequestRender(<<j, k>>)) => UserChange
    BY <2>1 DEF UserChange
  <2>4. (\/ \E w \in Writers, remove \in BOOLEAN : CancelTask(w, remove)
         \/ \E w \in Writers, j \in Jobs : RestartTask(w, j)
         \/ ChangeQueuing) => UserChange
    BY DEF UserChange
  <2>. QED
    BY <2>2, <2>3, <2>4 DEF UserStep
<1>5. mode # "Blocking" => ~BlockingMap
  BY DEF BlockingMap
<1>6. ASSUME mode = "Process" PROVE UserChange \/ ProcessModeStep
  <2>1. NoEngine /\ TypesInv
    BY <1>6 DEF ModeInv
  <2>2. ~RenderFullSequence /\ ~AcceptQuestion /\ ~RefuseQuestion
    <3>1. todo # <<>> => Head(todo).step \in {"start", "stopped"}
      BY <2>1, CallInProgress DEF NoEngine
    <3>. QED
      BY <3>1 DEF RenderFullSequence, AcceptQuestion, RefuseQuestion, Doing
  <2>3. ~OnQueuedRenderFinished /\ ~OnRenderEngineStopped
    BY <2>1 DEF NoEngine, OnQueuedRenderFinished, OnRenderEngineStopped
  <2>4. ASSUME NEW w \in Writers PROVE ~EngineStep(w)
    <3>1. engine[w] = "idle" /\ requests[w] = <<>> /\ RequestInHand(w)
      BY <2>1 DEF NoEngine, TypesInv, RequestsInHand
    <3>2. enqueued[w] = <<>>
      BY <3>1 DEF RequestInHand
    <3>. QED
      BY <3>1, <3>2 DEF EngineStep, BeginTask, EndTask, ReportFinished,
                        NotifyRenderFinished, PopRequest, ResetAbort
  <2>. QED
    BY <1>3, <1>4, <1>5, <1>6, <2>2, <2>3, <2>4
       DEF Next, Work, MainStep, Answer, ProcessModeStep
<1>7. ASSUME mode = "Gui" PROVE UserChange \/ GuiModeStep
  BY <1>2, <1>3, <1>4, <1>5, <1>7 DEF Next, Work, MainStep, Answer, GuiModeStep
<1>8. ASSUME mode = "Blocking" PROVE BlockingModeStep
  <2>1. NoQueue
    BY <1>8 DEF ModeInv
  <2>2. ~MainStep /\ ~Answer
    BY <1>2, <1>8, <2>1 DEF NoQueue, MainStep, Answer, StartRendering, RenderFullSequence,
       StopTask, OnQueuedRenderFinished, OnRenderEngineStopped, AcceptQuestion,
       RefuseQuestion, Doing
  <2>3. UserChange => ChangeQueuing
    <3>1. \A js \in Requests : ~RequestRender(js)
      BY <1>8 DEF RequestRender
    <3>2. \A w \in Writers : ~Live(w) /\ ~task[w].canceled
      BY <2>1 DEF NoQueue, Live, TypesInv, TasksAreOfWriters, TaskIsOf
    <3>. QED
      BY <3>1, <3>2 DEF UserChange, CancelTask, RestartTask
  <2>. QED
    BY <1>2, <1>4, <1>8, <2>2, <2>3 DEF Next, Work, BlockingModeStep
<1>9. UserChange => mode' = mode /\ (mode # "Process" => UNCHANGED processVars)
  <2>1. ASSUME NEW js \in Requests, RequestRender(js)
        PROVE  mode' = mode /\ (mode # "Process" => UNCHANGED processVars)
    BY <2>1, RenderRequested DEF RequestEffect, CancelEffect
  <2>2. ASSUME NEW w \in Writers, NEW remove \in BOOLEAN, CancelTask(w, remove)
        PROVE  mode' = mode /\ (mode # "Process" => UNCHANGED processVars)
    BY <2>2, CancelTypes DEF CancelTask, CancelEffect
  <2>3. ASSUME NEW w \in Writers, NEW j \in Jobs, RestartTask(w, j)
        PROVE  mode' = mode /\ UNCHANGED processVars
    BY <2>3 DEF RestartTask
  <2>4. ChangeQueuing => mode' = mode /\ UNCHANGED processVars
    BY DEF ChangeQueuing
  <2>. QED
    BY <2>1, <2>2, <2>3, <2>4 DEF UserChange
<1>10. ProcessModeStep => mode' = mode
  BY DEF ProcessModeStep, StartRendering, StopTask, OnBackgroundRenderProcessFinished,
         OnSocket, InBackground, userVars
<1>11. GuiModeStep /\ mode = "Gui" => mode' = mode /\ UNCHANGED processVars
  BY DEF GuiModeStep, StartRendering, RenderFullSequence, StopTask, AcceptQuestion,
         RefuseQuestion, OnQueuedRenderFinished, OnRenderEngineStopped, EngineStep, userVars
<1>12. BlockingModeStep => mode' = mode /\ UNCHANGED processVars
  BY DEF BlockingModeStep, BlockingMap, ChangeQueuing, EngineStep, BlockingStep,
         BlockingRender, WaitNotRunning, userVars
<1>. QED
  BY <1>1, <1>6, <1>7, <1>8, <1>9, <1>10, <1>11, <1>12

(* What the end of a process leaves to do: a call for the next render, and *)
(* one for the task of the render that is over.                            *)
LEMMA NextAfterProcess ==
  ASSUME TypesInv, NEW j \in Jobs, OnBackgroundRenderProcessFinished(j)
  PROVE  LET rest == <<Frame("stopped", j)>> \o todo
         IN /\ rest \in Seq(FrameRecords)
            /\ Range(rest) = {Frame("stopped", j)} \cup Range(todo)
            /\ IsInjective(todo) /\ Frame("stopped", j) \notin Range(todo)
                 => IsInjective(rest)
            /\ \E N \in SUBSET Jobs : NextStarted(WriterOf[j], rest, N)
<1>1. todo \in Seq(FrameRecords) /\ WriterOf[j] \in Writers
  BY DEF TypesInv, MainTypes
<1>2. Frame("stopped", j) \in FrameRecords
  BY DEF Frame, FrameRecords, Steps
<1> DEFINE rest == <<Frame("stopped", j)>> \o todo
<1>3. /\ rest \in Seq(FrameRecords)
      /\ Range(rest) = {Frame("stopped", j)} \cup Range(todo)
      /\ IsInjective(todo) /\ Frame("stopped", j) \notin Range(todo)
           => IsInjective(rest)
  BY <1>1, <1>2, Prepended
<1>4. StartNext(WriterOf[j], rest)
  BY DEF OnBackgroundRenderProcessFinished
<1> HIDE DEF rest
<1>5. \E N \in SUBSET Jobs : NextStarted(WriterOf[j], rest, N)
  BY <1>1, <1>3, <1>4, NextStartedTypes
<1>. QED
  BY <1>3, <1>5 DEF rest

(* The step of a call to start a render.                                   *)
LEMMA StartFrameStep ==
  \A j : Frame("start", j).step = "start" /\ Frame("start", j).job = j
BY DEF Frame

(* What a mode leaves alone stays so.                                      *)
LEMMA ModePreserved ==
  ASSUME TypesInv, ModeInv, [Next]_vars
  PROVE  ModeInv' /\ mode' = mode
<1>1. CASE UNCHANGED vars
  BY <1>1 DEF vars, processVars, pipeVars, queueVars, engineVars, guiVars, userVars,
              ModeInv, NoProcess, NoEngine, NoQueue
<1>2. CASE Next
  <2>1. /\ mode \in {"Gui", "Process", "Blocking"} /\ mode' = mode
        /\ mode = "Process" => UserChange \/ ProcessModeStep
        /\ mode = "Gui" => (UserChange \/ GuiModeStep) /\ UNCHANGED processVars
        /\ mode = "Blocking" => BlockingModeStep /\ UNCHANGED processVars
    BY <1>2, StepOfMode
  <2>2. mode # "Process" => NoProcess'
    BY <2>1 DEF ModeInv, NoProcess, processVars, pipeVars
  <2>3. ASSUME mode # "Blocking" PROVE blocking' = blocking
    <3>1. ASSUME NEW js \in Requests, RequestRender(js) PROVE blocking' = blocking
      BY <3>1, RenderRequested DEF RequestEffect
    <3>2. UserChange => blocking' = blocking
      BY <3>1 DEF UserChange, CancelTask, RestartTask, ChangeQueuing
    <3>3. ProcessModeStep => blocking' = blocking
      BY DEF ProcessModeStep, StartRendering, StopTask, OnBackgroundRenderProcessFinished,
             OnSocket, InBackground
    <3>4. ASSUME NEW w \in Writers, EngineStep(w) PROVE blocking' = blocking
      BY <2>3, <3>4 DEF EngineStep, BeginTask, EndTask, ReportFinished,
                        NotifyRenderFinished, PopRequest, ResetAbort
    <3>5. GuiModeStep => blocking' = blocking
      BY <3>4 DEF GuiModeStep, StartRendering, RenderFullSequence, StopTask,
             AcceptQuestion, RefuseQuestion, OnQueuedRenderFinished, OnRenderEngineStopped
    <3>. QED
      BY <2>1, <2>3, <3>2, <3>3, <3>5
  <2>4. ASSUME mode = "Process" PROVE NoEngine'
    <3>1. NoEngine
      BY <2>4 DEF ModeInv
    <3>2. ASSUME UNCHANGED <<engine, requests, events>>,
                 \A f \in Range(todo') : f.step \in {"start", "stopped"}
          PROVE  NoEngine'
      BY <3>1, <3>2 DEF NoEngine
    <3>3. ASSUME NEW js \in Requests, RequestRender(js) PROVE NoEngine'
      <4>1. UNCHANGED <<engine, requests, events>>
        BY <3>3, RenderRequested DEF RequestEffect
      <4>2. \E B \in SUBSET Jobs : Range(todo') = {Frame("start", j) : j \in B}
        BY <3>3, RenderRequested DEF RequestEffect, Enqueued
      <4>. QED
        BY <3>2, <4>1, <4>2, StartFrameStep
    <3>4. ASSUME NEW w \in Writers, NEW j \in Jobs, RestartTask(w, j) PROVE NoEngine'
      <4>1. UNCHANGED <<engine, requests, events>>
        BY <3>4, RestartTypes DEF RestartEffect, engineVars
      <4>2. \E B \in SUBSET Jobs : Range(todo') = {Frame("start", k) : k \in B}
        BY <3>4, RestartTypes DEF RestartEffect, Enqueued
      <4>. QED
        BY <3>2, <4>1, <4>2, StartFrameStep
    <3>5. UserChange => NoEngine'
      <4>1. ASSUME NEW w \in Writers, NEW remove \in BOOLEAN, CancelTask(w, remove)
            PROVE  NoEngine'
        BY <3>1, <3>2, <4>1 DEF CancelTask, NoEngine
      <4>2. ChangeQueuing => NoEngine'
        BY <3>1, <3>2 DEF ChangeQueuing, engineVars, guiVars, NoEngine
      <4>. QED
        BY <3>3, <3>4, <4>1, <4>2 DEF UserChange
    <3>6. (StartRendering \/ StopTask) => NoEngine'
      <4>1. StartRendering \/ StopTask =>
              /\ UNCHANGED <<engine, requests, events>>
              /\ todo # <<>> /\ todo' = Tail(todo)
        BY <2>4 DEF StartRendering, StopTask, Doing, engineVars
      <4>2. todo # <<>> => Range(Tail(todo)) \subseteq Range(todo)
        BY CallInProgress
      <4>. QED
        BY <3>1, <3>2, <4>1, <4>2 DEF NoEngine
    <3>7. ASSUME NEW j \in Jobs, OnBackgroundRenderProcessFinished(j) PROVE NoEngine'
      <4>1. UNCHANGED <<engine, requests, events>>
        BY <3>7 DEF OnBackgroundRenderProcessFinished, engineVars
      <4>2. \E N \in SUBSET Jobs :
               Range(todo') = {Frame("start", k) : k \in N}
                                \cup ({Frame("stopped", j)} \cup Range(todo))
        BY <3>7, NextAfterProcess DEF NextStarted
      <4>3. Frame("stopped", j).step = "stopped"
        BY DEF Frame
      <4>4. \A f \in Range(todo') : f.step \in {"start", "stopped"}
        BY <3>1, <4>2, <4>3, StartFrameStep DEF NoEngine
      <4>. QED
        BY <3>2, <4>1, <4>4
    <3>8. ASSUME NEW j \in Jobs, OnSocket(j) \/ InBackground(j) PROVE NoEngine'
      BY <3>1, <3>2, <3>8 DEF OnSocket, InBackground, engineVars, guiVars, NoEngine
    <3>. QED
      BY <2>1, <2>4, <3>5, <3>6, <3>7, <3>8 DEF ProcessModeStep
  <2>5. ASSUME mode = "Blocking" PROVE NoQueue'
    <3>1. NoQueue
      BY <2>5 DEF ModeInv
    <3>2. BlockingModeStep
      BY <2>1, <2>5
    <3>3. UNCHANGED <<renderQueue, activeRenders, events, todo, task>>
      BY <2>5, <3>2 DEF BlockingModeStep, BlockingMap, ChangeQueuing, EngineStep, BlockingStep,
         BlockingRender, WaitNotRunning, queueVars, guiVars, BeginTask, EndTask,
         ReportFinished, NotifyRenderFinished, PopRequest, ResetAbort
    <3>4. ASSUME NEW w \in Writers PROVE ~abortRequested'[w]
      <4>1. \/ abortRequested' = abortRequested
            \/ \E v \in Writers : abortRequested' = Set(abortRequested, v, FALSE)
        BY <3>2 DEF BlockingModeStep, BlockingMap, ChangeQueuing, EngineStep, BlockingStep,
           BlockingRender, WaitNotRunning, PushRequest, engineVars, BeginTask, EndTask,
           ReportFinished, NotifyRenderFinished, PopRequest, ResetAbort
      <4>. QED
        BY <3>1, <4>1 DEF NoQueue, Set, TypesInv, EngineTypes
    <3>. QED
      BY <3>1, <3>3, <3>4 DEF NoQueue
  <2>. QED
    BY <2>1, <2>2, <2>3, <2>4, <2>5 DEF ModeInv
<1>. QED
  BY <1>1, <1>2

(* At first, nothing has started.                                          *)
LEMMA InitModes == Init => ModeInv
  BY DEF Init, ProcessInit, ModeInv, NoProcess, NoEngine, NoQueue, NoTaskYet, Range

-----------------------------------------------------------------------------
(* The abort of a canceled process is on its way *)

(* A step of a process leaves the others alone, but for those it kills.    *)
Untouched(j) ==
    /\ proc'[j] \in {proc[j], "dead"}
    /\ channel'[j] = channel[j] /\ toGui'[j] = toGui[j] /\ inputSocket'[j] = inputSocket[j]
    /\ abortSeen'[j] = abortSeen[j] /\ aborts'[j] = aborts[j]
    /\ earlyCancel'[j] = earlyCancel[j]
StepOf(i) ==
    \/ StartProcess(i) \/ CancelProcess(i) \/ SocketStep(i)
    \/ BackgroundStep(i) \/ ChannelStep(i) \/ EndOfProcess(i)
LEMMA OthersUntouched ==
  ASSUME PipeTypes, NEW i \in Jobs, NEW j \in Jobs \ {i}, StepOf(i)
  PROVE  Untouched(j)
<1>1. CASE StartProcess(i) \/ CancelProcess(i) \/ EndOfProcess(i)
  BY <1>1 DEF StartProcess, CancelProcess, EndOfProcess, WriteAbort, ProcessMove, Set,
              ForgetPipes, pipeVars, PipeTypes, Untouched
<1>2. CASE SocketStep(i)
  <2>1. CASE OnDataWrittenToSocket(i)
    BY <2>1 DEF OnDataWrittenToSocket, ReadConnection, ReadStarted, ReadProgress,
                EarlyCancelSent, WriteAbort, Set, PipeTypes, Untouched
  <2>2. CASE OnNewConnectionPending(i)
    BY <2>2 DEF OnNewConnectionPending, Untouched
  <2>. QED
    BY <1>2, <2>1, <2>2 DEF SocketStep
<1>3. CASE BackgroundStep(i)
  <2>1. CASE ProcessStarts(i) \/ EndOfWait(i) \/ LoadProject(i) \/ Exit(i)
    BY <2>1 DEF ProcessStarts, EndOfWait, LoadProject, Exit, ProcessMove, Set, pipeVars,
                PipeTypes, Untouched
  <2>2. CASE AskChannelToQuit(i) \/ TestMustQuit(i) \/ Crash(i)
    BY <2>2 DEF AskChannelToQuit, TestMustQuit, Crash, ProcessMove, Set, pipeVars,
                PipeTypes, Untouched
  <2>3. CASE Announce(i) \/ RenderingStarts(i) \/ RenderFrame(i) \/ RenderingEnds(i)
    BY <2>3 DEF Announce, RenderingStarts, RenderFrame, RenderingEnds, WriteLine,
                ProcessMove, Set, PipeTypes, Untouched
  <2>. QED
    BY <1>3, <2>1, <2>2, <2>3 DEF BackgroundStep
<1>4. CASE ChannelStep(i)
  BY <1>4 DEF ChannelStep, CrashWithoutPipe, ReceiveAbort, ChannelQuits, ProcessMove, Set,
              pipeVars, PipeTypes, Untouched
<1>. QED
  BY <1>1, <1>2, <1>3, <1>4 DEF StepOf

(* A process that is not touched has its lines in order, and its abort.    *)
LEMMA UntouchedIsInOrder ==
  ASSUME NEW j \in Jobs, Untouched(j)
  PROVE  /\ LinesAreInOrder(j) => LinesAreInOrder(j)'
         /\ AbortIsOnItsWay(j) => AbortIsOnItsWay(j)'
  BY DEF Untouched, LinesAreInOrder, AbortIsOnItsWay, Started, BeforeRender

(* The line the GUI reads next, and the others.                            *)
LEMMA LineIsRead ==
  ASSUME PipeTypes, NEW i \in Jobs, toGui[i] # <<>>, toGui' = Set(toGui, i, Tail(toGui[i]))
  PROVE  Started(i) <=> Head(toGui[i]) = "RenderingStarted" \/ Started(i)'
<1>1. toGui[i] \in Seq(Lines)
  BY DEF PipeTypes
<1>2. Range(toGui[i]) = {Head(toGui[i])} \cup Range(Tail(toGui[i]))
  BY <1>1, HeadAndTail
<1>3. toGui'[i] = Tail(toGui[i])
  BY DEF Set, PipeTypes
<1>. QED
  BY <1>2, <1>3 DEF Started

(* A line is written behind the others.                                    *)
LEMMA LineIsWritten ==
  ASSUME PipeTypes, NEW i \in Jobs, NEW line \in Lines, WriteLine(i, line)
  PROVE  /\ toGui'[i] # <<>>
         /\ toGui[i] = <<>> => Head(toGui'[i]) = line
         /\ toGui[i] # <<>> => Head(toGui'[i]) = Head(toGui[i])
         /\ Started(i)' <=> Started(i) \/ line = "RenderingStarted"
<1>1. toGui[i] \in Seq(Lines) /\ toGui'[i] = Append(toGui[i], line)
  BY DEF PipeTypes, WriteLine, Set
<1>2. /\ toGui'[i] # <<>> /\ Range(toGui'[i]) = Range(toGui[i]) \cup {line}
      /\ toGui[i] = <<>> => toGui'[i] = <<line>>
      /\ toGui[i] # <<>> => Head(toGui'[i]) = Head(toGui[i])
  BY <1>1, Appended
<1>3. toGui[i] = <<>> => Head(toGui'[i]) = line
  BY <1>2
<1>. QED
  BY <1>2, <1>3 DEF Started

(* A cancel sends an abort, or has it sent when the render starts.         *)
LEMMA CancelIsSent ==
  ASSUME PipeTypes, NEW i \in Jobs, LinesAreInOrder(i), CancelProcess(i)
  PROVE  LinesAreInOrder(i)' /\ AbortIsOnItsWay(i)'
<1>1. /\ proc'[i] = proc[i] /\ channel'[i] = channel[i] /\ toGui'[i] = toGui[i]
      /\ inputSocket'[i] = inputSocket[i]
  BY DEF CancelProcess
<1>2. inputSocket[i] => aborts'[i] > 0
  BY WriteAbortTypes DEF CancelProcess
<1>3. ~inputSocket[i] => earlyCancel'[i]
  BY DEF CancelProcess, Set, PipeTypes
<1>. QED
  BY <1>1, <1>2, <1>3 DEF LinesAreInOrder, AbortIsOnItsWay, Started, BeforeRender

(* A line that is read keeps the lines in order, and the abort on the way: *)
(* the line that says the render has started sends an early cancel.        *)
LEMMA ReadIsInOrder ==
  ASSUME PipeTypes, NEW i \in Jobs, LinesAreInOrder(i), OnDataWrittenToSocket(i)
  PROVE  LinesAreInOrder(i)' /\ (AbortIsOnItsWay(i) => AbortIsOnItsWay(i)')
<1>1. /\ toGui[i] # <<>> /\ toGui' = Set(toGui, i, Tail(toGui[i]))
      /\ proc' = proc /\ channel' = channel /\ abortSeen' = abortSeen
  BY DEF OnDataWrittenToSocket, ReadConnection, ReadStarted, ReadProgress
<1>2. Started(i) <=> Head(toGui[i]) = "RenderingStarted" \/ Started(i)'
  BY <1>1, LineIsRead
<1>3. proc[i] \notin {"none", "starting", "connect"}
  BY <1>1 DEF LinesAreInOrder
<1>4. CASE ReadConnection(i)
  <2>1. /\ Head(toGui[i]) = "ServerCreated" /\ inputSocket'[i]
        /\ earlyCancel' = earlyCancel /\ aborts' = aborts
    BY <1>4 DEF ReadConnection, Set, PipeTypes
  <2>2. LinesAreInOrder(i)'
    BY <1>1, <1>3, <2>1 DEF LinesAreInOrder
  <2>3. Started(i) => Started(i)'
    BY <1>2, <2>1
  <2>. QED
    BY <1>1, <2>1, <2>2, <2>3 DEF AbortIsOnItsWay
<1>5. CASE ReadStarted(i)
  <2>1. Head(toGui[i]) = "RenderingStarted" /\ inputSocket' = inputSocket
    BY <1>5 DEF ReadStarted
  <2>2. proc[i] \in {"await", "load", "start", "render"} => inputSocket[i]
    BY <2>1 DEF LinesAreInOrder
  <2>3. LinesAreInOrder(i)'
    BY <1>1, <1>3, <2>1, <2>2 DEF LinesAreInOrder
  <2>4. CASE earlyCancel[i]
    <3>1. aborts'[i] > 0
      BY <1>5, <2>4, WriteAbortTypes DEF ReadStarted, EarlyCancelSent
    <3>. QED
      BY <2>3, <3>1 DEF AbortIsOnItsWay
  <2>5. CASE ~earlyCancel[i]
    BY <1>1, <1>5, <2>3, <2>5 DEF ReadStarted, AbortIsOnItsWay
  <2>. QED
    BY <2>4, <2>5
<1>6. CASE ReadProgress(i)
  <2>1. /\ Head(toGui[i]) \in {"FrameRendered", "RenderingFinished"}
        /\ inputSocket' = inputSocket /\ earlyCancel' = earlyCancel /\ aborts' = aborts
    BY <1>6 DEF ReadProgress
  <2>2. proc[i] \in {"await", "load", "start", "render"} => inputSocket[i]
    BY <2>1 DEF LinesAreInOrder
  <2>3. LinesAreInOrder(i)'
    BY <1>1, <1>3, <2>1, <2>2 DEF LinesAreInOrder
  <2>4. Started(i) => Started(i)'
    BY <1>2, <2>1
  <2>. QED
    BY <1>1, <2>1, <2>3, <2>4 DEF AbortIsOnItsWay
<1>. QED
  BY <1>4, <1>5, <1>6 DEF OnDataWrittenToSocket

(* So does each step of the process itself.                                *)
LEMMA BackgroundIsInOrder ==
  ASSUME PipeTypes, NEW i \in Jobs, LinesAreInOrder(i), BackgroundStep(i) \/ ChannelStep(i)
  PROVE  LinesAreInOrder(i)' /\ (AbortIsOnItsWay(i) => AbortIsOnItsWay(i)')
<1>1. CASE ProcessStarts(i) \/ LoadProject(i) \/ Exit(i) \/ TestMustQuit(i) \/ Crash(i)
  BY <1>1 DEF ProcessStarts, LoadProject, Exit, TestMustQuit, Crash, ProcessMove, Set,
              pipeVars, PipeTypes, LinesAreInOrder, AbortIsOnItsWay, Started, BeforeRender
<1>2. CASE EndOfWait(i)
  BY <1>2 DEF EndOfWait, ProcessMove, Set, PipeTypes, LinesAreInOrder, AbortIsOnItsWay,
              Started, BeforeRender
<1>3. CASE AskChannelToQuit(i)
  BY <1>3 DEF AskChannelToQuit, ProcessMove, Set, PipeTypes, LinesAreInOrder,
              AbortIsOnItsWay, Started, BeforeRender
<1>4. CASE Announce(i)
  <2>1. /\ proc[i] = "connect" /\ WriteLine(i, "ServerCreated") /\ proc'[i] = "await"
        /\ UNCHANGED <<channel, abortSeen, inputSocket, earlyCancel, aborts>>
    BY <1>4 DEF Announce, ProcessMove, Set, PipeTypes
  <2>2. toGui'[i] # <<>> /\ Head(toGui'[i]) = "ServerCreated"
    BY <2>1, LineIsWritten DEF Lines, LinesAreInOrder
  <2>. QED
    BY <2>1, <2>2 DEF LinesAreInOrder, AbortIsOnItsWay, BeforeRender
<1>5. CASE RenderingStarts(i)
  <2>1. /\ proc[i] = "start" /\ WriteLine(i, "RenderingStarted") /\ proc'[i] = "render"
        /\ UNCHANGED <<channel, abortSeen, inputSocket, earlyCancel, aborts>>
    BY <1>5 DEF RenderingStarts, ProcessMove, Set, PipeTypes
  <2>2. /\ Started(i)' /\ toGui'[i] # <<>>
        /\ toGui[i] # <<>> => Head(toGui'[i]) = Head(toGui[i])
    BY <2>1, LineIsWritten DEF Lines
  <2>. QED
    BY <2>1, <2>2 DEF LinesAreInOrder, AbortIsOnItsWay, BeforeRender
<1>6. CASE RenderFrame(i)
  <2>1. /\ WriteLine(i, "FrameRendered") /\ proc[i] = "render"
        /\ UNCHANGED <<proc, channel, abortSeen, inputSocket, earlyCancel, aborts>>
    BY <1>6 DEF RenderFrame
  <2>2. /\ Started(i)' <=> Started(i)
        /\ toGui'[i] # <<>>
        /\ toGui[i] # <<>> => Head(toGui'[i]) = Head(toGui[i])
    BY <2>1, LineIsWritten DEF Lines
  <2>. QED
    BY <2>1, <2>2 DEF LinesAreInOrder, AbortIsOnItsWay, BeforeRender
<1>7. CASE RenderingEnds(i)
  BY <1>7 DEF RenderingEnds, ProcessMove, Set, PipeTypes, LinesAreInOrder,
              AbortIsOnItsWay, BeforeRender
<1>8. CASE CrashWithoutPipe(i)
  BY <1>8 DEF CrashWithoutPipe, ProcessMove, Set, pipeVars, PipeTypes, LinesAreInOrder,
              AbortIsOnItsWay, BeforeRender
<1>9. CASE ReceiveAbort(i)
  BY <1>9 DEF ReceiveAbort, Set, PipeTypes, LinesAreInOrder, AbortIsOnItsWay, Started
<1>10. CASE ChannelQuits(i)
  BY <1>10 DEF ChannelQuits, Set, PipeTypes, LinesAreInOrder, AbortIsOnItsWay, Started
<1>. QED
  BY <1>1, <1>2, <1>3, <1>4, <1>5, <1>6, <1>7, <1>8, <1>9, <1>10
     DEF BackgroundStep, ChannelStep

(* And so does every step.                                                 *)
LEMMA StepIsInOrder ==
  ASSUME PipeTypes, NEW i \in Jobs, LinesAreInOrder(i), StepOf(i)
  PROVE  LinesAreInOrder(i)' /\ (AbortIsOnItsWay(i) => AbortIsOnItsWay(i)')
<1>1. CASE StartProcess(i)
  BY <1>1 DEF StartProcess, ProcessMove, Set, pipeVars, PipeTypes,
              LinesAreInOrder, AbortIsOnItsWay, Started, BeforeRender
<1>2. CASE OnNewConnectionPending(i)
  BY <1>2 DEF OnNewConnectionPending, LinesAreInOrder, AbortIsOnItsWay, Started
<1>3. CASE EndOfProcess(i)
  <2>1. proc'[i] \in {"over", "crashed", "dead"}
    BY <1>3 DEF EndOfProcess
  <2>. QED
    BY <2>1 DEF LinesAreInOrder, AbortIsOnItsWay, BeforeRender
<1>. QED
  BY <1>1, <1>2, <1>3, CancelIsSent, ReadIsInOrder, BackgroundIsInOrder
     DEF StepOf, SocketStep

(* Where one process takes a step, all stay in order.                      *)
LEMMA ProcessesInOrder ==
  ASSUME PipeTypes, LinesInv, ProcessStep
  PROVE  /\ LinesInv'
         /\ \A j \in Jobs : AbortIsOnItsWay(j) => AbortIsOnItsWay(j)'
         /\ \A j \in Jobs : CancelProcess(j) => AbortIsOnItsWay(j)'
<1>1. CASE UNCHANGED processVars
  <2>1. \A j \in Jobs : Untouched(j)
    BY <1>1 DEF Untouched, processVars, pipeVars
  <2>. QED
    BY <2>1, UntouchedIsInOrder, CancelIsSent DEF LinesInv
<1>2. CASE \E i \in Jobs : StepOf(i)
  <2> PICK i \in Jobs : StepOf(i)
    BY <1>2
  <2>1. ASSUME NEW j \in Jobs
        PROVE  LinesAreInOrder(j)' /\ (AbortIsOnItsWay(j) => AbortIsOnItsWay(j)')
    <3>1. CASE j = i
      BY <3>1, StepIsInOrder DEF LinesInv
    <3>2. CASE j # i
      BY <3>2, OthersUntouched, UntouchedIsInOrder DEF LinesInv
    <3>. QED
      BY <3>1, <3>2
  <2>. QED
    BY <2>1, CancelIsSent DEF LinesInv
<1>. QED
  BY <1>1, <1>2 DEF ProcessStep, StepOf

(* When processes render, who is canceled by a step has its process told.  *)
LEMMA CancelGoesToProcess ==
  ASSUME TypesInv, ModeInv, [Next]_vars
  PROVE  /\ ProcessStep
         /\ mode = "Process" => \A j \in canceled' \ canceled : CancelProcess(j)
<1>1. CASE UNCHANGED vars
  BY <1>1 DEF vars, userVars, ProcessStep
<1>2. CASE Next
  <2>1. /\ mode = "Process" => UserChange \/ ProcessModeStep
        /\ mode # "Process" => UNCHANGED processVars
    BY <1>2, StepOfMode
  <2>2. ASSUME mode = "Process", NEW ws, CancelEffect(ws), \A v, w \in LiveOf(ws) : v = w
        PROVE  ProcessStep /\ \A j \in canceled' \ canceled : CancelProcess(j)
    <3>1. ProcessStep
      BY <2>2, CancelIsProcessStep
    <3>2. ASSUME NEW j \in canceled' \ canceled PROVE CancelProcess(j)
      <4>1. PICK w \in LiveOf(ws) : j = task[w].job
        BY <2>2 DEF CancelEffect
      <4>2. PICK v \in LiveOf(ws) : CancelProcess(task[v].job)
        BY <2>2, <4>1 DEF CancelEffect
      <4>3. v = w
        BY <2>2
      <4>. QED
        BY <4>1, <4>2, <4>3
    <3>. QED
      BY <3>1, <3>2
  <2>3. ASSUME mode = "Process", NEW js \in Requests, RequestRender(js)
        PROVE  ProcessStep /\ \A j \in canceled' \ canceled : CancelProcess(j)
    <3>1. CancelEffect(WritersOf(js)) /\ \A v, w \in LiveOf(WritersOf(js)) : v = w
      BY <2>3, RenderRequested DEF RequestEffect
    <3>. QED
      BY <2>2, <2>3, <3>1
  <2>4. ASSUME mode = "Process", NEW w \in Writers, NEW remove \in BOOLEAN,
               CancelTask(w, remove)
        PROVE  ProcessStep /\ \A j \in canceled' \ canceled : CancelProcess(j)
    <3>1. CancelEffect({w})
      BY <2>4, CancelTypes
    <3>2. \A u, v \in LiveOf({w}) : u = v
      BY DEF LiveOf
    <3>. QED
      BY <2>2, <2>4, <3>1, <3>2
  <2>5. ASSUME NEW w \in Writers, NEW j \in Jobs, RestartTask(w, j)
        PROVE  ProcessStep /\ canceled' = canceled
    BY <2>5 DEF RestartTask, ProcessStep
  <2>6. ChangeQueuing => ProcessStep /\ canceled' = canceled
    BY DEF ChangeQueuing, ProcessStep
  <2>7. StopTask => ProcessStep /\ canceled' = canceled
    BY DEF StopTask, ProcessStep, userVars
  <2>8. mode = "Process" /\ StartRendering => ProcessStep /\ canceled' = canceled
    <3>1. StartRendering => todo # <<>> /\ canceled' = canceled
      BY DEF StartRendering, Doing, userVars
    <3>2. StartRendering => Job \in Jobs
      BY <3>1, CallInProgress
    <3>3. mode = "Process" /\ StartRendering => StartProcess(Job)
      BY DEF StartRendering
    <3>. QED
      BY <3>1, <3>2, <3>3 DEF ProcessStep
  <2>9. ASSUME NEW j \in Jobs, OnBackgroundRenderProcessFinished(j)
        PROVE  ProcessStep /\ canceled' = canceled
    <3>1. EndOfProcess(j)
      BY <2>9, ProcessFinished
    <3>. QED
      BY <2>9, <3>1 DEF OnBackgroundRenderProcessFinished, ProcessStep, userVars
  <2>10. ASSUME NEW j \in Jobs, OnSocket(j) \/ InBackground(j)
         PROVE  ProcessStep /\ canceled' = canceled
    BY <2>10 DEF OnSocket, InBackground, ProcessStep, userVars
  <2>11. CASE mode = "Process"
    BY <2>1, <2>3, <2>4, <2>5, <2>6, <2>7, <2>8, <2>9, <2>10, <2>11
       DEF UserChange, ProcessModeStep
  <2>12. CASE mode # "Process"
    BY <2>1, <2>12 DEF ProcessStep
  <2>. QED
    BY <2>11, <2>12
<1>. QED
  BY <1>1, <1>2

(* A process that renders what the user canceled has the abort, or gets    *)
(* it, unless its channel took one before there was a render to quit.      *)
THEOREM CancelsArrive == Spec => []CancelIsOnItsWay
<1> DEFINE Inv == TypesInv /\ ModeInv /\ LinesInv /\ CancelInv
<1>1. Init => Inv
  <2>1. Init => LinesInv /\ CancelInv
    BY DEF Init, ProcessInit, LinesInv, LinesAreInOrder, CancelInv
  <2>. QED
    BY <2>1, InitTypes, InitModes
<1>2. Inv /\ [Next]_vars => Inv'
  <2> SUFFICES ASSUME Inv, [Next]_vars PROVE Inv'
    OBVIOUS
  <2>1. TypesInv' /\ ModeInv' /\ mode' = mode
    BY TypesPreserved, ModePreserved
  <2>2. /\ ProcessStep
        /\ mode = "Process" => \A j \in canceled' \ canceled : CancelProcess(j)
    BY CancelGoesToProcess
  <2>3. PipeTypes /\ canceled' \subseteq Jobs
    BY <2>1 DEF TypesInv, MainTypes
  <2>4. /\ LinesInv'
        /\ \A j \in Jobs : AbortIsOnItsWay(j) => AbortIsOnItsWay(j)'
        /\ \A j \in Jobs : CancelProcess(j) => AbortIsOnItsWay(j)'
    BY <2>2, <2>3, ProcessesInOrder
  <2>5. CancelInv'
    <3>1. ASSUME mode = "Process", NEW j \in canceled' PROVE AbortIsOnItsWay(j)'
      <4>1. CASE j \in canceled
        BY <2>3, <2>4, <3>1, <4>1 DEF CancelInv
      <4>2. CASE j \notin canceled
        BY <2>2, <2>3, <2>4, <3>1, <4>2
      <4>. QED
        BY <4>1, <4>2
    <3>. QED
      BY <2>1, <3>1 DEF CancelInv
  <2>. QED
    BY <2>1, <2>4, <2>5
<1>3. Inv => CancelIsOnItsWay
  <2> SUFFICES ASSUME Inv, NEW j \in canceled, proc[j] \in {"start", "render"}
               PROVE  \/ abortSeen[j] \/ aborts[j] > 0
                      \/ earlyCancel[j] /\ (proc[j] = "start"
                                             \/ "RenderingStarted" \in Range(toGui[j]))
                      \/ channel[j] = "over"
    BY DEF CancelIsOnItsWay
  <2>1. j \in Jobs
    BY DEF TypesInv, MainTypes
  <2>2. mode = "Process"
    BY <2>1 DEF ModeInv, NoProcess
  <2>. QED
    BY <2>2 DEF CancelInv, AbortIsOnItsWay, BeforeRender, Started
<1>. QED
  BY <1>1, <1>2, <1>3, PTL DEF Spec

-----------------------------------------------------------------------------
(* Where the jobs go *)

(* What the queues say of the step of a task that is told of an end: when  *)
(* nothing waits of its writer, nothing is taken out of the queue.         *)
LEMMA NothingTaken ==
  ASSUME TypesInv, PlacesInv, TasksInv, NEW j \in Jobs, TaskStopped(j),
         \A k \in Queued : WriterOf[k] # WriterOf[j]
  PROVE  /\ IsInjective(renderQueue') /\ Queued' = Queued
         /\ \A k \in Queued : Live(WriterOf[k])'
         /\ \A k \in Jobs : OfTask(k) => OfTask(k)'
<1>1. /\ renderQueue \in Seq(Jobs) /\ IsInjective(renderQueue) /\ OnePerWriter(Queued)
      /\ Queued \subseteq Jobs
  <2>1. renderQueue \in Seq(Jobs)
    BY DEF TypesInv, MainTypes
  <2>2. \A i \in DOMAIN renderQueue : renderQueue[i] \in Jobs
    BY <2>1, ElementOfSeq, LenProperties
  <2>. QED
    BY <2>1, <2>2 DEF PlacesInv, Queued, Range
<1>2. /\ renderQueue' = WithoutFirstOf(renderQueue, StoppedTasks(j))
      /\ \A w \in Writers : /\ task'[w].jobs = task[w].jobs /\ task'[w].job = task[w].job
                            /\ w \notin StoppedTasks(j) => task'[w] = task[w]
      /\ \A w \in StoppedTasks(j) : j \in JobsOf(w)
  BY TaskIsStopped
<1>3. \A k \in Queued : WriterOf[k] \notin StoppedTasks(j) /\ WriterOf[k] \in Writers
  BY <1>1, <1>2 DEF JobsOf
<1>4. IsInjective(renderQueue') /\ Queued' = Queued
  <2> DEFINE ws == StoppedTasks(j)
             q == WithoutFirstOf(renderQueue, ws)
  <2>1. IsInjective(q) /\ Range(q) = {k \in Range(renderQueue) : WriterOf[k] \notin ws}
    <3> HIDE DEF ws
    <3>. QED
      BY <1>1, FirstsRemoved DEF Queued
  <2>2. renderQueue' = q /\ \A k \in Queued : WriterOf[k] \notin ws
    BY <1>2, <1>3
  <2> HIDE DEF q, ws
  <2>. QED
    BY <2>1, <2>2 DEF Queued
<1>5. \A k \in Queued : Live(WriterOf[k])'
  BY <1>2, <1>3 DEF TasksInv, Live
<1>6. \A k \in Jobs : OfTask(k) => OfTask(k)'
  BY <1>2 DEF OfTask
<1>. QED
  BY <1>4, <1>5, <1>6

(* The jobs of the lists and of the calls.                                 *)
LEMMA PlacesAreOfJobs ==
  ASSUME TypesInv
  PROVE  /\ Queued \subseteq Jobs /\ Active \subseteq Jobs
         /\ Range(todo) \subseteq FrameRecords
         /\ \A f \in Range(todo) : f.job \in Jobs /\ f.step \in Steps
         /\ Range(events) \subseteq EventRecords
         /\ activeRenders # <<>> <=> Active # {}
<1>1. /\ renderQueue \in Seq(Jobs) /\ activeRenders \in Seq(Jobs)
      /\ todo \in Seq(FrameRecords) /\ events \in Seq(EventRecords)
  BY DEF TypesInv, MainTypes
<1>2. \A i \in DOMAIN renderQueue : renderQueue[i] \in Jobs
  BY <1>1, ElementOfSeq, LenProperties
<1>3. \A i \in DOMAIN activeRenders : activeRenders[i] \in Jobs
  BY <1>1, ElementOfSeq, LenProperties
<1>4. \A i \in DOMAIN todo : todo[i] \in FrameRecords
  BY <1>1, ElementOfSeq, LenProperties
<1>5. \A i \in DOMAIN events : events[i] \in EventRecords
  BY <1>1, ElementOfSeq, LenProperties
<1>6. activeRenders # <<>> <=> Active # {}
  <2>1. ASSUME activeRenders # <<>> PROVE Active # {}
    <3>1. Active = {Head(activeRenders)} \cup Range(Tail(activeRenders))
      BY <1>1, <2>1, HeadAndTail, Zenon DEF Active
    <3>. QED
      BY <3>1
  <2>2. activeRenders = <<>> => Active = {}
    BY DEF Active, Range
  <2>. QED
    BY <2>1, <2>2
<1>7. \A f \in Range(todo) : f \in FrameRecords
  BY <1>4 DEF Range
<1>. QED
  BY <1>2, <1>3, <1>5, <1>6, <1>7 DEF Queued, Active, Range, FrameRecords

(* What is left of the calls when j is no longer active.                   *)
LeftOfCalls(rest, j) ==
    /\ IsInjective(rest)
    /\ \A f, g \in Range(rest) : WriterOf[f.job] = WriterOf[g.job] => f = g
    /\ \A f \in Range(rest) :
          /\ f.step \in {"start", "stopped"} => Apart(Queued \cup (Active \ {j}), {f.job})
          /\ f.step \in InWork => f.job \in Active \ {j}
          /\ f.step # "stopped" => f \in Range(todo)

(* A render that is over leaves its place to the first that waits.         *)
LEMMA RenderIsOver ==
  ASSUME TypesInv, PlacesInv, TasksInv, QuietInv, CountInv,
         NEW j \in Active, NEW rest \in Seq(FrameRecords), LeftOfCalls(rest, j),
         StartNext(WriterOf[j], rest),
         UNCHANGED <<task, queuing, everUnqueued, engine, requests>>,
         \A e \in Range(events') : e \in Range(events)
  PROVE  /\ PlacesInv' /\ TasksInv' /\ QuietInv' /\ CountInv'
         /\ Active' = Active \ {j}
         /\ \A f \in Range(todo') : f \in Range(rest) \/ f.step = "start"
         /\ Range(rest) \subseteq Range(todo')
         /\ Queued \subseteq Queued' \cup {f.job : f \in Range(todo')}
<1> DEFINE w == WriterOf[j]
<1>1. /\ Queued \subseteq Jobs /\ Active \subseteq Jobs
      /\ activeRenders \in Seq(Jobs) /\ renderQueue \in Seq(Jobs)
  BY PlacesAreOfJobs DEF TypesInv, MainTypes
<1>2. w \in Writers /\ j \in Jobs
  BY <1>1
<1>3. PICK N \in SUBSET Jobs : NextStarted(w, rest, N)
  BY <1>2, NextStartedTypes
<1>4. /\ activeRenders' = WithoutFirstOf(activeRenders, {w})
      /\ Queued = N \cup Queued' /\ N \cap Queued' = {} /\ \A k, l \in N : k = l
      /\ IsInjective(renderQueue')
      /\ Range(todo') = {Frame("start", k) : k \in N} \cup Range(rest)
      /\ (\A k \in N : Frame("start", k) \notin Range(rest)) => IsInjective(todo')
  BY <1>3 DEF NextStarted, ActiveWithout, PlacesInv, LeftOfCalls
<1>5. IsInjective(activeRenders') /\ Active' = Active \ {j}
  <2>1. IsInjective(activeRenders) /\ OnePerWriter(Active)
    BY DEF PlacesInv
  <2>2. /\ IsInjective(activeRenders')
        /\ Active' = {k \in Active : WriterOf[k] \notin {w}}
    BY <1>1, <1>4, <2>1, FirstsRemoved DEF Active
  <2>3. \A k \in Active : WriterOf[k] = w => k = j
    BY <2>1 DEF OnePerWriter
  <2>. QED
    BY <2>2, <2>3
<1>6. \A f \in Range(todo') : \/ f \in Range(rest)
                              \/ \E k \in N : f = Frame("start", k)
  BY <1>4
<1>7. \A k \in N : /\ Frame("start", k).step = "start" /\ Frame("start", k).job = k
                   /\ k \in Queued /\ k \in Jobs
  BY <1>4 DEF Frame
<1>8. ASSUME NEW k \in N
      PROVE  /\ Apart(Queued' \cup Active', {k})
             /\ \A f \in Range(rest) : WriterOf[f.job] # WriterOf[k]
  <2>1. Apart(Queued', {k})
    BY <1>4, <1>7 DEF PlacesInv, OnePerWriter, Apart
  <2>2. \A a \in Active : WriterOf[a] # WriterOf[k]
    BY <1>7 DEF PlacesInv, Apart
  <2>3. ASSUME NEW f \in Range(rest) PROVE WriterOf[f.job] # WriterOf[k]
    <3>1. CASE f.step \in {"start", "stopped"}
      BY <1>7, <3>1 DEF LeftOfCalls, Apart
    <3>2. CASE f.step \in InWork
      BY <2>2, <3>2 DEF LeftOfCalls
    <3>3. f.step \in Steps
      <4>1. f \in FrameRecords
        BY HeadAndTail, ElementOfSeq, LenProperties DEF Range
      <4>. QED
        BY <4>1 DEF FrameRecords
    <3>. QED
      BY <3>1, <3>2, <3>3 DEF Steps, InWork
  <2>. QED
    BY <1>5, <2>1, <2>2, <2>3 DEF Apart
<1>9. IsInjective(todo')
  BY <1>4, <1>7, <1>8
<1>10. PlacesInv'
  <2>1. OnePerWriter(Queued)' /\ OnePerWriter(Active)' /\ Apart(Queued, Active)'
    BY <1>4, <1>5 DEF PlacesInv, OnePerWriter, Apart
  <2>2. ASSUME NEW f \in Range(todo'), NEW g \in Range(todo'),
               WriterOf[f.job] = WriterOf[g.job]
        PROVE  f = g
    <3>1. CASE f \in Range(rest) /\ g \in Range(rest)
      BY <2>2, <3>1 DEF LeftOfCalls
    <3>2. CASE f \in Range(rest) /\ \E k \in N : g = Frame("start", k)
      <4>1. PICK k \in N : g = Frame("start", k)
        BY <3>2
      <4>2. g.job = k
        BY <1>7, <4>1
      <4>. QED
        BY <1>8, <2>2, <3>2, <4>2
    <3>3. CASE g \in Range(rest) /\ \E k \in N : f = Frame("start", k)
      <4>1. PICK k \in N : f = Frame("start", k)
        BY <3>3
      <4>2. f.job = k
        BY <1>7, <4>1
      <4>. QED
        BY <1>8, <2>2, <3>3, <4>2
    <3>4. CASE (\E k \in N : f = Frame("start", k)) /\ (\E k \in N : g = Frame("start", k))
      BY <1>4, <3>4
    <3>. QED
      BY <1>6, <3>1, <3>2, <3>3, <3>4
  <2>3. ASSUME NEW f \in Range(todo')
        PROVE  /\ f.step \in {"start", "stopped"} => Apart(Queued' \cup Active', {f.job})
               /\ f.step \in InWork => f.job \in Active'
    <3>1. CASE f \in Range(rest)
      BY <1>4, <1>5, <3>1 DEF LeftOfCalls, Apart
    <3>2. CASE \E k \in N : f = Frame("start", k)
      BY <1>7, <1>8, <3>2 DEF InWork
    <3>. QED
      BY <1>6, <3>1, <3>2
  <2>. QED
    BY <1>4, <1>5, <1>9, <2>1, <2>2, <2>3 DEF PlacesInv
<1>11. TasksInv'
  <2>1. \A k : Live(WriterOf[k])' = Live(WriterOf[k]) /\ OfTask(k)' = OfTask(k)
    BY DEF Live, OfTask
  <2>2. ASSUME NEW f \in Range(todo'), f.step = "start" PROVE OfTask(f.job)
    <3>1. CASE f \in Range(rest)
      BY <2>2, <3>1 DEF TasksInv, LeftOfCalls
    <3>2. CASE \E k \in N : f = Frame("start", k)
      BY <1>7, <3>2 DEF TasksInv
    <3>. QED
      BY <1>6, <3>1, <3>2
  <2>. QED
    BY <1>4, <1>5, <2>1, <2>2 DEF TasksInv
<1>12. QuietInv'
  <2>1. \A v : Quiet(v) => Quiet(v)'
    BY DEF Quiet, NoEvent
  <2>2. ASSUME NEW f \in Range(todo'), f.step # "stopped" PROVE Quiet(WriterOf[f.job])
    <3>1. CASE f \in Range(rest)
      BY <2>2, <3>1 DEF QuietInv, LeftOfCalls
    <3>2. CASE \E k \in N : f = Frame("start", k)
      BY <1>7, <3>2 DEF QuietInv
    <3>. QED
      BY <1>6, <3>1, <3>2
  <2>. QED
    BY <1>4, <2>1, <2>2 DEF QuietInv
<1>13. CountInv'
  <2> SUFFICES ASSUME ~everUnqueued
               PROVE  /\ queuing
                      /\ \A k, l \in Active' : k = l
                      /\ \A f, g \in Range(todo') :
                            f.step = "start" /\ g.step = "start" => f = g
                      /\ \A f \in Range(todo') : f.step = "start" => Active' = {}
    BY DEF CountInv
  <2>1. queuing /\ \A k \in Active : k = j
    BY DEF CountInv
  <2>2. Active' = {}
    BY <1>5, <2>1
  <2>3. \A f \in Range(rest) : f.step # "start"
    BY <2>1 DEF CountInv, LeftOfCalls
  <2>. QED
    BY <1>4, <1>6, <2>1, <2>2, <2>3
<1>14. Queued \subseteq Queued' \cup {f.job : f \in Range(todo')}
  BY <1>4, <1>7
<1>15. \A f \in Range(todo') : f \in Range(rest) \/ f.step = "start"
  BY <1>6, <1>7
<1>. QED
  BY <1>4, <1>5, <1>10, <1>11, <1>12, <1>13, <1>14, <1>15

(* A writer that is not busy has nothing active, and its engine is quiet.  *)
LEMMA NotBusy ==
  ASSUME NEW w, ~Busy(w)
  PROVE  Quiet(w) /\ \A k \in Active : WriterOf[k] # w
<1>1. /\ w \notin {WriterOf[j] : j \in Range(activeRenders)}
      /\ engine[w] = "idle" /\ requests[w] = <<>>
      /\ w \notin {events[i].writer : i \in DOMAIN events}
  BY DEF Busy
<1>2. NoEvent(w)
  BY <1>1 DEF NoEvent, Range
<1>. QED
  BY <1>1, <1>2 DEF Quiet, Active

(* What a click does to the processes: it tells one, which was canceled.   *)
OnlyTold ==
    \A k \in Jobs :
        /\ proc'[k] = proc[k] /\ ended'[k] = ended[k] /\ toGui'[k] = toGui[k]
        /\ abortSeen'[k] = abortSeen[k]
        /\ earlyCancel'[k] \/ aborts'[k] > 0 =>
              earlyCancel[k] \/ aborts[k] > 0 \/ k \in canceled'
LEMMA CancelOnlyTells ==
  ASSUME TypesInv, NEW ws, CancelEffect(ws)
  PROVE  OnlyTold
<1>1. CASE UNCHANGED processVars
  BY <1>1 DEF OnlyTold, processVars, pipeVars
<1>2. CASE ~UNCHANGED processVars
  <2>1. PICK w \in LiveOf(ws) : CancelProcess(task[w].job)
    BY <1>2 DEF CancelEffect
  <2> DEFINE i == task[w].job
  <2>2. i \in Jobs /\ i \in canceled'
    BY DEF CancelEffect, JobsOf
  <2>3. CancelProcess(i) /\ PipeTypes
    BY <2>1 DEF TypesInv
  <2> HIDE DEF i
  <2>4. ASSUME NEW k \in Jobs, k # i
        PROVE  aborts'[k] = aborts[k] /\ earlyCancel'[k] = earlyCancel[k]
    BY <2>2, <2>3, <2>4 DEF CancelProcess, WriteAbort, Set, PipeTypes
  <2>. QED
    BY <2>2, <2>3, <2>4 DEF OnlyTold, CancelProcess
<1>. QED
  BY <1>1, <1>2

(* Where what is known of the processes stays, and the cancels grow.       *)
LEMMA OnlyToldKeeps ==
  ASSUME TypesInv, ProcessInv, OnlyTold, canceled \subseteq canceled', Active \subseteq Active'
  PROVE  ProcessInv'
  BY DEF ProcessInv, OnlyTold

(* Jobs the user asks for find their writers free.                         *)
LEMMA RequestsKeepQueues ==
  ASSUME TypesInv, QueuesInv, todo = <<>>,
         NEW js \in Seq(Jobs), js # <<>>, OnePerWriter(Range(js)),
         \A k \in Range(js) : ~Busy(WriterOf[k]),
         NEW q \in Seq(Jobs), IsInjective(q),
         Range(q) = {k \in Queued : WriterOf[k] \notin WritersOf(js)},
         \E A, B \in SUBSET Jobs : Enqueued(q, js, A, B),
         \A k \in Range(js) : task'[WriterOf[k]].job = k /\ Live(WriterOf[k])',
         \A w \in Writers \ WritersOf(js) : task'[w] = task[w],
         UNCHANGED <<activeRenders, requests, late, engine, current, events, mode,
                     queuing, everUnqueued, rendered>>,
         asked' = asked \cup Range(js), canceled \subseteq canceled',
         \A k \in Queued : WriterOf[k] \in WritersOf(js) => k \in canceled',
         \A w \in Writers : abortRequested'[w] =>
             abortRequested[w] \/ (mode = "Gui" /\ engine[w] # "idle" /\ w \in WritersOf(js)),
         OnlyTold
  PROVE  QueuesInv'
<1> DEFINE ws == WritersOf(js)
<1>1. PICK A \in SUBSET Jobs, B \in SUBSET Jobs : Enqueued(q, js, A, B)
  OBVIOUS
<1>2. /\ A \cup B = Range(js) /\ A \cap B = {} /\ Queued' = Range(q) \cup A
      /\ Range(todo') = {Frame("start", k) : k \in B} /\ IsInjective(todo')
      /\ queuing => /\ \A k, l \in B : k = l
                    /\ activeRenders # <<>> => B = {}
      /\ IsInjective(q) /\ Range(q) \cap Range(js) = {} => IsInjective(renderQueue')
  BY <1>1 DEF Enqueued, Queued
<1>3. /\ Queued \subseteq Jobs /\ Active \subseteq Jobs /\ Active' = Active
      /\ activeRenders # <<>> <=> Active # {}
  BY PlacesAreOfJobs DEF Active
<1>4. \A k \in Range(js) : /\ Quiet(WriterOf[k]) /\ WriterOf[k] \in ws /\ k \in Jobs
                           /\ \A a \in Active : WriterOf[a] # WriterOf[k]
  <2>1. \A k \in Range(js) : Quiet(WriterOf[k]) /\ \A a \in Active : WriterOf[a] # WriterOf[k]
    BY NotBusy
  <2>2. \A k \in Range(js) : WriterOf[k] \in ws /\ k \in Jobs
    BY <1>2 DEF WritersOf
  <2>. QED
    BY <2>1, <2>2
<1>5. \A k \in Range(q) : k \in Queued /\ WriterOf[k] \notin ws
  OBVIOUS
<1>6. \A f \in Range(todo') : f.step = "start" /\ f.job \in B
  BY <1>2, StartFrameStep
<1>7. \A f, g \in Range(todo') : f.job = g.job => f = g
  BY <1>2, StartFrameStep
<1>8. \A w \in Writers : Quiet(w)' <=> Quiet(w)
  BY DEF Quiet, NoEvent
<1>9. \A w \in ws : \E k \in Range(js) : w = WriterOf[k]
  BY DEF WritersOf
<1> HIDE DEF ws
<1>10. Range(q) \cap Range(js) = {}
  BY <1>4, <1>5
<1>11. PlacesInv'
  <2>1. IsInjective(renderQueue') /\ IsInjective(activeRenders') /\ IsInjective(todo')
    BY <1>2, <1>10 DEF QueuesInv, PlacesInv
  <2>2. OnePerWriter(Queued)'
    BY <1>2, <1>4, <1>5 DEF OnePerWriter, QueuesInv, PlacesInv
  <2>3. OnePerWriter(Active)' /\ Apart(Queued, Active)'
    BY <1>2, <1>3, <1>4, <1>5 DEF OnePerWriter, Apart, QueuesInv, PlacesInv
  <2>4. \A f, g \in Range(todo') : WriterOf[f.job] = WriterOf[g.job] => f = g
    BY <1>2, <1>6, <1>7 DEF OnePerWriter
  <2>5. ASSUME NEW f \in Range(todo') PROVE Apart(Queued' \cup Active', {f.job})
    <3>1. f.job \in B /\ f.job \in Range(js) /\ f.job \notin A
      BY <1>2, <1>6
    <3>2. \A k \in Range(q) : WriterOf[k] # WriterOf[f.job]
      BY <1>4, <1>5, <3>1
    <3>3. \A k \in A : WriterOf[k] # WriterOf[f.job]
      BY <1>2, <3>1 DEF OnePerWriter
    <3>. QED
      BY <1>2, <1>3, <1>4, <3>1, <3>2, <3>3 DEF Apart
  <2>6. \A f \in Range(todo') : f.step \notin InWork
    BY <1>6 DEF InWork
  <2>. QED
    BY <2>1, <2>2, <2>3, <2>4, <2>5, <2>6 DEF PlacesInv
<1>12. TasksInv'
  <2>1. \A k \in Range(q) \cup Active : task'[WriterOf[k]] = task[WriterOf[k]]
    <3>1. \A k \in Range(q) \cup Active : WriterOf[k] \in Writers /\ WriterOf[k] \notin ws
      BY <1>3, <1>4, <1>5, <1>9
    <3>. QED
      BY <3>1 DEF ws
  <2>2. \A k \in Range(q) : Live(WriterOf[k])' /\ OfTask(k)'
    BY <1>5, <2>1 DEF QueuesInv, TasksInv, Live, OfTask
  <2>3. \A k \in Active : OfTask(k)'
    BY <2>1 DEF QueuesInv, TasksInv, OfTask
  <2>4. \A k \in Range(js) : Live(WriterOf[k])' /\ OfTask(k)'
    BY DEF OfTask
  <2>. QED
    BY <1>2, <1>3, <1>6, <2>2, <2>3, <2>4 DEF TasksInv
<1>13. QuietInv'
  BY <1>2, <1>3, <1>4, <1>5, <1>6, <1>8 DEF QueuesInv, QuietInv
<1>14. AbortsInv'
  BY DEF QueuesInv, AbortsInv
<1>15. EngineInv'
  <2>1. \A w \in Writers : engine[w] = "render" /\ abortRequested'[w] => abortRequested[w]
    BY <1>4, <1>9 DEF Quiet, ws
  <2>2. \A w \in Writers : NoEvent(w)' <=> NoEvent(w)
    BY DEF NoEvent
  <2>3. \A k : Settled(k) => Settled(k)'
    BY DEF Settled
  <2>. QED
    BY <1>3, <2>1, <2>2, <2>3 DEF QueuesInv, EngineInv
<1>16. EventsInv'
  BY <1>3 DEF QueuesInv, EventsInv, Settled
<1>17. ProcessInv'
  BY <1>3, OnlyToldKeeps DEF QueuesInv
<1>18. CountInv'
  <2> SUFFICES ASSUME ~everUnqueued PROVE CountInv'
    BY DEF CountInv
  <2>1. queuing /\ \A k, l \in Active : k = l
    BY DEF QueuesInv, CountInv
  <2>2. \A f, g \in Range(todo') : f = g
    BY <1>2, <1>6, <1>7, <2>1
  <2>3. \A f \in Range(todo') : Active = {}
    BY <1>2, <1>3, <1>6, <2>1
  <2>. QED
    BY <1>3, <2>1, <2>2, <2>3 DEF CountInv
<1>19. LostInv'
  <2>1. \A f \in Range(todo') : f.step # "stopped"
    BY <1>6
  <2>2. NoRequestLost'
    <3> SUFFICES ASSUME mode # "Blocking", NEW k \in asked', k \notin canceled'
                 PROVE  \/ k \in Queued' \cup Active \cup rendered
                        \/ k \in {todo'[i].job : i \in DOMAIN todo'}
                        \/ k \in {l \in Jobs : proc'[l] = "crashed"}
      BY <1>3 DEF NoRequestLost, Queued, Active
    <3>1. CASE k \in B
      <4>1. Frame("start", k) \in Range(todo') /\ Frame("start", k).job = k
        BY <1>2, <3>1, StartFrameStep
      <4>. QED
        BY <4>1 DEF Range
    <3>2. CASE k \in A
      BY <1>2, <3>2
    <3>3. CASE k \notin Range(js)
      <4>1. k \in asked \ canceled
        BY <3>3
      <4>2. {todo[i].job : i \in DOMAIN todo} = {}
        OBVIOUS
      <4>3. k \in Queued \cup Active \cup rendered \cup {l \in Jobs : proc[l] = "crashed"}
        BY <4>1, <4>2 DEF QueuesInv, LostInv, NoRequestLost, Queued, Active
      <4>4. k \in Queued => k \in Range(q)
        BY DEF ws
      <4>. QED
        BY <1>2, <4>3, <4>4 DEF OnlyTold
    <3>. QED
      BY <1>2, <3>1, <3>2, <3>3
  <2>. QED
    BY <2>1, <2>2 DEF LostInv
<1>. QED
  BY <1>11, <1>12, <1>13, <1>14, <1>15, <1>16, <1>17, <1>18, <1>19 DEF QueuesInv

(* The queues after the user asks for renders.                             *)
LEMMA RequestQueues ==
  ASSUME Overlap = FALSE, TypesInv, QueuesInv, NEW js \in Requests, RequestRender(js)
  PROVE  QueuesInv'
<1> DEFINE ws == WritersOf(js)
           live == LiveOf(ws)
           q == WithoutFirstOf(renderQueue, live)
<1>1. /\ RequestEffect(js) /\ js \in Seq(Jobs) /\ OnePerWriter(Range(js)) /\ js # <<>>
      /\ Cardinality(ws) = Len(js)
  <2>1. RequestEffect(js) /\ js \in Seq(Jobs) /\ OnePerWriter(Range(js))
    BY RenderRequested
  <2>2. Cardinality(ws) = Len(js)
    BY DEF RequestRender, WritersOf
  <2>3. js # <<>>
    BY <2>2, RequestedList
  <2>. QED
    BY <2>1, <2>2, <2>3
<1>2. /\ todo = <<>> /\ \A w \in ws : ~Busy(w)
      /\ asked' = asked \cup Range(js) /\ CancelEffect(ws)
      /\ \A w \in Writers \ ws : task'[w] = task[w]
      /\ \A j \in Range(js) : task'[WriterOf[j]] = NewTask(j)
      /\ \E A, B \in SUBSET Jobs : Enqueued(q, js, A, B)
      /\ UNCHANGED <<activeRenders, requests, late, engine, current, events, mode, queuing,
                     everUnqueued, rendered>>
  BY <1>1 DEF RequestEffect
<1>3. /\ renderQueue \in Seq(Jobs) /\ IsInjective(renderQueue) /\ OnePerWriter(Queued)
      /\ Queued \subseteq Jobs
  BY PlacesAreOfJobs DEF TypesInv, MainTypes, QueuesInv, PlacesInv
<1>4. \A k \in Queued : WriterOf[k] \in live <=> WriterOf[k] \in ws
  BY DEF LiveOf, QueuesInv, TasksInv
<1>5. q \in Seq(Jobs) /\ IsInjective(q) /\ Range(q) = {k \in Queued : WriterOf[k] \notin ws}
  <2>1. /\ q \in Seq(Jobs) /\ IsInjective(q)
        /\ Range(q) = {k \in Range(renderQueue) : WriterOf[k] \notin live}
    <3> HIDE DEF live
    <3>. QED
      BY <1>3, FirstsRemoved DEF Queued
  <2>. QED
    BY <1>4, <2>1 DEF Queued
<1>6. canceled \subseteq canceled' /\ OnlyTold
  BY <1>2, CanceledJobs, CancelOnlyTells
<1>7. \A k \in Queued : WriterOf[k] \in ws => k \in canceled'
  <2>1. \A k \in Queued : OfTask(k) /\ Live(WriterOf[k])
    BY DEF QueuesInv, TasksInv
  <2>2. \A k \in Queued : task[WriterOf[k]].job = k
    BY <2>1 DEF OfTask, Live
  <2>. QED
    BY <1>2, <1>4, <2>2 DEF CancelEffect
<1>8. \A w \in Writers : abortRequested'[w] =>
          abortRequested[w] \/ (mode = "Gui" /\ engine[w] # "idle" /\ w \in ws)
  BY <1>2 DEF CancelEffect, LiveOf
<1>9. \A k \in Range(js) : /\ ~Busy(WriterOf[k])
                           /\ task'[WriterOf[k]].job = k /\ Live(WriterOf[k])'
  <2> SUFFICES ASSUME NEW k \in Range(js)
               PROVE  /\ ~Busy(WriterOf[k])
                      /\ task'[WriterOf[k]].job = k /\ Live(WriterOf[k])'
    OBVIOUS
  <2>1. ~Busy(WriterOf[k])
    BY <1>2 DEF WritersOf
  <2>2. task'[WriterOf[k]] = NewTask(k)
    BY <1>2
  <2>. QED
    BY <2>1, <2>2 DEF NewTask, Live
<1> HIDE DEF q
<1>. QED
  BY <1>1, <1>2, <1>5, <1>6, <1>7, <1>8, <1>9, RequestsKeepQueues

(* After a restart: the task was canceled, so nothing waits of its writer. *)
LEMMA RestartQueues ==
  ASSUME Overlap = FALSE, TypesInv, QueuesInv, NEW w \in Writers, NEW j \in Jobs,
         RestartTask(w, j)
  PROVE  QueuesInv'
<1> DEFINE js == <<j>>
<1>1. RestartEffect(w, j)
  BY RestartTypes
<1>2. /\ js \in Seq(Jobs) /\ js # <<>> /\ Range(js) = {j}
      /\ WritersOf(js) = {w} /\ OnePerWriter(Range(js))
  <2>1. js \in Seq(Jobs) /\ js # <<>> /\ Range(js) = {j}
    BY ShortLists
  <2>2. WriterOf[j] = w
    BY <1>1 DEF RestartEffect
  <2>. QED
    BY <2>1, <2>2 DEF WritersOf, OnePerWriter
<1>3. /\ todo = <<>> /\ task[w].canceled /\ WriterOf[j] = w /\ ~Busy(w)
      /\ asked' = asked \cup {j}
      /\ task'[w] = [jobs |-> task[w].jobs \cup {j}, canceled |-> FALSE, job |-> j]
      /\ \A v \in Writers \ {w} : task'[v] = task[v]
      /\ \E A, B \in SUBSET Jobs : Enqueued(renderQueue, js, A, B)
      /\ UNCHANGED <<processVars, activeRenders, engineVars, events, mode, queuing,
                     canceled, everUnqueued, blocking, rendered>>
  BY <1>1 DEF RestartEffect
<1>4. UNCHANGED <<activeRenders, requests, late, engine, current, events, mode, queuing,
                  everUnqueued, rendered, abortRequested>>
  BY <1>3 DEF engineVars
<1> HIDE DEF js
<1>5. \A k \in Queued : WriterOf[k] # w
  BY <1>3 DEF QueuesInv, TasksInv, Live
<1>6. renderQueue \in Seq(Jobs) /\ IsInjective(renderQueue)
  BY DEF TypesInv, MainTypes, QueuesInv, PlacesInv
<1>7. Range(renderQueue) = {k \in Queued : WriterOf[k] \notin WritersOf(js)}
  BY <1>2, <1>5 DEF Queued
<1>8. OnlyTold
  BY <1>3 DEF OnlyTold, processVars, pipeVars
<1>9. \A k \in Range(js) : /\ ~Busy(WriterOf[k])
                           /\ task'[WriterOf[k]].job = k /\ Live(WriterOf[k])'
  BY <1>2, <1>3 DEF Live
<1>10. \A v \in Writers \ WritersOf(js) : task'[v] = task[v]
  BY <1>2, <1>3
<1>11. asked' = asked \cup Range(js) /\ canceled \subseteq canceled'
  BY <1>2, <1>3
<1>12. \A k \in Queued : WriterOf[k] \in WritersOf(js) => k \in canceled'
  BY <1>2, <1>5
<1>. QED
  BY <1>2, <1>3, <1>4, <1>6, <1>7, <1>8, <1>9, <1>10, <1>11, <1>12, RequestsKeepQueues

(* After a pause or a cancel: what is taken out of the queue is canceled,  *)
(* and the engine aborts what is canceled.                                 *)
LEMMA CancelQueues ==
  ASSUME TypesInv, QueuesInv, NEW w \in Writers, NEW remove \in BOOLEAN,
         CancelTask(w, remove)
  PROVE  QueuesInv'
<1>1. /\ CancelEffect({w}) /\ Live(w)
      /\ task'[w] = NoTaskYet \/ task'[w] = [task[w] EXCEPT !.canceled = TRUE]
      /\ \A v \in Writers \ {w} : task'[v] = task[v]
  BY CancelTypes
<1>2. /\ todo = <<>> /\ renderQueue' = WithoutFirstOf(renderQueue, {w})
      /\ UNCHANGED <<activeRenders, requests, enqueued, late, engine, current, wasAborted,
                     events, todo, mode, queuing, asked, everUnqueued, rendered>>
  BY DEF CancelTask, UserIsFree
<1>3. /\ renderQueue \in Seq(Jobs) /\ IsInjective(renderQueue) /\ OnePerWriter(Queued)
      /\ Queued \subseteq Jobs /\ Active \subseteq Jobs /\ Active' = Active
  BY <1>2, PlacesAreOfJobs DEF TypesInv, MainTypes, QueuesInv, PlacesInv, Active
<1>4. IsInjective(renderQueue') /\ Queued' = {k \in Queued : WriterOf[k] # w}
  <2>1. /\ IsInjective(renderQueue')
        /\ Queued' = {k \in Range(renderQueue) : WriterOf[k] \notin {w}}
    BY <1>2, <1>3, FirstsRemoved DEF Queued
  <2>. QED
    BY <2>1 DEF Queued
<1>5. canceled \subseteq canceled' /\ OnlyTold /\ task[w].job \in canceled'
  <2>1. w \in LiveOf({w})
    BY <1>1 DEF LiveOf
  <2>. QED
    BY <1>1, <2>1, CanceledJobs, CancelOnlyTells DEF CancelEffect
<1>6. Range(todo) = {}
  BY <1>2 DEF Range
<1>7. \A k \in Queued : WriterOf[k] = w => k \in canceled'
  BY <1>1, <1>5 DEF QueuesInv, TasksInv, OfTask, Live
<1>8. \A k \in Active : WriterOf[k] = w => k \in canceled'
  BY <1>1, <1>5 DEF QueuesInv, TasksInv, OfTask, Live
<1>9. PlacesInv'
  BY <1>2, <1>3, <1>4, <1>6 DEF QueuesInv, PlacesInv, OnePerWriter, Apart
<1>10. TasksInv'
  <2>1. \A k \in Queued' : Live(WriterOf[k])' /\ OfTask(k)'
    BY <1>1, <1>3, <1>4 DEF QueuesInv, TasksInv, Live, OfTask
  <2>2. ASSUME NEW k \in Active PROVE OfTask(k)'
    <3>1. OfTask(k) /\ WriterOf[k] \in Writers
      BY <1>3 DEF QueuesInv, TasksInv
    <3>2. CASE WriterOf[k] # w
      BY <1>1, <3>1, <3>2 DEF OfTask
    <3>3. CASE WriterOf[k] = w
      <4>1. task[w] \in TaskRecords
        BY DEF TypesInv, MainTypes
      <4>2. \/ task'[w].jobs = {}
            \/ task'[w].jobs = task[w].jobs /\ task'[w].job = task[w].job
        BY <1>1, <4>1 DEF NoTaskYet, TaskRecords
      <4>. QED
        BY <3>1, <3>3, <4>2 DEF OfTask
    <3>. QED
      BY <3>2, <3>3
  <2>. QED
    BY <1>2, <1>3, <1>6, <2>1, <2>2 DEF TasksInv
<1>11. QuietInv'
  <2>1. \A v : Quiet(v)' <=> Quiet(v)
    BY <1>2 DEF Quiet, NoEvent
  <2>. QED
    BY <1>2, <1>4, <1>6, <2>1 DEF QueuesInv, QuietInv
<1>12. AbortsInv'
  BY <1>1, <1>2 DEF QueuesInv, AbortsInv, CancelEffect
<1>13. EngineInv'
  <2>1. ASSUME NEW v \in Writers, mode = "Gui", engine[v] = "render", abortRequested'[v]
        PROVE  current[v] \in canceled'
    <3>1. CASE abortRequested[v]
      BY <1>5, <2>1, <3>1 DEF QueuesInv, EngineInv
    <3>2. CASE ~abortRequested[v]
      <4>1. v = w
        BY <1>1, <2>1, <3>2 DEF CancelEffect, LiveOf
      <4>2. requests[w] # <<>> /\ current[w] = Head(requests[w])
        BY <2>1, <4>1 DEF TypesInv, RequestsInHand, RequestInHand
      <4>3. current[w] \in Active
        BY <2>1, <4>1, <4>2 DEF QueuesInv, EngineInv
      <4>4. current[w] \in JobsOf(w)
        BY <4>2, HeadAndTail DEF TypesInv, EngineTypes
      <4>. QED
        BY <1>8, <4>1, <4>3, <4>4 DEF JobsOf
    <3>. QED
      BY <3>1, <3>2
  <2>2. \A v : NoEvent(v)' <=> NoEvent(v)
    BY <1>2 DEF NoEvent
  <2>3. \A k : Settled(k) => Settled(k)'
    BY <1>2, <1>5 DEF Settled
  <2>. QED
    BY <1>2, <1>3, <2>1, <2>2, <2>3 DEF QueuesInv, EngineInv
<1>14. EventsInv'
  BY <1>2, <1>3, <1>5 DEF QueuesInv, EventsInv, Settled
<1>15. ProcessInv'
  BY <1>3, <1>5, OnlyToldKeeps DEF QueuesInv
<1>16. CountInv'
  BY <1>2, <1>3 DEF QueuesInv, CountInv
<1>17. LostInv'
  <2>1. \A k \in Queued : k \in Queued' \/ k \in canceled'
    BY <1>4, <1>7
  <2>2. Range(renderQueue) = Queued /\ Range(renderQueue') = Queued'
    BY DEF Queued
  <2>3. \A l \in Jobs : proc'[l] = proc[l]
    BY <1>5 DEF OnlyTold
  <2>4. NoRequestLost'
    BY <1>2, <1>5, <2>1, <2>2, <2>3 DEF QueuesInv, LostInv, NoRequestLost
  <2>. QED
    BY <1>2, <1>6, <2>4 DEF LostInv
<1>. QED
  BY <1>9, <1>10, <1>11, <1>12, <1>13, <1>14, <1>15, <1>16, <1>17 DEF QueuesInv

(* Where the user no longer has renders queued, all that changes is that.  *)
LEMMA UnqueueQueues ==
  ASSUME QueuesInv, ChangeQueuing
  PROVE  QueuesInv'
<1>1. /\ everUnqueued'
      /\ UNCHANGED <<renderQueue, activeRenders, requests, late, engine, current, events,
                     abortRequested, todo, task, mode, asked, canceled, rendered>>
  BY DEF ChangeQueuing, queueVars, engineVars, guiVars
<1>2. OnlyTold /\ proc' = proc
  BY DEF ChangeQueuing, processVars, pipeVars, OnlyTold
<1>3. Queued' = Queued /\ Active' = Active
  BY <1>1 DEF Queued, Active
<1>4. PlacesInv' /\ TasksInv' /\ QuietInv'
  BY <1>1, <1>3 DEF QueuesInv, PlacesInv, TasksInv, QuietInv, Live, OfTask, Quiet, NoEvent
<1>5. AbortsInv' /\ EngineInv' /\ EventsInv'
  BY <1>1, <1>3 DEF QueuesInv, AbortsInv, EngineInv, EventsInv, Settled, NoEvent
<1>6. ProcessInv'
  BY <1>1, <1>2, <1>3 DEF QueuesInv, ProcessInv, OnlyTold
<1>7. CountInv'
  BY <1>1 DEF CountInv
<1>8. LostInv'
  BY <1>1, <1>2 DEF QueuesInv, LostInv, NoRequestLost, Settled
<1>. QED
  BY <1>4, <1>5, <1>6, <1>7, <1>8 DEF QueuesInv

(* No request is lost by a step that leaves each job a place.              *)
HasPlace(k) ==
    \/ k \in Queued \/ k \in Active \/ k \in rendered
    \/ \E f \in Range(todo) : f.job = k
    \/ k \in Jobs /\ proc[k] = "crashed"
LEMMA NothingLost ==
  ASSUME NoRequestLost, mode' = mode, asked' = asked, canceled \subseteq canceled',
         \A k \in asked \ canceled' : HasPlace(k) => HasPlace(k)'
  PROVE  NoRequestLost'
<1> SUFFICES ASSUME mode # "Blocking", NEW k \in asked, k \notin canceled'
             PROVE  k \in Range(renderQueue') \cup Range(activeRenders') \cup rendered'
                            \cup {todo'[i].job : i \in DOMAIN todo'}
                            \cup {j \in Jobs : proc'[j] = "crashed"}
  BY DEF NoRequestLost
<1>1. k \in Range(renderQueue) \cup Range(activeRenders) \cup rendered
              \cup {todo[i].job : i \in DOMAIN todo}
              \cup {j \in Jobs : proc[j] = "crashed"}
  BY DEF NoRequestLost
<1>2. HasPlace(k)
  BY <1>1 DEF HasPlace, Queued, Active, Range
<1>3. HasPlace(k)'
  BY <1>2
<1>. QED
  BY <1>3 DEF HasPlace, Queued, Active, Range

(* The other calls in progress are of other writers.                       *)
LEMMA OtherCalls ==
  ASSUME TypesInv, PlacesInv, todo # <<>>
  PROVE  /\ IsInjective(Tail(todo)) /\ Job \in Jobs /\ Head(todo) \in Range(todo)
         /\ \A g \in Range(Tail(todo)) : /\ g \in Range(todo) /\ g # Head(todo)
                                         /\ WriterOf[g.job] # WriterOf[Job]
         /\ \A f \in Range(todo) : f = Head(todo) \/ f \in Range(Tail(todo))
<1>1. /\ Job \in Jobs /\ Head(todo) \in Range(todo)
      /\ Range(todo) = {Head(todo)} \cup Range(Tail(todo))
      /\ IsInjective(Tail(todo)) /\ Head(todo) \notin Range(Tail(todo))
  BY CallInProgress DEF PlacesInv
<1>2. \A g \in Range(Tail(todo)) : g \in Range(todo) /\ g # Head(todo)
  BY <1>1
<1>3. \A g \in Range(Tail(todo)) : WriterOf[g.job] # WriterOf[Job]
  BY <1>1, <1>2 DEF PlacesInv, Job
<1>. QED
  BY <1>1, <1>2, <1>3

(* A call that goes on with its render, which is active.                   *)
LEMMA CallGoesOn ==
  ASSUME TypesInv, QueuesInv, todo # <<>>, Head(todo).step \in InWork, NEW step \in InWork,
         todo' = <<Frame(step, Job)>> \o Tail(todo),
         UNCHANGED <<processVars, queueVars, engineVars, task, events, userVars, blocking,
                     rendered>>
  PROVE  QueuesInv'
<1> DEFINE f == Frame(step, Job)
<1>1. /\ IsInjective(Tail(todo)) /\ Head(todo) \in Range(todo) /\ Job \in Jobs
      /\ \A g \in Range(Tail(todo)) : /\ g \in Range(todo)
                                      /\ WriterOf[g.job] # WriterOf[Job]
      /\ \A g \in Range(todo) : g = Head(todo) \/ g \in Range(Tail(todo))
  BY OtherCalls DEF QueuesInv
<1>2. f.step = step /\ f.job = Job /\ step \in Steps /\ step \notin {"start", "stopped"}
  BY DEF Frame, InWork, Steps
<1>3. f \notin Range(Tail(todo))
  BY <1>1, <1>2
<1>4. Range(todo') = {f} \cup Range(Tail(todo)) /\ IsInjective(todo')
  BY <1>1, <1>2, <1>3, CallInProgress
<1> HIDE DEF f
<1>5. /\ Queued' = Queued /\ Active' = Active
      /\ \A v : NoEvent(v)' <=> NoEvent(v)
      /\ \A v : Quiet(v)' <=> Quiet(v)
      /\ \A k : (Settled(k)' <=> Settled(k)) /\ (OfTask(k)' <=> OfTask(k))
      /\ \A v : Live(v)' <=> Live(v)
  BY DEF queueVars, engineVars, userVars, Queued, Active, NoEvent, Quiet, Settled, OfTask,
         Live
<1>6. PlacesInv'
  <2>1. Job \in Active
    BY <1>1 DEF QueuesInv, PlacesInv, Job
  <2>2. \A g, h \in Range(todo') : WriterOf[g.job] = WriterOf[h.job] => g = h
    BY <1>1, <1>2, <1>4 DEF QueuesInv, PlacesInv
  <2>3. \A g \in Range(todo') :
          /\ g.step \in {"start", "stopped"} => Apart(Queued \cup Active, {g.job})
          /\ g.step \in InWork => g.job \in Active
    BY <1>1, <1>2, <1>4, <2>1 DEF QueuesInv, PlacesInv
  <2>. QED
    BY <1>4, <1>5, <2>2, <2>3 DEF QueuesInv, PlacesInv, queueVars
<1>7. TasksInv'
  BY <1>1, <1>2, <1>4, <1>5 DEF QueuesInv, TasksInv
<1>8. QuietInv'
  <2>1. Quiet(WriterOf[Job])
    BY <1>1 DEF QueuesInv, QuietInv, InWork, Job
  <2>2. \A g \in Range(todo') : g.step # "stopped" => Quiet(WriterOf[g.job])
    BY <1>1, <1>2, <1>4, <2>1 DEF QueuesInv, QuietInv
  <2>. QED
    BY <1>5, <2>2 DEF QueuesInv, QuietInv
<1>9. AbortsInv' /\ EngineInv' /\ EventsInv'
  BY <1>5 DEF QueuesInv, AbortsInv, EngineInv, EventsInv, engineVars, userVars
<1>10. ProcessInv'
  BY <1>5 DEF QueuesInv, ProcessInv, processVars, pipeVars, userVars
<1>11. CountInv'
  BY <1>1, <1>2, <1>4, <1>5 DEF QueuesInv, CountInv, userVars
<1>12. LostInv'
  <2>1. \A g \in Range(todo) : \E h \in Range(todo') : h.job = g.job
    BY <1>1, <1>2, <1>4 DEF Job
  <2>2. \A k : HasPlace(k) => HasPlace(k)'
    <3>1. rendered' = rendered /\ proc' = proc
      BY DEF processVars
    <3>. QED
      BY <1>5, <2>1, <3>1 DEF HasPlace
  <2>3. mode' = mode /\ asked' = asked /\ canceled' = canceled
    BY DEF userVars
  <2>4. NoRequestLost'
    BY <2>2, <2>3, NothingLost DEF QueuesInv, LostInv
  <2>5. \A g \in Range(todo') : g.step = "stopped" => Settled(g.job) \/ proc[g.job] = "crashed"
    BY <1>1, <1>2, <1>4 DEF QueuesInv, LostInv
  <2>. QED
    BY <1>5, <2>4, <2>5 DEF LostInv, processVars
<1>. QED
  BY <1>6, <1>7, <1>8, <1>9, <1>10, <1>11, <1>12 DEF QueuesInv

(* A call starts a render: its writer has nothing else anywhere.           *)
LEMMA StartQueues ==
  ASSUME TypesInv, QueuesInv, StartRendering
  PROVE  QueuesInv'
<1>1. /\ Doing("start") /\ activeRenders' \in Seq(Jobs) /\ Active' = Active \cup {Job}
      /\ IsInjective(activeRenders) /\ Job \notin Active => IsInjective(activeRenders')
      /\ mode = "Process" => StartProcess(Job) /\ todo' = Tail(todo)
      /\ mode # "Process" => /\ UNCHANGED processVars
                             /\ todo' = <<Frame("render", Job)>> \o Tail(todo)
  BY StartTypes
<1>2. UNCHANGED <<renderQueue, engineVars, task, events, userVars, blocking, rendered>>
  BY DEF StartRendering
<1>3. /\ todo # <<>> /\ Head(todo).step = "start"
  BY <1>1 DEF Doing
<1>4. /\ IsInjective(Tail(todo)) /\ Head(todo) \in Range(todo) /\ Job \in Jobs
      /\ \A g \in Range(Tail(todo)) : /\ g \in Range(todo) /\ g # Head(todo)
                                      /\ WriterOf[g.job] # WriterOf[Job]
      /\ \A g \in Range(todo) : g = Head(todo) \/ g \in Range(Tail(todo))
  BY <1>3, OtherCalls DEF QueuesInv
<1> DEFINE f == Frame("render", Job)
<1>5. f.step = "render" /\ f.job = Job /\ "render" \in Steps
  BY DEF Frame, Steps
<1>6. f \notin Range(Tail(todo))
  BY <1>4, <1>5
<1>7. /\ IsInjective(todo') /\ \A g \in Range(todo') : g = f \/ g \in Range(Tail(todo))
      /\ \A g \in Range(Tail(todo)) : g \in Range(todo')
  <2>1. CASE mode = "Process"
    BY <1>1, <1>4, <2>1
  <2>2. CASE mode # "Process"
    <3>1. Range(todo') = {f} \cup Range(Tail(todo)) /\ IsInjective(todo')
      BY <1>1, <1>3, <1>4, <1>5, <1>6, <2>2, CallInProgress
    <3>. QED
      BY <3>1
  <2>. QED
    BY <2>1, <2>2
<1> HIDE DEF f
<1>8. /\ Apart(Queued \cup Active, {Job}) /\ OfTask(Job) /\ Quiet(WriterOf[Job])
  BY <1>3, <1>4 DEF QueuesInv, PlacesInv, TasksInv, QuietInv, Job
<1>9. \A a \in Queued \cup Active : WriterOf[a] # WriterOf[Job]
  BY <1>8 DEF Apart
<1>10. /\ Queued' = Queued
       /\ \A v : NoEvent(v)' <=> NoEvent(v)
       /\ \A v : Quiet(v)' <=> Quiet(v)
       /\ \A k : (Settled(k)' <=> Settled(k)) /\ (OfTask(k)' <=> OfTask(k))
       /\ \A v : Live(v)' <=> Live(v)
  BY <1>2 DEF engineVars, userVars, Queued, NoEvent, Quiet, Settled, OfTask, Live
<1>11. PlacesInv'
  <2>1. OnePerWriter(Active)' /\ Apart(Queued, Active)' /\ OnePerWriter(Queued)'
    BY <1>1, <1>9, <1>10 DEF QueuesInv, PlacesInv, OnePerWriter, Apart
  <2>2. IsInjective(activeRenders') /\ IsInjective(renderQueue')
    BY <1>1, <1>2, <1>9 DEF QueuesInv, PlacesInv
  <2>3. \A g, h \in Range(todo') : WriterOf[g.job] = WriterOf[h.job] => g = h
    BY <1>4, <1>5, <1>7 DEF QueuesInv, PlacesInv
  <2>4. ASSUME NEW g \in Range(todo')
        PROVE  /\ g.step \in {"start", "stopped"} => Apart(Queued \cup Active', {g.job})
               /\ g.step \in InWork => g.job \in Active'
    <3>1. CASE g = f
      BY <1>1, <1>5, <3>1
    <3>2. CASE g \in Range(Tail(todo))
      BY <1>1, <1>4, <3>2 DEF QueuesInv, PlacesInv, Apart
    <3>. QED
      BY <1>7, <3>1, <3>2
  <2>. QED
    BY <1>7, <1>10, <2>1, <2>2, <2>3, <2>4 DEF PlacesInv
<1>12. TasksInv'
  BY <1>1, <1>4, <1>5, <1>7, <1>8, <1>10 DEF QueuesInv, TasksInv
<1>13. QuietInv'
  BY <1>4, <1>5, <1>7, <1>8, <1>10 DEF QueuesInv, QuietInv
<1>14. AbortsInv' /\ EngineInv' /\ EventsInv'
  BY <1>1, <1>2, <1>10 DEF QueuesInv, AbortsInv, EngineInv, EventsInv, engineVars, userVars
<1>15. ProcessInv' /\ \A k \in Jobs : proc[k] = "crashed" => proc'[k] = "crashed"
  <2>1. CASE mode = "Process"
    <3>1. StartProcess(Job) /\ PipeTypes
      BY <1>1, <2>1 DEF TypesInv
    <3>2. /\ proc[Job] = "none" /\ proc'[Job] = "starting"
          /\ \A k \in Jobs \ {Job} : proc'[k] = proc[k]
          /\ UNCHANGED <<channel, ended, toGui, abortSeen, earlyCancel, aborts>>
      BY <1>4, <3>1 DEF StartProcess, ProcessMove, Set, PipeTypes, pipeVars
    <3>. QED
      BY <1>1, <1>2, <1>4, <3>2 DEF QueuesInv, ProcessInv, userVars
  <2>2. CASE mode # "Process"
    <3>1. UNCHANGED processVars
      BY <1>1, <2>2
    <3>. QED
      BY <1>1, <1>2, <3>1 DEF QueuesInv, ProcessInv, userVars, processVars, pipeVars
  <2>. QED
    BY <2>1, <2>2
<1>16. CountInv'
  <2> SUFFICES ASSUME ~everUnqueued PROVE CountInv'
    BY <1>2 DEF CountInv, userVars
  <2>1. /\ queuing' /\ Active = {}
        /\ \A g, h \in Range(todo) : g.step = "start" /\ h.step = "start" => g = h
    BY <1>2, <1>3, <1>4 DEF QueuesInv, CountInv, userVars
  <2>2. \A g \in Range(todo') : g.step # "start"
    BY <1>3, <1>4, <1>5, <1>7, <2>1
  <2>. QED
    BY <1>1, <2>1, <2>2 DEF CountInv
<1>17. LostInv'
  <2>1. \A g \in Range(todo) : g.job \in Active' \/ \E h \in Range(todo') : h.job = g.job
    BY <1>1, <1>4, <1>7 DEF Job
  <2>2. \A k : HasPlace(k) => HasPlace(k)'
    BY <1>1, <1>2, <1>10, <1>15, <2>1 DEF HasPlace
  <2>3. mode' = mode /\ asked' = asked /\ canceled' = canceled
    BY <1>2 DEF userVars
  <2>4. NoRequestLost'
    BY <2>2, <2>3, NothingLost DEF QueuesInv, LostInv
  <2>5. ASSUME NEW g \in Range(todo'), g.step = "stopped"
        PROVE  Settled(g.job) \/ proc'[g.job] = "crashed"
    <3>1. g \in Range(todo)
      BY <1>4, <1>5, <1>7, <2>5
    <3>2. g.job \in Jobs
      BY <3>1, PlacesAreOfJobs
    <3>. QED
      BY <1>15, <2>5, <3>1, <3>2 DEF QueuesInv, LostInv
  <2>. QED
    BY <1>10, <2>4, <2>5 DEF LostInv
<1>. QED
  BY <1>11, <1>12, <1>13, <1>14, <1>15, <1>16, <1>17 DEF QueuesInv

(* A step that moves no job, ends no more than the call in progress, and   *)
(* leaves the engines of what waits alone.                                 *)
LEMMA ListsStay ==
  ASSUME TypesInv, QueuesInv,
         IsInjective(todo'), Range(todo') \subseteq Range(todo),
         IsInjective(renderQueue'), IsInjective(activeRenders'),
         Queued' = Queued, Active' = Active,
         \A k \in Queued : Live(WriterOf[k])',
         \A k \in Jobs : OfTask(k) => OfTask(k)',
         \A k \in Queued : Quiet(WriterOf[k])',
         \A f \in Range(todo') : f.step # "stopped" => Quiet(WriterOf[f.job])',
         UNCHANGED <<mode, asked, queuing, everUnqueued>>,
         rendered \subseteq rendered', canceled \subseteq canceled',
         \A k \in Jobs : proc[k] = "crashed" => proc'[k] = "crashed",
         \A f \in Range(todo) : \/ f \in Range(todo') \/ f.job \in Active
                                \/ Settled(f.job)' \/ proc[f.job] = "crashed"
  PROVE  PlacesInv' /\ TasksInv' /\ QuietInv' /\ CountInv' /\ LostInv'
<1>1. /\ Queued \subseteq Jobs /\ Active \subseteq Jobs
      /\ \A f \in Range(todo) : f.job \in Jobs
  BY PlacesAreOfJobs
<1>2. PlacesInv'
  BY DEF QueuesInv, PlacesInv
<1>3. TasksInv'
  BY <1>1 DEF QueuesInv, TasksInv
<1>4. QuietInv'
  BY DEF QuietInv
<1>5. CountInv'
  BY DEF QueuesInv, CountInv
<1>6. NoRequestLost'
  <2>1. ASSUME NEW k, k \notin canceled', HasPlace(k) PROVE HasPlace(k)'
    <3>1. CASE \E f \in Range(todo) : f.job = k
      <4>1. PICK f \in Range(todo) : f.job = k
        BY <3>1
      <4>2. f \in Range(todo') \/ k \in Active' \/ k \in rendered' \/ proc'[k] = "crashed"
        BY <1>1, <2>1, <4>1 DEF Settled
      <4>. QED
        BY <1>1, <4>1, <4>2 DEF HasPlace
    <3>2. CASE ~\E f \in Range(todo) : f.job = k
      BY <2>1, <3>2 DEF HasPlace
    <3>. QED
      BY <3>1, <3>2
  <2>. QED
    BY <2>1, NothingLost DEF QueuesInv, LostInv
<1>7. LostInv'
  BY <1>1, <1>6 DEF QueuesInv, LostInv, Settled
<1>. QED
  BY <1>2, <1>3, <1>4, <1>5, <1>7

(* A writer whose render waits, or is about to start, is quiet: the others *)
(* are those of this step.                                                 *)
LEMMA OthersAreQuiet ==
  ASSUME TypesInv, QueuesInv, NEW w,
         \A k \in Queued : WriterOf[k] # w,
         \A f \in Range(todo') : /\ f \in Range(todo)
                                 /\ f.step # "stopped" => WriterOf[f.job] # w,
         \A v \in Writers : v # w /\ Quiet(v) => Quiet(v)'
  PROVE  /\ \A k \in Queued : Quiet(WriterOf[k])'
         /\ \A f \in Range(todo') : f.step # "stopped" => Quiet(WriterOf[f.job])'
<1>1. Queued \subseteq Jobs /\ \A f \in Range(todo) : f.job \in Jobs
  BY PlacesAreOfJobs
<1>2. \A k \in Jobs : WriterOf[k] \in Writers
  OBVIOUS
<1>. QED
  BY <1>1, <1>2 DEF QueuesInv, QuietInv

(* What a step of the main thread that leaves the engines, the events and  *)
(* the processes alone keeps.                                              *)
LEMMA RestStays ==
  ASSUME QueuesInv, UNCHANGED <<processVars, engineVars, mode>>, Active' = Active,
         rendered \subseteq rendered', canceled \subseteq canceled',
         IsInjective(events'), Range(events') \subseteq Range(events)
  PROVE  AbortsInv' /\ EngineInv' /\ EventsInv' /\ ProcessInv'
<1>1. AbortsInv'
  BY DEF QueuesInv, AbortsInv, engineVars
<1>2. EngineInv'
  <2>1. \A v : NoEvent(v) => NoEvent(v)'
    BY DEF NoEvent
  <2>2. \A k : Settled(k) => Settled(k)'
    BY DEF Settled
  <2>. QED
    BY <2>1, <2>2 DEF QueuesInv, EngineInv, engineVars
<1>3. EventsInv'
  BY DEF QueuesInv, EventsInv, Settled
<1>4. ProcessInv'
  BY DEF QueuesInv, ProcessInv, processVars, pipeVars
<1>. QED
  BY <1>1, <1>2, <1>3, <1>4

(* A call requests its render of the engine, which is idle.                *)
LEMMA PushQueues ==
  ASSUME TypesInv, ModeInv, QueuesInv, RenderFullSequence
  PROVE  QueuesInv'
<1>1. /\ todo # <<>> /\ Head(todo).step \in {"render", "push"}
      /\ \/ UNCHANGED engineVars /\ todo' = <<Frame("ask", Job)>> \o Tail(todo)
         \/ PushEffect(Job) /\ todo' = Tail(todo)
      /\ UNCHANGED <<processVars, queueVars, task, events, userVars, blocking, rendered>>
  BY SequenceTypes
<1>2. /\ IsInjective(Tail(todo)) /\ Head(todo) \in Range(todo) /\ Job \in Jobs
      /\ \A g \in Range(Tail(todo)) : /\ g \in Range(todo)
                                      /\ WriterOf[g.job] # WriterOf[Job]
      /\ \A g \in Range(todo) : g = Head(todo) \/ g \in Range(Tail(todo))
  BY <1>1, OtherCalls DEF QueuesInv
<1>3. CASE UNCHANGED engineVars /\ todo' = <<Frame("ask", Job)>> \o Tail(todo)
  BY <1>1, <1>3, CallGoesOn DEF InWork
<1>4. CASE PushEffect(Job) /\ todo' = Tail(todo)
  <2> DEFINE w == WriterOf[Job]
  <2>1. Job \in Active /\ Quiet(w) /\ w \in Writers
    BY <1>1, <1>2 DEF QueuesInv, PlacesInv, QuietInv, Job, InWork
  <2>2. \A k \in Queued : WriterOf[k] # w
    BY <2>1 DEF QueuesInv, PlacesInv, Apart
  <2>3. mode = "Gui"
    <3>1. mode \in {"Gui", "Process", "Blocking"}
      BY DEF TypesInv, MainTypes
    <3>2. mode # "Process"
      BY <1>1, <1>2 DEF ModeInv, NoEngine
    <3>3. mode # "Blocking"
      BY <1>1 DEF ModeInv, NoQueue
    <3>. QED
      BY <3>1, <3>2, <3>3
  <2>4. /\ \A v \in Writers \ {w} : requests'[v] = requests[v] /\ late'[v] = late[v]
        /\ requests'[w] = Append(requests[w], Job)
        /\ late'[w] = late[w] \/ abortRequested[w]
        /\ UNCHANGED <<engine, current, abortRequested, wasAborted, dataLock>>
        /\ UNCHANGED <<mode, queuing, asked, canceled, everUnqueued, renderQueue,
                       activeRenders, task, events, rendered, proc, ended, toGui,
                       earlyCancel, aborts, abortSeen>>
    BY <1>1, <1>4 DEF PushEffect, userVars, queueVars, processVars, pipeVars
  <2>5. requests[w] = <<>> /\ engine[w] = "idle" /\ NoEvent(w) /\ ~abortRequested[w]
    BY <2>1 DEF Quiet, QueuesInv, AbortsInv
  <2>6. requests'[w] # <<>> /\ Head(requests'[w]) = Job /\ Len(requests'[w]) = 1
    <3>1. requests'[w] = <<Job>>
      BY <2>4, <2>5
    <3>. QED
      BY <3>1
  <2>7. /\ Queued' = Queued /\ Active' = Active
        /\ \A v : NoEvent(v)' <=> NoEvent(v)
        /\ \A v \in Writers : v # w /\ Quiet(v) => Quiet(v)'
        /\ \A k : (Settled(k)' <=> Settled(k)) /\ (OfTask(k)' <=> OfTask(k))
        /\ \A v : Live(v)' <=> Live(v)
    BY <2>4 DEF Queued, Active, NoEvent, Quiet, Settled, OfTask, Live
  <2> HIDE DEF w
  <2>8. /\ \A k \in Queued : Quiet(WriterOf[k])'
        /\ \A f \in Range(todo') : f.step # "stopped" => Quiet(WriterOf[f.job])'
    <3>1. \A f \in Range(todo') : f \in Range(todo) /\ WriterOf[f.job] # w
      BY <1>2, <1>4 DEF w
    <3>. QED
      BY <2>2, <2>7, <3>1, OthersAreQuiet
  <2>9. PlacesInv' /\ TasksInv' /\ QuietInv' /\ CountInv' /\ LostInv'
    <3>1. /\ IsInjective(todo') /\ Range(todo') \subseteq Range(todo)
          /\ \A f \in Range(todo) : f \in Range(todo') \/ f.job \in Active
      BY <1>2, <1>4, <2>1 DEF Job
    <3>2. IsInjective(renderQueue') /\ IsInjective(activeRenders')
      BY <2>4 DEF QueuesInv, PlacesInv
    <3>3. \A k \in Queued : Live(WriterOf[k])'
      BY <2>7 DEF QueuesInv, TasksInv
    <3>. QED
      BY <2>4, <2>7, <2>8, <3>1, <3>2, <3>3, ListsStay
  <2>10. AbortsInv'
    <3>1. ASSUME NEW v \in Writers
          PROVE  /\ late'[v] = <<>>
                 /\ abortRequested'[v] => engine'[v] # "idle" /\ mode = "Gui"
                 /\ Len(requests'[v]) <= 1
      <4>1. CASE v = w
        <5>1. late[w] = <<>> /\ abortRequested' = abortRequested
          BY <2>1, <2>4 DEF QueuesInv, AbortsInv
        <5>2. late'[w] = <<>> /\ ~abortRequested'[w] /\ Len(requests'[w]) <= 1
          BY <2>4, <2>5, <2>6, <5>1
        <5>. QED
          BY <4>1, <5>2
      <4>2. CASE v # w
        BY <2>3, <2>4, <4>2 DEF QueuesInv, AbortsInv
      <4>. QED
        BY <4>1, <4>2
    <3>. QED
      BY <2>3, <2>4, <3>1 DEF AbortsInv
  <2>11. EngineInv'
    <3>1. ASSUME NEW v \in Writers
          PROVE  /\ requests'[v] # <<>> /\ engine[v] \in {"idle", "render", "report", "reset"}
                      => Head(requests'[v]) \in Active /\ NoEvent(v)
      <4>1. CASE v = w
        BY <2>1, <2>5, <2>6, <4>1
      <4>2. CASE v # w
        BY <2>3, <2>4, <4>2 DEF QueuesInv, EngineInv
      <4>. QED
        BY <4>1, <4>2
    <3>. QED
      BY <2>4, <2>7, <3>1 DEF QueuesInv, EngineInv
  <2>12. EventsInv'
    BY <2>4, <2>7 DEF QueuesInv, EventsInv
  <2>13. ProcessInv'
    BY <2>4, <2>7 DEF QueuesInv, ProcessInv
  <2>. QED
    BY <2>9, <2>10, <2>11, <2>12, <2>13 DEF QueuesInv
<1>. QED
  BY <1>1, <1>3, <1>4

(* The user agrees: the call goes on.                                      *)
LEMMA AcceptQueues ==
  ASSUME TypesInv, QueuesInv, AcceptQuestion
  PROVE  QueuesInv'
  BY CallGoesOn DEF AcceptQuestion, Doing, InWork

(* A task is told of the end of its render: none of its writer waits.      *)
LEMMA StopQueues ==
  ASSUME TypesInv, QueuesInv, StopTask
  PROVE  QueuesInv'
<1>1. /\ todo # <<>> /\ Head(todo).step = "stopped" /\ TaskStopped(Job) /\ todo' = Tail(todo)
      /\ UNCHANGED <<processVars, activeRenders, engineVars, events, userVars, blocking,
                     rendered>>
  BY DEF StopTask, Doing
<1>2. /\ IsInjective(Tail(todo)) /\ Head(todo) \in Range(todo) /\ Job \in Jobs
      /\ \A g \in Range(Tail(todo)) : g \in Range(todo)
      /\ \A g \in Range(todo) : g = Head(todo) \/ g \in Range(Tail(todo))
  BY <1>1, OtherCalls DEF QueuesInv
<1>3. \A k \in Queued : WriterOf[k] # WriterOf[Job]
  BY <1>1, <1>2 DEF QueuesInv, PlacesInv, Apart, Job
<1>4. /\ IsInjective(renderQueue') /\ Queued' = Queued
      /\ \A k \in Queued : Live(WriterOf[k])'
      /\ \A k \in Jobs : OfTask(k) => OfTask(k)'
  BY <1>1, <1>2, <1>3, NothingTaken DEF QueuesInv
<1>5. Active' = Active /\ \A v : Quiet(v)' <=> Quiet(v)
  BY <1>1 DEF Active, Quiet, NoEvent, engineVars
<1>6. UNCHANGED <<mode, asked, queuing, everUnqueued, canceled, rendered, proc>>
  BY <1>1 DEF userVars, processVars
<1>7. /\ IsInjective(todo') /\ Range(todo') \subseteq Range(todo)
      /\ IsInjective(activeRenders')
      /\ \A f \in Range(todo) : f \in Range(todo') \/ Settled(f.job)' \/ proc[f.job] = "crashed"
  <2>1. Head(todo).job = Job
    BY DEF Job
  <2>2. Settled(Job) \/ proc[Job] = "crashed"
    BY <1>1, <1>2, <2>1 DEF QueuesInv, LostInv
  <2>3. \A k : Settled(k)' <=> Settled(k)
    BY <1>6 DEF Settled
  <2>4. IsInjective(activeRenders')
    BY <1>1 DEF QueuesInv, PlacesInv
  <2>. QED
    BY <1>1, <1>2, <2>1, <2>2, <2>3, <2>4
<1>8. /\ \A k \in Queued : Quiet(WriterOf[k])'
      /\ \A f \in Range(todo') : f.step # "stopped" => Quiet(WriterOf[f.job])'
  BY <1>5, <1>7 DEF QueuesInv, QuietInv
<1>9. PlacesInv' /\ TasksInv' /\ QuietInv' /\ CountInv' /\ LostInv'
  BY <1>4, <1>5, <1>6, <1>7, <1>8, ListsStay
<1>10. AbortsInv' /\ EngineInv' /\ EventsInv' /\ ProcessInv'
  BY <1>1, <1>5, <1>6, RestStays DEF QueuesInv, EventsInv
<1>. QED
  BY <1>9, <1>10 DEF QueuesInv

(* So is it when the engine has stopped: the signal is of its writer.      *)
LEMMA EngineStoppedQueues ==
  ASSUME TypesInv, QueuesInv, OnRenderEngineStopped
  PROVE  QueuesInv'
<1> DEFINE e == Head(events)
<1>1. /\ events # <<>> /\ e.to = "task" /\ TaskStopped(e.job) /\ events' = Tail(events)
      /\ UNCHANGED <<processVars, activeRenders, engineVars, todo, userVars, blocking,
                     rendered>>
  BY DEF OnRenderEngineStopped
<1>2. /\ e \in Range(events) /\ Range(events') \subseteq Range(events)
      /\ IsInjective(events')
  BY <1>1, NextEvent DEF QueuesInv, EventsInv
<1>3. e.job \in Jobs /\ WriterOf[e.job] = e.writer
  BY <1>1, <1>2 DEF TypesInv, EventsAreOfWriters, JobsOf
<1> HIDE DEF e
<1>4. \A k \in Queued : WriterOf[k] # WriterOf[e.job]
  BY <1>2, <1>3 DEF QueuesInv, QuietInv, Quiet, NoEvent
<1>5. /\ IsInjective(renderQueue') /\ Queued' = Queued
      /\ \A k \in Queued : Live(WriterOf[k])'
      /\ \A k \in Jobs : OfTask(k) => OfTask(k)'
  BY <1>1, <1>3, <1>4, NothingTaken DEF QueuesInv
<1>6. Active' = Active /\ \A v : Quiet(v) => Quiet(v)'
  BY <1>1, <1>2 DEF Active, Quiet, NoEvent, engineVars
<1>7. UNCHANGED <<mode, asked, queuing, everUnqueued, canceled, rendered, proc>>
  BY <1>1 DEF userVars, processVars
<1>8. IsInjective(todo') /\ Range(todo') = Range(todo) /\ IsInjective(activeRenders')
  BY <1>1 DEF QueuesInv, PlacesInv
<1>9. /\ \A k \in Queued : Quiet(WriterOf[k])'
      /\ \A f \in Range(todo') : f.step # "stopped" => Quiet(WriterOf[f.job])'
  BY <1>6, <1>8 DEF QueuesInv, QuietInv
<1>10. PlacesInv' /\ TasksInv' /\ QuietInv' /\ CountInv' /\ LostInv'
  BY <1>5, <1>6, <1>7, <1>8, <1>9, ListsStay
<1>11. AbortsInv' /\ EngineInv' /\ EventsInv' /\ ProcessInv'
  BY <1>1, <1>2, <1>6, <1>7, RestStays DEF QueuesInv
<1>. QED
  BY <1>10, <1>11 DEF QueuesInv

(* A render that is over is rendered, canceled or has crashed, and all the *)
(* others keep their places.                                               *)
LEMMA NothingLostAtEnd ==
  ASSUME TypesInv, LostInv, NEW j \in Jobs, NEW rest \in Seq(FrameRecords),
         Active' = Active \ {j},
         Range(rest) \subseteq Range(todo'),
         \A f \in Range(todo') : f \in Range(rest) \/ f.step = "start",
         Queued \subseteq Queued' \cup {f.job : f \in Range(todo')},
         \A f \in Range(todo) : f \in Range(rest) \/ f.job = j,
         \A f \in Range(rest) : f.step = "stopped" => f \in Range(todo) \/ f.job = j,
         UNCHANGED <<mode, asked>>, rendered \subseteq rendered', canceled \subseteq canceled',
         \A k \in Jobs : proc[k] = "crashed" => proc'[k] = "crashed",
         Settled(j)' \/ proc'[j] = "crashed"
  PROVE  LostInv'
<1>1. \A f \in Range(todo) : f.job \in Jobs
  BY PlacesAreOfJobs
<1>2. ASSUME NEW k, k \notin canceled', HasPlace(k) PROVE HasPlace(k)'
  <2>1. CASE k = j
    BY <1>2, <2>1 DEF Settled, HasPlace
  <2>2. CASE k # j
    <3>1. (\E f \in Range(todo) : f.job = k) => \E f \in Range(todo') : f.job = k
      BY <2>2
    <3>. QED
      BY <1>2, <2>2, <3>1 DEF HasPlace
  <2>. QED
    BY <2>1, <2>2
<1>3. NoRequestLost'
  BY <1>2, NothingLost DEF LostInv
<1>4. ASSUME NEW f \in Range(todo'), f.step = "stopped"
      PROVE  Settled(f.job)' \/ proc'[f.job] = "crashed"
  <2>1. f \in Range(todo) \/ f.job = j
    BY <1>4
  <2>2. CASE f.job = j
    BY <2>2
  <2>3. CASE f \in Range(todo)
    BY <1>1, <1>4, <2>3 DEF LostInv, Settled
  <2>. QED
    BY <2>1, <2>2, <2>3
<1>. QED
  BY <1>3, <1>4 DEF LostInv

(* What is left of the calls for the render that is over, when the task of *)
(* the render is still to be told.                                         *)
LEMMA TaskToTell ==
  ASSUME TypesInv, PlacesInv, NEW j \in Active, NEW calls \in Seq(FrameRecords),
         IsInjective(calls),
         \A f \in Range(calls) : f \in Range(todo) /\ WriterOf[f.job] # WriterOf[j]
  PROVE  LET rest == <<Frame("stopped", j)>> \o calls
         IN /\ rest \in Seq(FrameRecords) /\ LeftOfCalls(rest, j)
            /\ Range(rest) = {Frame("stopped", j)} \cup Range(calls)
            /\ Frame("stopped", j).job = j
<1> DEFINE rest == <<Frame("stopped", j)>> \o calls
           s == Frame("stopped", j)
<1>1. /\ Queued \subseteq Jobs /\ Active \subseteq Jobs /\ j \in Jobs
  BY PlacesAreOfJobs
<1>2. s.step = "stopped" /\ s.job = j /\ s \in FrameRecords
  BY <1>1 DEF Frame, FrameRecords, Steps
<1>3. s \notin Range(calls)
  BY <1>2
<1>4. rest \in Seq(FrameRecords) /\ Range(rest) = {s} \cup Range(calls) /\ IsInjective(rest)
  BY <1>2, <1>3, Prepended
<1> HIDE DEF s, rest
<1>5. Apart(Queued \cup (Active \ {j}), {j})
  BY <1>1 DEF PlacesInv, Apart, OnePerWriter
<1>6. ASSUME NEW f \in Range(rest)
      PROVE  /\ f.step \in {"start", "stopped"} => Apart(Queued \cup (Active \ {j}), {f.job})
             /\ f.step \in InWork => f.job \in Active \ {j}
             /\ f.step # "stopped" => f \in Range(todo)
  <2>1. CASE f = s
    BY <1>2, <1>5, <2>1 DEF InWork
  <2>2. CASE f \in Range(calls)
    BY <2>2 DEF PlacesInv, Apart
  <2>. QED
    BY <1>4, <2>1, <2>2
<1>7. \A f, g \in Range(rest) : WriterOf[f.job] = WriterOf[g.job] => f = g
  BY <1>2, <1>4 DEF PlacesInv
<1>8. LeftOfCalls(rest, j)
  BY <1>4, <1>6, <1>7 DEF LeftOfCalls
<1>. QED
  BY <1>2, <1>4, <1>8 DEF s, rest

(* What the end of a render leaves to the engines, when there is nothing   *)
(* left of its writer's.                                                   *)
LEMMA OthersKeepRenders ==
  ASSUME TypesInv, QueuesInv, NEW j \in Active, Active' = Active \ {j},
         UNCHANGED <<engineVars, mode>>, rendered \subseteq rendered',
         canceled \subseteq canceled',
         Range(events') \subseteq Range(events),
         mode = "Gui" => \/ requests[WriterOf[j]] = <<>>
                         \/ engine[WriterOf[j]] \notin {"idle", "render", "report", "reset"}
  PROVE  AbortsInv' /\ EngineInv'
<1>1. AbortsInv'
  BY DEF QueuesInv, AbortsInv, engineVars
<1>2. \A v : NoEvent(v) => NoEvent(v)'
  BY DEF NoEvent
<1>3. \A k : Settled(k) => Settled(k)'
  BY DEF Settled
<1>4. ASSUME NEW v \in Writers, mode = "Gui",
             requests[v] # <<>>, engine[v] \in {"idle", "render", "report", "reset"}
      PROVE  Head(requests[v]) \in Active \ {j} /\ NoEvent(v)'
  <2>1. v # WriterOf[j]
    BY <1>4
  <2>2. WriterOf[Head(requests[v])] = v
    BY <1>4, HeadAndTail DEF TypesInv, EngineTypes, JobsOf
  <2>3. Head(requests[v]) \in Active /\ NoEvent(v)
    BY <1>4 DEF QueuesInv, EngineInv
  <2>. QED
    BY <1>2, <2>1, <2>2, <2>3
<1>5. EngineInv'
  BY <1>3, <1>4 DEF QueuesInv, EngineInv, engineVars
<1>. QED
  BY <1>1, <1>5

(* The user refuses: the render is over before it began.                   *)
LEMMA RefuseQueues ==
  ASSUME TypesInv, ModeInv, QueuesInv, RefuseQuestion
  PROVE  QueuesInv'
<1>1. /\ todo # <<>> /\ Head(todo).step = "ask" /\ canceled' = canceled \cup {Job}
      /\ \/ StartNext(WriterOf[Job], <<Frame("stopped", Job)>> \o Tail(todo))
         \/ todo' = Tail(todo) /\ UNCHANGED queueVars
      /\ UNCHANGED <<processVars, engineVars, task, events, mode, queuing, asked,
                     everUnqueued, rendered>>
  BY DEF RefuseQuestion, Doing
<1>2. /\ IsInjective(Tail(todo)) /\ Head(todo) \in Range(todo) /\ Job \in Jobs
      /\ \A g \in Range(Tail(todo)) : /\ g \in Range(todo)
                                      /\ WriterOf[g.job] # WriterOf[Job]
      /\ \A g \in Range(todo) : g = Head(todo) \/ g \in Range(Tail(todo))
      /\ Tail(todo) \in Seq(FrameRecords)
  BY <1>1, OtherCalls, CallInProgress DEF QueuesInv
<1>3. Job \in Active /\ Quiet(WriterOf[Job]) /\ Job = Head(todo).job
  BY <1>1, <1>2 DEF QueuesInv, PlacesInv, QuietInv, Job, InWork
<1>4. \A k : Settled(k) => Settled(k)'
  BY <1>1 DEF Settled
<1> PICK j \in Jobs : j = Job
  BY <1>2
<1>5. Settled(j)' /\ canceled \subseteq canceled'
  BY <1>1 DEF Settled
<1>6. UNCHANGED <<proc, mode, asked, queuing, everUnqueued, task, rendered, events>>
  BY <1>1 DEF processVars
<1>7. CASE todo' = Tail(todo) /\ UNCHANGED queueVars
  <2>1. /\ UNCHANGED <<renderQueue, activeRenders>> /\ Queued' = Queued /\ Active' = Active
        /\ IsInjective(renderQueue') /\ IsInjective(activeRenders')
    BY <1>7 DEF queueVars, Queued, Active, QueuesInv, PlacesInv
  <2>2. \A v : (Quiet(v)' <=> Quiet(v)) /\ (Live(v)' <=> Live(v))
    BY <1>1 DEF Quiet, NoEvent, Live, engineVars
  <2>3. \A k : OfTask(k)' <=> OfTask(k)
    BY <1>1 DEF OfTask
  <2>4. /\ IsInjective(todo') /\ Range(todo') \subseteq Range(todo)
        /\ \A f \in Range(todo) : f \in Range(todo') \/ f.job \in Active
    BY <1>2, <1>3, <1>7
  <2>5. /\ \A k \in Queued : Live(WriterOf[k])' /\ Quiet(WriterOf[k])'
        /\ \A f \in Range(todo') : f.step # "stopped" => Quiet(WriterOf[f.job])'
    BY <2>2, <2>4 DEF QueuesInv, QuietInv, TasksInv
  <2>6. PlacesInv' /\ TasksInv' /\ QuietInv' /\ CountInv' /\ LostInv'
    BY <1>5, <1>6, <2>1, <2>3, <2>4, <2>5, ListsStay
  <2>7. AbortsInv' /\ EngineInv' /\ EventsInv' /\ ProcessInv'
    BY <1>1, <1>5, <2>1, RestStays DEF QueuesInv, EventsInv
  <2>. QED
    BY <2>6, <2>7 DEF QueuesInv
<1>8. CASE StartNext(WriterOf[Job], <<Frame("stopped", Job)>> \o Tail(todo))
  <2> DEFINE s == Frame("stopped", j)
             rest == <<Frame("stopped", j)>> \o Tail(todo)
  <2>1. /\ rest \in Seq(FrameRecords) /\ LeftOfCalls(rest, j)
        /\ Range(rest) = {s} \cup Range(Tail(todo)) /\ s.job = j
    BY <1>2, <1>3, TaskToTell DEF QueuesInv
  <2>2. StartNext(WriterOf[j], rest)
    BY <1>8
  <2>3. UNCHANGED <<task, queuing, everUnqueued, engine, requests, events>>
    BY <1>1 DEF engineVars
  <2>4. j \in Active
    BY <1>3
  <2> HIDE DEF s, rest
  <2>5. /\ PlacesInv' /\ TasksInv' /\ QuietInv' /\ CountInv'
        /\ Active' = Active \ {j}
        /\ \A f \in Range(todo') : f \in Range(rest) \/ f.step = "start"
        /\ Range(rest) \subseteq Range(todo')
        /\ Queued \subseteq Queued' \cup {f.job : f \in Range(todo')}
    BY <2>1, <2>2, <2>3, <2>4, RenderIsOver DEF QueuesInv
  <2>6. LostInv'
    <3>1. /\ \A f \in Range(todo) : f \in Range(rest) \/ f.job = j
          /\ \A f \in Range(rest) : f.step = "stopped" => f \in Range(todo) \/ f.job = j
      BY <1>2, <1>3, <2>1
    <3>. QED
      BY <1>5, <1>6, <2>1, <2>5, <3>1, NothingLostAtEnd DEF QueuesInv
  <2>7. AbortsInv' /\ EngineInv'
    <3>1. requests[WriterOf[j]] = <<>>
      BY <1>3 DEF Quiet
    <3>. QED
      BY <1>1, <1>5, <2>4, <2>5, <3>1, OthersKeepRenders
  <2>8. EventsInv'
    <3>1. \A e \in Range(events) : e.writer # WriterOf[j]
      BY <1>3 DEF Quiet, NoEvent
    <3>2. IsInjective(events')
      BY <1>6 DEF QueuesInv, EventsInv
    <3>3. ASSUME NEW e \in Range(events), e.to = "app"
          PROVE  \E k \in Active' : WriterOf[k] = e.writer /\ Settled(k)'
      <4>1. PICK k \in Active : WriterOf[k] = e.writer /\ Settled(k)
        BY <3>3 DEF QueuesInv, EventsInv
      <4>. QED
        BY <1>4, <2>5, <3>1, <4>1
    <3>. QED
      BY <1>6, <3>2, <3>3 DEF EventsInv
  <2>9. ProcessInv'
    <3>1. mode # "Process"
      BY <1>1, <1>2 DEF ModeInv, NoEngine
    <3>2. \A k \in Jobs : proc[k] = "none"
      BY <3>1 DEF ModeInv, NoProcess
    <3>3. UNCHANGED <<proc, ended, toGui, earlyCancel, aborts, abortSeen>>
      BY <1>1 DEF processVars, pipeVars
    <3>. QED
      BY <1>5, <3>2, <3>3 DEF QueuesInv, ProcessInv
  <2>. QED
    BY <2>5, <2>6, <2>7, <2>8, <2>9 DEF QueuesInv
<1>. QED
  BY <1>1, <1>7, <1>8

(* AppInstance is told of the end of a render, which is active until then. *)
LEMMA FinishedQueues ==
  ASSUME TypesInv, ModeInv, QueuesInv, OnQueuedRenderFinished
  PROVE  QueuesInv'
<1>1. /\ events # <<>> /\ Head(events).to = "app" /\ events' = Tail(events)
      /\ StartNext(Head(events).writer, todo)
      /\ UNCHANGED <<processVars, engineVars, task, userVars, rendered>>
  BY DEF OnQueuedRenderFinished
<1>2. /\ Head(events) \in Range(events) /\ Range(events) = {Head(events)} \cup Range(events')
      /\ IsInjective(events') /\ Head(events) \notin Range(events')
  BY <1>1, NextEvent DEF QueuesInv, EventsInv
<1>3. PICK j \in Active : WriterOf[j] = Head(events).writer /\ Settled(j)
  BY <1>1, <1>2 DEF QueuesInv, EventsInv
<1>4. mode # "Process" /\ j \in Jobs
  <2>1. mode # "Process"
    BY <1>1 DEF ModeInv, NoEngine
  <2>. QED
    BY <2>1, PlacesAreOfJobs
<1>5. UNCHANGED <<task, queuing, everUnqueued, engine, requests, mode, asked, canceled,
                  rendered, proc, ended, toGui, earlyCancel, aborts, abortSeen>>
  BY <1>1 DEF engineVars, userVars, processVars, pipeVars
<1>6. StartNext(WriterOf[j], todo) /\ ~NoEvent(WriterOf[j])
  BY <1>1, <1>2, <1>3 DEF NoEvent
<1>7. todo \in Seq(FrameRecords) /\ LeftOfCalls(todo, j)
  <2>1. todo \in Seq(FrameRecords)
    BY DEF TypesInv, MainTypes
  <2>2. ASSUME NEW f \in Range(todo)
        PROVE  /\ f.step \in {"start", "stopped"} =>
                     Apart(Queued \cup (Active \ {j}), {f.job})
               /\ f.step \in InWork => f.job \in Active \ {j}
    <3>1. f.step \in InWork => f.job # j
      BY <1>6 DEF QueuesInv, QuietInv, Quiet, InWork
    <3>. QED
      BY <3>1 DEF QueuesInv, PlacesInv, Apart
  <2>3. /\ IsInjective(todo)
        /\ \A f, g \in Range(todo) : WriterOf[f.job] = WriterOf[g.job] => f = g
    BY DEF QueuesInv, PlacesInv
  <2>. QED
    BY <2>1, <2>2, <2>3 DEF LeftOfCalls
<1>8. /\ PlacesInv' /\ TasksInv' /\ QuietInv' /\ CountInv'
      /\ Active' = Active \ {j}
      /\ \A f \in Range(todo') : f \in Range(todo) \/ f.step = "start"
      /\ Range(todo) \subseteq Range(todo')
      /\ Queued \subseteq Queued' \cup {f.job : f \in Range(todo')}
  <2>1. \A e \in Range(events') : e \in Range(events)
    BY <1>2
  <2>. QED
    BY <1>5, <1>6, <1>7, <2>1, RenderIsOver DEF QueuesInv
<1>9. \A k : Settled(k)' <=> Settled(k)
  BY <1>5 DEF Settled
<1>10. LostInv'
  BY <1>3, <1>4, <1>5, <1>7, <1>8, <1>9, NothingLostAtEnd DEF QueuesInv
<1>11. AbortsInv' /\ EngineInv'
  <2>1. mode = "Gui" =>
          \/ requests[WriterOf[j]] = <<>>
          \/ engine[WriterOf[j]] \notin {"idle", "render", "report", "reset"}
    BY <1>4, <1>6 DEF QueuesInv, EngineInv
  <2>2. Range(events') \subseteq Range(events)
    BY <1>2
  <2>. QED
    BY <1>1, <1>5, <1>8, <2>1, <2>2, OthersKeepRenders
<1>12. EventsInv'
  <2>1. ASSUME NEW e \in Range(events'), e.to = "app"
        PROVE  \E k \in Active' : WriterOf[k] = e.writer /\ Settled(k)'
    <3>1. e \in Range(events) /\ e # Head(events)
      BY <1>2
    <3>2. e.job = NoJob /\ Head(events).job = NoJob
      BY <1>1, <1>2, <2>1, <3>1 DEF TypesInv, EventsAreOfWriters
    <3>3. e \in EventRecords /\ Head(events) \in EventRecords
      BY <1>2, <3>1, PlacesAreOfJobs
    <3>4. e.writer # Head(events).writer
      BY <1>1, <2>1, <3>1, <3>2, <3>3 DEF EventRecords
    <3>5. PICK k \in Active : WriterOf[k] = e.writer /\ Settled(k)
      BY <2>1, <3>1 DEF QueuesInv, EventsInv
    <3>. QED
      BY <1>3, <1>8, <1>9, <3>4, <3>5
  <2>. QED
    BY <1>2, <2>1 DEF EventsInv
<1>13. ProcessInv'
  <2>1. \A k \in Jobs : proc[k] = "none"
    BY <1>4 DEF ModeInv, NoProcess
  <2>. QED
    BY <1>5, <2>1 DEF QueuesInv, ProcessInv
<1>. QED
  BY <1>8, <1>10, <1>11, <1>12, <1>13 DEF QueuesInv

(* A line of a process, or its connection: the process is still active, so *)
(* no other render of its writer waits when its task is told again.        *)
LEMMA SocketQueues ==
  ASSUME TypesInv, QueuesInv, NEW j \in Jobs, OnSocket(j)
  PROVE  QueuesInv'
<1>1. /\ SocketStep(j)
      /\ IF earlyCancel[j] /\ ~earlyCancel'[j] THEN TaskStopped(j)
                                               ELSE UNCHANGED <<task, renderQueue>>
      /\ UNCHANGED <<activeRenders, engineVars, events, todo, userVars, rendered>>
  BY DEF OnSocket
<1>2. PipeTypes
  BY DEF TypesInv
<1>3. OnDataWrittenToSocket(j) => toGui[j] # <<>> /\ proc[j] # "none" /\ ~ended[j]
  <2>1. OnDataWrittenToSocket(j) => toGui[j] # <<>>
    BY DEF OnDataWrittenToSocket, ReadConnection, ReadStarted, ReadProgress
  <2>. QED
    BY <2>1 DEF QueuesInv, ProcessInv
<1>4. /\ proc' = proc /\ ended' = ended /\ abortSeen' = abortSeen
      /\ \A k \in Jobs : toGui[k] = <<>> => toGui'[k] = <<>>
      /\ \A k \in Jobs : earlyCancel'[k] \/ aborts'[k] > 0 => earlyCancel[k] \/ aborts[k] > 0
      /\ earlyCancel[j] /\ ~earlyCancel'[j] => OnDataWrittenToSocket(j)
  <2>1. CASE OnNewConnectionPending(j)
    BY <2>1 DEF OnNewConnectionPending
  <2>2. CASE OnDataWrittenToSocket(j)
    <3>1. /\ proc' = proc /\ ended' = ended /\ abortSeen' = abortSeen
          /\ \A k \in Jobs \ {j} : toGui'[k] = toGui[k]
      BY <1>2, <2>2 DEF OnDataWrittenToSocket, Set, PipeTypes
    <3>2. \A k \in Jobs : earlyCancel'[k] \/ aborts'[k] > 0 => earlyCancel[k] \/ aborts[k] > 0
      BY <1>2, <2>2 DEF OnDataWrittenToSocket, ReadConnection, ReadStarted, ReadProgress,
                        EarlyCancelSent, WriteAbort, Set, PipeTypes
    <3>. QED
      BY <1>3, <2>2, <3>1, <3>2
  <2>. QED
    BY <1>1, <2>1, <2>2 DEF SocketStep
<1>5. UNCHANGED <<mode, asked, queuing, everUnqueued, canceled, rendered, proc>>
  BY <1>1, <1>4 DEF userVars
<1>6. /\ IsInjective(renderQueue') /\ Queued' = Queued
      /\ \A k \in Queued : Live(WriterOf[k])'
      /\ \A k \in Jobs : OfTask(k) => OfTask(k)'
  <2>1. CASE earlyCancel[j] /\ ~earlyCancel'[j]
    <3>1. j \in Active
      BY <1>3, <1>4, <2>1 DEF QueuesInv, ProcessInv
    <3>2. \A k \in Queued : WriterOf[k] # WriterOf[j]
      BY <3>1 DEF QueuesInv, PlacesInv, Apart
    <3>. QED
      BY <1>1, <2>1, <3>2, NothingTaken DEF QueuesInv
  <2>2. CASE UNCHANGED <<task, renderQueue>>
    <3>1. IsInjective(renderQueue') /\ Queued' = Queued
      BY <2>2 DEF QueuesInv, PlacesInv, Queued
    <3>2. \A k \in Queued : Live(WriterOf[k])'
      BY <2>2 DEF QueuesInv, TasksInv, Live
    <3>3. \A k \in Jobs : OfTask(k) => OfTask(k)'
      BY <2>2 DEF OfTask
    <3>. QED
      BY <3>1, <3>2, <3>3
  <2>. QED
    BY <1>1, <2>1, <2>2
<1>7. /\ Active' = Active /\ \A v : Quiet(v)' <=> Quiet(v)
      /\ IsInjective(todo') /\ Range(todo') = Range(todo) /\ IsInjective(activeRenders')
  BY <1>1 DEF Active, Quiet, NoEvent, engineVars, QueuesInv, PlacesInv
<1>8. /\ \A k \in Queued : Quiet(WriterOf[k])'
      /\ \A f \in Range(todo') : f.step # "stopped" => Quiet(WriterOf[f.job])'
  BY <1>7 DEF QueuesInv, QuietInv
<1>9. PlacesInv' /\ TasksInv' /\ QuietInv' /\ CountInv' /\ LostInv'
  BY <1>5, <1>6, <1>7, <1>8, ListsStay
<1>10. AbortsInv' /\ EngineInv' /\ EventsInv'
  BY <1>1, <1>5, <1>7 DEF QueuesInv, AbortsInv, EngineInv, EventsInv, engineVars, Settled,
                          NoEvent
<1>11. ProcessInv'
  BY <1>4, <1>5, <1>7 DEF QueuesInv, ProcessInv
<1>. QED
  BY <1>9, <1>10, <1>11 DEF QueuesInv

(* A process is over: it was active, and AppInstance forgets no other one. *)
LEMMA ProcessFinishedQueues ==
  ASSUME TypesInv, ModeInv, QueuesInv, NEW j \in Jobs, OnBackgroundRenderProcessFinished(j)
  PROVE  QueuesInv'
<1> DEFINE s == Frame("stopped", j)
           rest == <<Frame("stopped", j)>> \o todo
<1>1. /\ proc[j] \in {"over", "crashed"} /\ ~ended[j]
      /\ StartNext(WriterOf[j], rest)
      /\ rendered' = IF proc[j] = "over" /\ ~abortSeen[j] THEN rendered \cup {j}
                                                          ELSE rendered
      /\ UNCHANGED <<engineVars, task, events, userVars>>
  BY DEF OnBackgroundRenderProcessFinished
<1>2. /\ EndOfProcess(j)
      /\ \A k \in Jobs : k \notin Forgotten(j) \ Active' => proc'[k] = proc[k]
  BY ProcessFinished
<1>3. mode = "Process" /\ j \in Active
  BY <1>1 DEF ModeInv, NoProcess, QueuesInv, ProcessInv
<1>4. events = <<>> /\ \A f \in Range(todo) : f.step \in {"start", "stopped"}
  BY <1>3 DEF ModeInv, NoEngine
<1>5. /\ rest \in Seq(FrameRecords) /\ LeftOfCalls(rest, j)
      /\ Range(rest) = {s} \cup Range(todo) /\ s.job = j
  <2>1. todo \in Seq(FrameRecords) /\ IsInjective(todo)
    BY DEF TypesInv, MainTypes, QueuesInv, PlacesInv
  <2>2. \A f \in Range(todo) : WriterOf[f.job] # WriterOf[j]
    BY <1>3, <1>4 DEF QueuesInv, PlacesInv, Apart
  <2>. QED
    BY <1>3, <2>1, <2>2, TaskToTell DEF QueuesInv
<1>6. UNCHANGED <<task, queuing, everUnqueued, engine, requests, events, mode, asked,
                  canceled>>
  BY <1>1 DEF engineVars, userVars
<1> HIDE DEF s, rest
<1>7. /\ PlacesInv' /\ TasksInv' /\ QuietInv' /\ CountInv'
      /\ Active' = Active \ {j}
      /\ \A f \in Range(todo') : f \in Range(rest) \/ f.step = "start"
      /\ Range(rest) \subseteq Range(todo')
      /\ Queued \subseteq Queued' \cup {f.job : f \in Range(todo')}
  BY <1>1, <1>3, <1>5, <1>6, RenderIsOver DEF QueuesInv
<1>8. \A k \in Jobs : proc'[k] = proc[k]
  <2>1. \A k \in Forgotten(j) : k \in Active /\ k # j
    BY DEF Forgotten, Active
  <2>. QED
    BY <1>2, <1>7, <2>1
<1>9. rendered \subseteq rendered'
  BY <1>1
<1>10. Settled(j)' \/ proc'[j] = "crashed"
  <2>1. abortSeen[j] => j \in canceled
    BY DEF QueuesInv, ProcessInv
  <2>. QED
    BY <1>1, <1>6, <1>8, <2>1 DEF Settled
<1>11. LostInv'
  <2>1. /\ \A f \in Range(todo) : f \in Range(rest) \/ f.job = j
        /\ \A f \in Range(rest) : f.step = "stopped" => f \in Range(todo) \/ f.job = j
    BY <1>5
  <2>. QED
    BY <1>5, <1>6, <1>7, <1>8, <1>9, <1>10, <2>1, NothingLostAtEnd DEF QueuesInv
<1>12. AbortsInv' /\ EngineInv'
  BY <1>1, <1>3, <1>6, <1>7, <1>9, OthersKeepRenders
<1>13. EventsInv'
  <2>1. Range(events) = {}
    BY <1>4 DEF Range
  <2>. QED
    BY <1>6, <2>1 DEF QueuesInv, EventsInv
<1>14. ProcessInv'
  <2>1. /\ ended' = Set(ended, j, TRUE) /\ toGui' = Set(toGui, j, <<>>)
        /\ aborts' = Set(aborts, j, 0) /\ UNCHANGED <<abortSeen, earlyCancel>>
    BY <1>2 DEF EndOfProcess, ForgetPipes
  <2>2. PipeTypes
    BY DEF TypesInv
  <2>3. /\ ended'[j] /\ toGui'[j] = <<>> /\ ~(aborts'[j] > 0)
        /\ \A k \in Jobs \ {j} : /\ ended'[k] = ended[k] /\ toGui'[k] = toGui[k]
                                 /\ aborts'[k] = aborts[k]
    BY <2>1, <2>2 DEF Set, PipeTypes
  <2>. QED
    BY <1>1, <1>6, <1>7, <1>8, <2>1, <2>3 DEF QueuesInv, ProcessInv
<1>. QED
  BY <1>7, <1>11, <1>12, <1>13, <1>14 DEF QueuesInv

(* What a step of a background process does to it.                         *)
LEMMA StepOfProcess ==
  ASSUME PipeTypes, ProcessInv, NEW j \in Jobs, LinesAreInOrder(j),
         BackgroundStep(j) \/ ChannelStep(j)
  PROVE  /\ ended' = ended /\ proc[j] # "none" /\ ~ended[j]
         /\ proc'[j] \notin {"none", "starting", "failed", "connect"} \/ toGui'[j] = <<>>
         /\ proc'[j] # "dead" /\ (proc[j] = "crashed" => proc'[j] = "crashed")
         /\ abortSeen'[j] => abortSeen[j] \/ aborts[j] > 0
         /\ earlyCancel' = earlyCancel /\ (aborts'[j] > 0 => aborts[j] > 0)
         /\ \A k \in Jobs \ {j} : /\ proc'[k] = proc[k] /\ toGui'[k] = toGui[k]
                                  /\ abortSeen'[k] = abortSeen[k] /\ aborts'[k] = aborts[k]
<1>1. /\ ended[j] => proc[j] \in {"over", "crashed"}
      /\ proc[j] \in {"none", "starting", "failed", "connect"} => toGui[j] = <<>>
      /\ proc[j] # "dead" /\ (proc[j] = "none" => channel[j] = "off")
  BY DEF ProcessInv, LinesAreInOrder
<1>2. CASE ProcessStarts(j)
  BY <1>1, <1>2 DEF ProcessStarts, ProcessMove, Set, PipeTypes, pipeVars
<1>3. CASE Announce(j)
  BY <1>1, <1>3 DEF Announce, WriteLine, ProcessMove, Set, PipeTypes
<1>4. CASE EndOfWait(j) \/ LoadProject(j)
  BY <1>1, <1>4 DEF EndOfWait, LoadProject, ProcessMove, Set, PipeTypes, pipeVars
<1>5. CASE RenderingStarts(j)
  BY <1>1, <1>5 DEF RenderingStarts, WriteLine, ProcessMove, Set, PipeTypes
<1>6. CASE RenderFrame(j)
  BY <1>1, <1>6 DEF RenderFrame, WriteLine, Set, PipeTypes
<1>7. CASE RenderingEnds(j)
  BY <1>1, <1>7 DEF RenderingEnds, WriteLine, ProcessMove, Set, PipeTypes
<1>8. CASE Exit(j) \/ AskChannelToQuit(j) \/ TestMustQuit(j)
  BY <1>1, <1>8 DEF Exit, AskChannelToQuit, TestMustQuit, ProcessMove, Set, PipeTypes,
                    pipeVars
<1>9. CASE Crash(j)
  BY <1>1, <1>9 DEF Crash, ProcessMove, Set, PipeTypes, pipeVars
<1>10. CASE CrashWithoutPipe(j)
  BY <1>1, <1>10 DEF CrashWithoutPipe, Lives, ProcessMove, Set, PipeTypes, pipeVars
<1>11. CASE ReceiveAbort(j)
  BY <1>1, <1>11 DEF ReceiveAbort, Lives, Set, PipeTypes
<1>12. CASE ChannelQuits(j)
  BY <1>1, <1>12 DEF ChannelQuits, Lives, Set, PipeTypes
<1>. QED
  BY <1>2, <1>3, <1>4, <1>5, <1>6, <1>7, <1>8, <1>9, <1>10, <1>11, <1>12
     DEF BackgroundStep, ChannelStep

(* A background process at work is active, and its GUI stays as it is.     *)
LEMMA BackgroundQueues ==
  ASSUME TypesInv, LinesInv, QueuesInv, NEW j \in Jobs, InBackground(j)
  PROVE  QueuesInv'
<1>1. /\ BackgroundStep(j) \/ ChannelStep(j)
      /\ UNCHANGED <<queueVars, engineVars, guiVars, userVars, rendered>>
  BY DEF InBackground
<1>2. /\ ended' = ended /\ proc[j] # "none" /\ ~ended[j]
      /\ proc'[j] \notin {"none", "starting", "failed", "connect"} \/ toGui'[j] = <<>>
      /\ proc'[j] # "dead" /\ (proc[j] = "crashed" => proc'[j] = "crashed")
      /\ abortSeen'[j] => abortSeen[j] \/ aborts[j] > 0
      /\ earlyCancel' = earlyCancel /\ (aborts'[j] > 0 => aborts[j] > 0)
      /\ \A k \in Jobs \ {j} : /\ proc'[k] = proc[k] /\ toGui'[k] = toGui[k]
                               /\ abortSeen'[k] = abortSeen[k] /\ aborts'[k] = aborts[k]
  BY <1>1, StepOfProcess DEF TypesInv, QueuesInv, LinesInv
<1>3. UNCHANGED <<renderQueue, activeRenders, task, events, todo, requests, late, engine,
                  current, abortRequested, mode, queuing, asked, canceled, everUnqueued,
                  rendered>>
  BY <1>1 DEF queueVars, engineVars, guiVars, userVars
<1>4. Queued' = Queued /\ Active' = Active
  BY <1>3 DEF Queued, Active
<1>5. PlacesInv' /\ TasksInv' /\ QuietInv' /\ CountInv'
  BY <1>3, <1>4 DEF QueuesInv, PlacesInv, TasksInv, QuietInv, CountInv, Live, OfTask, Quiet,
                    NoEvent
<1>6. AbortsInv' /\ EngineInv' /\ EventsInv'
  BY <1>3, <1>4 DEF QueuesInv, AbortsInv, EngineInv, EventsInv, Settled, NoEvent
<1>7. ProcessInv'
  BY <1>2, <1>3, <1>4 DEF QueuesInv, ProcessInv
<1>8. LostInv'
  <2>1. \A k \in Jobs : proc[k] = "crashed" => proc'[k] = "crashed"
    BY <1>2
  <2>2. \A k : HasPlace(k) => HasPlace(k)'
    BY <1>3, <1>4, <2>1 DEF HasPlace
  <2>3. NoRequestLost'
    BY <1>3, <2>2, NothingLost DEF QueuesInv, LostInv
  <2>4. \A f \in Range(todo) : f.job \in Jobs
    BY PlacesAreOfJobs
  <2>. QED
    BY <1>3, <2>1, <2>3, <2>4 DEF QueuesInv, LostInv, Settled
<1>. QED
  BY <1>5, <1>6, <1>7, <1>8 DEF QueuesInv

(* What a step of the engine of w leaves alone, and what it may change: w  *)
(* has something to render, so nothing of it waits or is about to start.   *)
OnlyEngine(w) ==
    /\ ~Quiet(w)
    /\ \A v \in Writers \ {w} :
          /\ requests'[v] = requests[v] /\ late'[v] = late[v] /\ engine'[v] = engine[v]
          /\ current'[v] = current[v] /\ abortRequested'[v] = abortRequested[v]
    /\ \A e \in Range(events') : e \in Range(events) \/ e.writer = w
    /\ rendered \subseteq rendered'
    /\ UNCHANGED <<renderQueue, activeRenders, task, todo, mode, queuing, asked, canceled,
                   everUnqueued, proc, ended, toGui, earlyCancel, aborts, abortSeen>>
LEMMA EngineAtWork ==
  ASSUME TypesInv, NEW w \in Writers, EngineStep(w)
  PROVE  OnlyEngine(w)
<1>1. UNCHANGED <<renderQueue, activeRenders, task, todo, mode, queuing, asked, canceled,
                  everUnqueued, proc, ended, toGui, earlyCancel, aborts, abortSeen>>
  BY DEF EngineStep, processVars, pipeVars, queueVars, userVars
<1>2. EngineTypes /\ RequestInHand(w)
  BY DEF TypesInv, RequestsInHand
<1>3. CASE BeginTask(w)
  BY <1>1, <1>2, <1>3 DEF BeginTask, RequestInHand, OnlyEngine, Quiet, Set, EngineTypes
<1>4. CASE EndTask(w) \/ NotifyRenderFinished(w)
  BY <1>1, <1>2, <1>4 DEF EndTask, NotifyRenderFinished, OnlyEngine, Quiet, Set, EngineTypes
<1>5. CASE ReportFinished(w)
  <2>1. \A e \in Range(events') : e \in Range(events) \/ e.writer = w
    BY <1>5, EventsQueued
  <2>. QED
    BY <1>1, <1>2, <1>5, <2>1 DEF ReportFinished, OnlyEngine, Quiet, Set, EngineTypes
<1>6. CASE PopRequest(w)
  <2>1. \A v \in Writers \ {w} : requests'[v] = requests[v] /\ late'[v] = late[v]
    BY <1>6, PopTypes
  <2>2. /\ engine[w] = "notified" /\ engine' = Set(engine, w, "reset")
        /\ UNCHANGED <<current, abortRequested, rendered, events>>
    BY <1>6 DEF PopRequest
  <2>. QED
    BY <1>1, <1>2, <2>1, <2>2 DEF OnlyEngine, Quiet, Set, EngineTypes
<1>7. CASE ResetAbort(w)
  <2>1. /\ engine[w] = "reset" /\ engine' = Set(engine, w, "idle")
        /\ current' = Set(current, w, NoJob)
        /\ late' = late \/ late' = Set(late, w, <<>>)
        /\ abortRequested' = Set(abortRequested, w, FALSE)
        /\ UNCHANGED <<requests, rendered, events>>
    BY <1>7 DEF ResetAbort
  <2>. QED
    BY <1>1, <1>2, <2>1 DEF OnlyEngine, Quiet, Set, EngineTypes
<1>. QED
  BY <1>3, <1>4, <1>5, <1>6, <1>7 DEF EngineStep

(* What an engine goes through with its request.                           *)
EngineKept(w) ==
    /\ late'[w] = <<>>
    /\ abortRequested'[w] => engine'[w] # "idle" /\ mode = "Gui"
    /\ mode = "Gui" =>
          /\ Len(requests'[w]) <= 1
          /\ requests'[w] # <<>> /\ engine'[w] \in {"idle", "render", "report", "reset"} =>
                /\ Head(requests'[w]) \in Active
                /\ NoEvent(w)'
          /\ engine'[w] = "render" /\ abortRequested'[w] => current'[w] \in canceled
          /\ engine'[w] = "report" => current'[w] \in rendered' \cup canceled
    /\ IsInjective(events')
    /\ \A e \in Range(events') : e.to = "app" => \E j \in Active : /\ WriterOf[j] = e.writer
                                                                   /\ Settled(j)
LEMMA RequestGoesOn ==
  ASSUME TypesInv, QueuesInv, NEW w \in Writers, EngineStep(w)
  PROVE  EngineKept(w)
<1>1. EngineTypes /\ RequestInHand(w)
  BY DEF TypesInv, RequestsInHand
<1>2. /\ late[w] = <<>>
      /\ abortRequested[w] => engine[w] # "idle" /\ mode = "Gui"
      /\ mode = "Gui" => Len(requests[w]) <= 1
  BY DEF QueuesInv, AbortsInv
<1>3. mode = "Gui" =>
        /\ requests[w] # <<>> /\ engine[w] \in {"idle", "render", "report", "reset"} =>
              Head(requests[w]) \in Active /\ NoEvent(w)
        /\ engine[w] = "render" /\ abortRequested[w] => current[w] \in canceled
        /\ engine[w] = "report" => Settled(current[w])
  BY DEF QueuesInv, EngineInv
<1>4. /\ IsInjective(events)
      /\ \A e \in Range(events) : e.to = "app" =>
            \E j \in Active : WriterOf[j] = e.writer /\ Settled(j)
  BY DEF QueuesInv, EventsInv
<1>5. CASE BeginTask(w)
  <2>1. /\ engine[w] = "idle" /\ engine'[w] = "render" /\ requests[w] # <<>>
        /\ UNCHANGED <<requests, late, abortRequested, events>>
    BY <1>1, <1>5 DEF BeginTask, RequestInHand, Set, EngineTypes
  <2>2. NoEvent(w)' <=> NoEvent(w)
    BY <2>1 DEF NoEvent
  <2>. QED
    BY <1>2, <1>3, <1>4, <2>1, <2>2 DEF EngineKept
<1>6. CASE EndTask(w)
  <2>1. /\ engine[w] = "render" /\ engine'[w] = "report"
        /\ abortRequested[w] \/ current[w] \in rendered'
        /\ UNCHANGED <<requests, late, abortRequested, events, current>>
    BY <1>1, <1>6 DEF EndTask, Set, EngineTypes
  <2>2. NoEvent(w)' <=> NoEvent(w)
    BY <2>1 DEF NoEvent
  <2>. QED
    BY <1>2, <1>3, <1>4, <2>1, <2>2 DEF EngineKept
<1>7. CASE ReportFinished(w)
  <2>1. /\ engine[w] = "report" /\ engine'[w] = "notify"
        /\ UNCHANGED <<requests, late, abortRequested, current>>
    BY <1>1, <1>7 DEF ReportFinished, Set, EngineTypes
  <2>2. /\ mode # "Gui" => events' = events
        /\ \A e \in Range(events') : e \in Range(events) \/ e.writer = w
        /\ NoEvent(w) => IsInjective(events')
    BY <1>4, <1>7, EventsQueued
  <2>3. CASE mode = "Gui"
    <3>1. requests[w] # <<>> /\ current[w] = Head(requests[w])
      BY <1>1, <2>1 DEF RequestInHand
    <3>2. current[w] \in Active /\ Settled(current[w]) /\ NoEvent(w)
      BY <1>3, <2>1, <2>3, <3>1
    <3>3. WriterOf[current[w]] = w
      BY <1>1, <3>1, HeadAndTail DEF EngineTypes, JobsOf
    <3>. QED
      BY <1>2, <1>4, <2>1, <2>2, <2>3, <3>2, <3>3 DEF EngineKept
  <2>4. CASE mode # "Gui"
    BY <1>2, <1>4, <2>1, <2>2, <2>4 DEF EngineKept
  <2>. QED
    BY <2>3, <2>4
<1>8. CASE NotifyRenderFinished(w)
  <2>1. /\ engine[w] = "notify" /\ engine'[w] = "notified"
        /\ UNCHANGED <<requests, late, abortRequested, current, events>>
    BY <1>1, <1>8 DEF NotifyRenderFinished, Set, EngineTypes
  <2>. QED
    BY <1>2, <1>4, <2>1 DEF EngineKept
<1>9. CASE PopRequest(w)
  <2>1. /\ engine'[w] = "reset" /\ UNCHANGED <<abortRequested, events>>
    BY <1>1, <1>9 DEF PopRequest, Set, EngineTypes
  <2>2. /\ requests[w] # <<>> /\ requests'[w] = Tail(requests[w])
        /\ late'[w] = <<>> \/ (abortRequested[w] /\ requests'[w] # <<>>)
    BY <1>9, PopTypes
  <2>3. mode = "Gui" => requests'[w] = <<>> /\ Len(requests'[w]) <= 1
    <3>1. requests[w] \in Seq(Jobs)
      BY <1>1 DEF EngineTypes
    <3>2. Len(Tail(requests[w])) = Len(requests[w]) - 1 /\ Tail(requests[w]) \in Seq(Jobs)
      BY <2>2, <3>1, HeadTailProperties
    <3>3. Len(requests[w]) <= 1 => Tail(requests[w]) = <<>>
      <4>1. Len(Tail(requests[w])) \in Nat /\ Len(requests[w]) \in Nat
        BY <3>1, <3>2, LenProperties
      <4>2. Len(requests[w]) <= 1 => Len(Tail(requests[w])) = 0
        <5> DEFINE m == Len(requests[w])
                   n == Len(Tail(requests[w]))
        <5>1. m \in Nat /\ n \in Nat /\ n = m - 1
          BY <3>2, <4>1
        <5> HIDE DEF m, n
        <5>2. m <= 1 => n = 0
          BY <5>1
        <5>. QED
          BY <5>2 DEF m, n
      <4>. QED
        BY <3>2, <4>2, EmptySeq
    <3>. QED
      BY <1>2, <2>2, <3>3
  <2>4. late'[w] = <<>>
    BY <1>2, <2>2, <2>3
  <2>. QED
    BY <1>2, <1>4, <2>1, <2>3, <2>4 DEF EngineKept
<1>10. CASE ResetAbort(w)
  <2>1. /\ engine[w] = "reset" /\ engine'[w] = "idle" /\ ~abortRequested'[w]
        /\ late'[w] = <<>> /\ UNCHANGED <<requests, events>>
    BY <1>1, <1>2, <1>10 DEF ResetAbort, Set, EngineTypes
  <2>2. NoEvent(w)' <=> NoEvent(w)
    BY <2>1 DEF NoEvent
  <2>. QED
    BY <1>2, <1>3, <1>4, <2>1, <2>2 DEF EngineKept
<1>. QED
  BY <1>5, <1>6, <1>7, <1>8, <1>9, <1>10 DEF EngineStep

(* An engine goes on with its render.                                      *)
LEMMA EngineQueues ==
  ASSUME TypesInv, QueuesInv, NEW w \in Writers, EngineStep(w)
  PROVE  QueuesInv'
<1>1. OnlyEngine(w) /\ EngineKept(w)
  BY EngineAtWork, RequestGoesOn
<1>2. UNCHANGED <<renderQueue, activeRenders, task, todo, mode, queuing, asked, canceled,
                  everUnqueued, proc, ended, toGui, earlyCancel, aborts, abortSeen>>
  BY <1>1 DEF OnlyEngine
<1>3. /\ Queued' = Queued /\ Active' = Active /\ rendered \subseteq rendered'
      /\ \A k : (Settled(k) => Settled(k)') /\ (OfTask(k)' <=> OfTask(k))
      /\ \A v : Live(v)' <=> Live(v)
  BY <1>1, <1>2 DEF OnlyEngine, Queued, Active, Settled, OfTask, Live
<1>4. \A v \in Writers : v # w /\ NoEvent(v) => NoEvent(v)'
  BY <1>1 DEF OnlyEngine, NoEvent
<1>5. \A v \in Writers : v # w /\ Quiet(v) => Quiet(v)'
  BY <1>1, <1>4 DEF OnlyEngine, Quiet
<1>6. /\ \A k \in Queued : Quiet(WriterOf[k])'
      /\ \A f \in Range(todo') : f.step # "stopped" => Quiet(WriterOf[f.job])'
  <2>1. /\ \A k \in Queued : WriterOf[k] # w
        /\ \A f \in Range(todo) : f.step # "stopped" => WriterOf[f.job] # w
    BY <1>1 DEF OnlyEngine, QueuesInv, QuietInv
  <2>. QED
    BY <1>2, <1>5, <2>1, OthersAreQuiet
<1>7. PlacesInv' /\ TasksInv' /\ QuietInv' /\ CountInv' /\ LostInv'
  <2>1. /\ IsInjective(todo') /\ Range(todo') = Range(todo)
        /\ IsInjective(renderQueue') /\ IsInjective(activeRenders')
    BY <1>2 DEF QueuesInv, PlacesInv
  <2>2. \A k \in Queued : Live(WriterOf[k])'
    BY <1>3 DEF QueuesInv, TasksInv
  <2>. QED
    BY <1>2, <1>3, <1>6, <2>1, <2>2, ListsStay
<1>8. AbortsInv'
  <2>1. ASSUME NEW v \in Writers
        PROVE  /\ late'[v] = <<>>
               /\ abortRequested'[v] => engine'[v] # "idle" /\ mode = "Gui"
               /\ mode = "Gui" => Len(requests'[v]) <= 1
    <3>1. CASE v = w
      BY <1>1, <3>1 DEF EngineKept
    <3>2. CASE v # w
      BY <1>1, <3>2 DEF OnlyEngine, QueuesInv, AbortsInv
    <3>. QED
      BY <3>1, <3>2
  <2>. QED
    BY <1>2, <2>1 DEF AbortsInv
<1>9. EngineInv'
  <2>1. ASSUME NEW v \in Writers, mode = "Gui"
        PROVE  /\ requests'[v] # <<>> /\ engine'[v] \in {"idle", "render", "report", "reset"}
                    => Head(requests'[v]) \in Active /\ NoEvent(v)'
               /\ engine'[v] = "render" /\ abortRequested'[v] => current'[v] \in canceled
               /\ engine'[v] = "report" => current'[v] \in rendered' \cup canceled
    <3>1. CASE v = w
      BY <1>1, <2>1, <3>1 DEF EngineKept
    <3>2. CASE v # w
      BY <1>1, <1>3, <1>4, <2>1, <3>2 DEF OnlyEngine, QueuesInv, EngineInv, Settled
    <3>. QED
      BY <3>1, <3>2
  <2>. QED
    BY <1>2, <1>3, <2>1 DEF EngineInv, Settled
<1>10. EventsInv'
  BY <1>1, <1>3 DEF EngineKept, EventsInv
<1>11. ProcessInv'
  BY <1>2, <1>3 DEF QueuesInv, ProcessInv
<1>. QED
  BY <1>7, <1>8, <1>9, <1>10, <1>11 DEF QueuesInv

(* A background application has no queue: its requests wait for the engine *)
(* of their writer, which nobody aborts.                                   *)
LEMMA BlockingQueues ==
  ASSUME TypesInv, ModeInv, QueuesInv, mode = "Blocking",
         BlockingMap \/ \E j \in Jobs : BlockingStep(j)
  PROVE  QueuesInv'
<1>1. /\ NoQueue /\ NoProcess
      /\ UNCHANGED <<processVars, queueVars, guiVars, mode, queuing, everUnqueued,
                     canceled>>
  BY DEF ModeInv, BlockingMap, BlockingStep, BlockingRender, WaitNotRunning, userVars
<1>2. /\ renderQueue = <<>> /\ activeRenders = <<>> /\ events = <<>> /\ todo = <<>>
      /\ UNCHANGED <<renderQueue, activeRenders, events, todo>>
  BY <1>1 DEF NoQueue, queueVars, guiVars
<1>3. /\ Queued' = {} /\ Active' = {} /\ Range(todo') = {} /\ Range(events') = {}
      /\ Queued = {} /\ Active = {}
  BY <1>2 DEF Queued, Active, Range
<1>4. PlacesInv' /\ TasksInv' /\ QuietInv'
  BY <1>2, <1>3 DEF QueuesInv, PlacesInv, TasksInv, QuietInv, OnePerWriter, Apart
<1>5. /\ engine' = engine /\ abortRequested' = abortRequested
      /\ \A w \in Writers : late'[w] = late[w] \/ abortRequested[w]
  <2>1. CASE UNCHANGED engineVars
    BY <2>1 DEF engineVars
  <2>2. CASE \E j \in Jobs : PushRequest(j)
    <3> PICK j \in Jobs : PushRequest(j)
      BY <2>2
    <3>1. PushEffect(j)
      BY RequestPushed DEF TypesInv
    <3>. QED
      BY <3>1 DEF PushEffect
  <2>. QED
    BY <2>1, <2>2 DEF BlockingMap, BlockingStep, BlockingRender, WaitNotRunning
<1>6. AbortsInv' /\ EngineInv'
  <2>1. \A w \in Writers : ~abortRequested[w] /\ late[w] = <<>>
    BY <1>1 DEF NoQueue, QueuesInv, AbortsInv
  <2>. QED
    BY <1>1, <1>5, <2>1 DEF AbortsInv, EngineInv
<1>7. EventsInv' /\ CountInv' /\ LostInv'
  BY <1>1, <1>2, <1>3 DEF QueuesInv, EventsInv, CountInv, LostInv, NoRequestLost
<1>8. ProcessInv'
  BY <1>1, <1>3 DEF QueuesInv, ProcessInv, NoProcess, processVars, pipeVars
<1>. QED
  BY <1>4, <1>6, <1>7, <1>8 DEF QueuesInv

(* Every step keeps the queues: one lemma for each action above.           *)
LEMMA QueuesPreserved ==
  ASSUME Overlap = FALSE, TypesInv, ModeInv, LinesInv, QueuesInv, [Next]_vars
  PROVE  QueuesInv'
<1>1. CASE UNCHANGED vars
  <2>1. UNCHANGED <<renderQueue, activeRenders, task, events, todo, requests, late, engine,
                    current, abortRequested, mode, queuing, asked, canceled, everUnqueued,
                    rendered, processVars>>
    BY <1>1 DEF vars, queueVars, engineVars, guiVars, userVars
  <2>2. Queued' = Queued /\ Active' = Active
    BY <2>1 DEF Queued, Active
  <2>3. PlacesInv' /\ TasksInv' /\ QuietInv' /\ CountInv'
    BY <2>1, <2>2 DEF QueuesInv, PlacesInv, TasksInv, QuietInv, CountInv, Live, OfTask,
                      Quiet, NoEvent
  <2>4. AbortsInv' /\ EngineInv' /\ EventsInv'
    BY <2>1, <2>2 DEF QueuesInv, AbortsInv, EngineInv, EventsInv, Settled, NoEvent
  <2>5. ProcessInv' /\ LostInv'
    BY <2>1, <2>2 DEF QueuesInv, ProcessInv, LostInv, NoRequestLost, Settled, processVars,
                      pipeVars
  <2>. QED
    BY <2>3, <2>4, <2>5 DEF QueuesInv
<1>2. CASE Next
  <2>1. /\ mode \in {"Gui", "Process", "Blocking"}
        /\ mode = "Process" => UserChange \/ ProcessModeStep
        /\ mode = "Gui" => UserChange \/ GuiModeStep
        /\ mode = "Blocking" => BlockingModeStep
    BY <1>2, StepOfMode
  <2>2. UserChange => QueuesInv'
    BY RequestQueues, CancelQueues, RestartQueues, UnqueueQueues DEF UserChange
  <2>3. ProcessModeStep => QueuesInv'
    <3>1. (\E j \in Jobs : OnBackgroundRenderProcessFinished(j)) => QueuesInv'
      BY ProcessFinishedQueues
    <3>2. (\E j \in Jobs : OnSocket(j)) => QueuesInv'
      BY SocketQueues
    <3>3. (\E j \in Jobs : InBackground(j)) => QueuesInv'
      BY BackgroundQueues
    <3>. QED
      BY <3>1, <3>2, <3>3, StartQueues, StopQueues DEF ProcessModeStep
  <2>4. GuiModeStep => QueuesInv'
    <3>1. (\E w \in Writers : EngineStep(w)) => QueuesInv'
      BY EngineQueues
    <3>. QED
      BY <3>1, StartQueues, PushQueues, StopQueues, AcceptQueues, RefuseQueues,
         FinishedQueues, EngineStoppedQueues DEF GuiModeStep
  <2>5. mode = "Blocking" /\ BlockingModeStep => QueuesInv'
    <3>1. (\E w \in Writers : EngineStep(w)) => QueuesInv'
      BY EngineQueues
    <3>2. mode = "Blocking" /\ (BlockingMap \/ \E j \in Jobs : BlockingStep(j)) => QueuesInv'
      BY BlockingQueues
    <3>. QED
      BY <3>1, <3>2, UnqueueQueues DEF BlockingModeStep
  <2>. QED
    BY <2>1, <2>2, <2>3, <2>4, <2>5
<1>. QED
  BY <1>1, <1>2

(* At first, no job is anywhere.                                           *)
LEMMA InitQueues == Init => QueuesInv
<1> SUFFICES ASSUME Init PROVE QueuesInv
  OBVIOUS
<1>1. /\ Queued = {} /\ Active = {} /\ Range(todo) = {} /\ Range(events) = {}
      /\ IsInjective(<<>>)
  BY DEF Init, Queued, Active, Range, IsInjective
<1>2. PlacesInv /\ TasksInv /\ QuietInv
  BY <1>1 DEF Init, PlacesInv, TasksInv, QuietInv, OnePerWriter, Apart
<1>3. AbortsInv /\ EngineInv /\ EventsInv
  BY <1>1 DEF Init, AbortsInv, EngineInv, EventsInv
<1>4. ProcessInv
  <2>1. \A j \in Jobs : /\ proc[j] = "none" /\ ~ended[j] /\ toGui[j] = <<>>
                        /\ ~earlyCancel[j] /\ aborts[j] = 0 /\ ~abortSeen[j]
    BY DEF Init, ProcessInit
  <2>2. ASSUME NEW j \in Jobs
        PROVE  /\ ~(aborts[j] > 0) /\ proc[j] \notin {"dead"}
               /\ proc[j] # "none" /\ ~ended[j] => j \in Active
               /\ ended[j] => proc[j] \in {"over", "crashed"} /\ toGui[j] = <<>>
    BY <2>1
  <2>. QED
    BY <2>1, <2>2, Zenon DEF ProcessInv
<1>5. CountInv
  BY <1>1 DEF Init, CountInv
<1>6. LostInv
  BY <1>1 DEF Init, LostInv, NoRequestLost
<1>. QED
  BY <1>2, <1>3, <1>4, <1>5, <1>6 DEF QueuesInv

(* All that is known of the renders, when none is restarted before it has  *)
(* stopped.                                                                *)
RendersInv == TypesInv /\ ModeInv /\ LinesInv /\ QueuesInv
LEMMA RendersInvariant ==
  ASSUME Overlap = FALSE
  PROVE  Spec => []RendersInv
<1>1. Init => RendersInv
  <2>1. ProcessInit =>
          \A j \in Jobs : proc[j] = "none" /\ channel[j] = "off" /\ toGui[j] = <<>>
    BY DEF ProcessInit
  <2>2. Init => LinesInv
    BY <2>1 DEF Init, LinesInv, LinesAreInOrder
  <2>. QED
    BY <2>2, InitTypes, InitModes, InitQueues DEF RendersInv
<1>2. RendersInv /\ [Next]_vars => RendersInv'
  <2> SUFFICES ASSUME RendersInv, [Next]_vars PROVE RendersInv'
    OBVIOUS
  <2>1. TypesInv /\ ModeInv /\ LinesInv /\ QueuesInv
    BY DEF RendersInv
  <2>2. TypesInv' /\ ModeInv'
    BY <2>1, TypesPreserved, ModePreserved
  <2>3. LinesInv'
    <3>1. ProcessStep /\ PipeTypes
      BY <2>1, CancelGoesToProcess DEF TypesInv
    <3>. QED
      BY <2>1, <3>1, ProcessesInOrder
  <2>4. QueuesInv'
    BY <2>1, QueuesPreserved
  <2>. QED
    BY <2>2, <2>3, <2>4 DEF RendersInv
<1>. QED
  BY <1>1, <1>2, PTL DEF Spec

(* A set whose elements are all equal has at most one.                     *)
LEMMA AtMostOne ==
  ASSUME NEW S, \A a, b \in S : a = b
  PROVE  Cardinality(S) <= 1
<1>1. CASE S = {}
  BY <1>1, FS_EmptySet
<1>2. CASE S # {}
  <2> PICK a \in S : TRUE
    BY <1>2
  <2>1. S = {a}
    OBVIOUS
  <2>. QED
    BY <2>1, FS_Singleton
<1>. QED
  BY <1>1, <1>2

(* While renders are queued, they run one at a time, in this process or in *)
(* others, and the request of each has its task: when no render is         *)
(* restarted before it has stopped.                                        *)
THEOREM RendersTakeTurns ==
  ASSUME Overlap = FALSE
  PROVE  Spec => []QueueInv
<1>1. RendersInv => QueueInv
  <2> SUFFICES ASSUME RendersInv PROVE QueueInv
    OBVIOUS
  <2>1. TypesInv /\ ModeInv /\ QueuesInv
    BY DEF RendersInv
  <2>2. RequestHasTask
    BY <2>1 DEF RequestHasTask, TypesInv, RequestsInHand, RequestInHand, QueuesInv,
                AbortsInv, FirstRequest
  <2>3. ASSUME ~everUnqueued, mode # "Blocking"
        PROVE  /\ Cardinality({w \in Writers : engine[w] = "render"}) <= 1
               /\ Cardinality({j \in Jobs : proc[j] = "render"}) <= 1
    <3>1. \A j, k \in Active : j = k
      BY <2>1, <2>3 DEF QueuesInv, CountInv
    <3>2. ASSUME NEW w \in Writers, engine[w] = "render"
          PROVE  Head(requests[w]) \in Active /\ WriterOf[Head(requests[w])] = w
      <4>1. mode \in {"Gui", "Process", "Blocking"}
        BY <2>1 DEF TypesInv, MainTypes
      <4>2. mode = "Gui"
        BY <2>1, <2>3, <3>2, <4>1 DEF ModeInv, NoEngine
      <4>3. requests[w] # <<>>
        BY <2>1, <3>2 DEF TypesInv, RequestsInHand, RequestInHand
      <4>4. Head(requests[w]) \in JobsOf(w)
        BY <2>1, <4>3, HeadAndTail DEF TypesInv, EngineTypes
      <4>. QED
        BY <2>1, <3>2, <4>2, <4>3, <4>4 DEF QueuesInv, EngineInv, JobsOf
    <3>3. \A j \in Jobs : proc[j] = "render" => j \in Active
      BY <2>1 DEF QueuesInv, ProcessInv
    <3>4. \A v, w \in {x \in Writers : engine[x] = "render"} : v = w
      BY <3>1, <3>2
    <3>5. \A j, k \in {l \in Jobs : proc[l] = "render"} : j = k
      BY <3>1, <3>3
    <3>. QED
      BY <3>4, <3>5, AtMostOne
  <2>4. OneRenderAtATime
    BY <2>3 DEF OneRenderAtATime
  <2>5. TypeOK
    BY <2>1, TypesImplyTypeOK
  <2>. QED
    BY <2>2, <2>4, <2>5 DEF QueueInv
<1>. QED
  BY <1>1, RendersInvariant, PTL

(* A render that was requested and that nobody canceled waits, is active,  *)
(* is about to start, has been rendered, or was in a process that crashed. *)
THEOREM RequestsAreKept ==
  ASSUME Overlap = FALSE
  PROVE  Spec => []NoRequestLost
<1>1. RendersInv => NoRequestLost
  BY DEF RendersInv, QueuesInv, LostInv
<1>. QED
  BY <1>1, RendersInvariant, PTL
=============================================================================
