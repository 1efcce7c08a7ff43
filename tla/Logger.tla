-------------------------------- MODULE Logger --------------------------------
(***************************************************************************)
(* The asynchronous logger: LoggerImpl over common::Queue.  Any thread     *)
(* pushes messages; one worker waits on a condition variable, pops them    *)
(* oldest first and prints them; std::exit destroys the static logger,     *)
(* which shuts the worker down, joins it and flushes what is left.  exit   *)
(* is called by main, after a fatal message, or by the handlers for        *)
(* signals and std::terminate on whatever thread they run, the worker's    *)
(* own included; that thread never resumes its code, nor does it release   *)
(* what it holds.  What a handler does before it calls exit (it allocates  *)
(* and prints) is taken to come through.                                   *)
(* The main thread logs alone until fuse_main starts the threads that      *)
(* serve requests; before it does, it forks into the background, unless    *)
(* --foreground is given, and a fork takes no other thread along.          *)
(* One action is one access to mShutdown, mMutex, mCondVar, the queue or   *)
(* mLogFileMutex.  Nobody but main in SetLogFile keeps the last of these   *)
(* for longer than a write, and the worker and flush() hold mMutex while   *)
(* they write: their writes to the file are one step each.                 *)
(***************************************************************************)
EXTENDS Integers, Sequences

CONSTANTS
  Threads,      \* the threads that log
  Main,         \* the one that runs main
  Daemonize,    \* whether fuse_main forks: it does unless --foreground is given
  MaxMessages,  \* bound of the model: messages per thread
  ExitPoints,   \* where exit may catch a thread: subset of CallPhases
  Worker,       \* mThread
  Nobody        \* no thread

CallPhases == {"idle", "lock", "enqueue", "notify", "open"}
ExitPhases == {"shutdown", "join", "flush", "drain", "file", "sync", "flushed", "waits", "ended"}
WorkerPhases == {"check", "lock", "test", "block", "waiting", "relock", "body", "print", "file",
                 "joining", "waits", "exited", "gone"}

ASSUME LoggerAssumption ==
  /\ MaxMessages \in Nat
  /\ Main \in Threads
  /\ Daemonize \subseteq BOOLEAN
  /\ ExitPoints \subseteq CallPhases
  /\ Worker \notin Threads /\ Nobody \notin Threads \cup {Worker}

VARIABLES
  mQueue,         \* the deque, its back (the oldest message) first
  mMutex,         \* who holds mMutex
  mShutdown,
  mLogFileMutex,  \* who holds mLogFileMutex
  mLogFile,       \* whether the file is open
  pc,             \* each thread's place in push(), in SetLogFile() or in exit()
  worker,         \* the worker's place in run() or exit(); "waiting" is the wait set
  msg,            \* the message the worker popped and has not printed yet
  sent,           \* messages each thread has begun to push
  serving,        \* fuse_main has started the threads that serve requests
  exiter,         \* the thread that called exit first
  printed,        \* what reached the sink
  accepted,       \* history: all messages that were enqueued, in this order
  atExit,         \* history: how many of them when exit was called
  again           \* history: exit was called a second time

queueVars == <<mQueue, msg, printed, accepted>>
fileVars == <<mLogFileMutex, mLogFile>>
exitVars == <<mShutdown, exiter, atExit, again>>
logVars == <<queueVars, fileVars, exitVars, mMutex, pc, worker, sent, serving>>

Messages == Threads \X (1 .. MaxMessages)

LogInit ==
  /\ mQueue = <<>>
  /\ mMutex = Nobody
  /\ mShutdown = FALSE
  /\ mLogFileMutex = Nobody
  /\ mLogFile = FALSE
  /\ pc = [t \in Threads |-> "idle"]
  /\ worker = "check"
  /\ msg = <<>>
  /\ sent = [t \in Threads |-> 0]
  /\ serving = FALSE
  /\ exiter = Nobody
  /\ printed = <<>>
  /\ accepted = <<>>
  /\ atExit = 0
  /\ again = FALSE

Goto(t, phase) == pc' = [pc EXCEPT ![t] = phase]

\* condition_variable::notify_one wakes the worker if it is in the wait set.
NotifyOne == worker' = IF worker = "waiting" THEN "relock" ELSE worker

\* The process ends, and every thread with it.
ProcessEnds ==
  /\ pc' = [u \in Threads |-> "ended"]
  /\ worker' = "gone"

\* Main's fuse_main starts the other threads.  In the forked child there is
\* no worker, and whatever the worker held is held for good.  What a fork makes of
\* an exit that the worker has begun is left out.
Serve ==
  /\ ~ serving /\ pc[Main] = "idle" /\ exiter = Nobody
  /\ serving' = TRUE
  /\ \E forks \in Daemonize : worker' = IF forks THEN "gone" ELSE worker
  /\ UNCHANGED <<queueVars, fileVars, exitVars, mMutex, pc, sent>>

Running(t) == t = Main \/ serving

-----------------------------------------------------------------------------
\* Logger::SetLogFile, which main calls once, when it has read the arguments.
SetLogFile ==
  /\ ~ serving /\ pc[Main] = "idle" /\ ~ mLogFile /\ mLogFileMutex = Nobody
  /\ mLogFileMutex' = Main
  /\ Goto(Main, "open")
  /\ UNCHANGED <<queueVars, exitVars, mLogFile, mMutex, worker, sent, serving>>

OpenFile ==
  /\ pc[Main] = "open"
  /\ mLogFile' = TRUE
  /\ mLogFileMutex' = Nobody
  /\ Goto(Main, "idle")
  /\ UNCHANGED <<queueVars, exitVars, mMutex, worker, sent, serving>>

-----------------------------------------------------------------------------
\* A mutant: push() does not look at mShutdown.
PushUnchecked(t) ==
  /\ Running(t) /\ pc[t] = "idle" /\ sent[t] < MaxMessages
  /\ sent' = [sent EXCEPT ![t] = @ + 1]
  /\ Goto(t, "lock")
  /\ UNCHANGED <<queueVars, fileVars, exitVars, mMutex, worker, serving>>

\* push() looks at mShutdown without the lock and may turn the message away.
Push(t) ==
  /\ Running(t) /\ pc[t] = "idle" /\ sent[t] < MaxMessages
  /\ sent' = [sent EXCEPT ![t] = @ + 1]
  /\ Goto(t, IF mShutdown THEN "idle" ELSE "lock")
  /\ UNCHANGED <<queueVars, fileVars, exitVars, mMutex, worker, serving>>

\* A mutant: push() goes on without waiting for the mutex.
LockUnchecked(t) ==
  /\ pc[t] = "lock"
  /\ mMutex' = t
  /\ Goto(t, "enqueue")
  /\ UNCHANGED <<queueVars, fileVars, exitVars, worker, sent, serving>>

Lock(t) ==
  /\ pc[t] = "lock" /\ mMutex = Nobody
  /\ mMutex' = t
  /\ Goto(t, "enqueue")
  /\ UNCHANGED <<queueVars, fileVars, exitVars, worker, sent, serving>>

\* emplace_front, then the end of the locked scope.
Enqueue(t) ==
  /\ pc[t] = "enqueue"
  /\ mQueue' = Append(mQueue, <<t, sent[t]>>)
  /\ accepted' = Append(accepted, <<t, sent[t]>>)
  /\ mMutex' = Nobody
  /\ Goto(t, "notify")
  /\ UNCHANGED <<fileVars, exitVars, worker, msg, sent, serving, printed>>

\* A mutant: the message is enqueued and nobody is told.
NotifyForgotten(t) ==
  /\ pc[t] = "notify"
  /\ Goto(t, "idle")
  /\ UNCHANGED <<queueVars, fileVars, exitVars, mMutex, worker, sent, serving>>

Notify(t) ==
  /\ pc[t] = "notify"
  /\ NotifyOne
  /\ Goto(t, "idle")
  /\ UNCHANGED <<queueVars, fileVars, exitVars, mMutex, sent, serving>>

PushStep(t) == Lock(t) \/ Enqueue(t) \/ Notify(t)

-----------------------------------------------------------------------------
\* while (!mShutdown)
WorkerCheck ==
  /\ worker = "check"
  /\ worker' = IF mShutdown THEN "exited" ELSE "lock"
  /\ UNCHANGED <<queueVars, fileVars, exitVars, mMutex, pc, sent, serving>>

\* The lock of run(), and the one wait() takes again once it is woken.
WorkerLock ==
  /\ worker \in {"lock", "relock"} /\ mMutex = Nobody
  /\ mMutex' = Worker
  /\ worker' = "test"
  /\ UNCHANGED <<queueVars, fileVars, exitVars, pc, sent, serving>>

\* The predicate of the wait, evaluated under the lock.
WorkerTest ==
  /\ worker = "test"
  /\ worker' = IF mQueue # <<>> \/ mShutdown THEN "body" ELSE "block"
  /\ UNCHANGED <<queueVars, fileVars, exitVars, mMutex, pc, sent, serving>>

\* wait() releases the mutex and enters the wait set in one step; what
\* happened since the predicate was evaluated is not looked at again.
WorkerBlock ==
  /\ worker = "block"
  /\ worker' = "waiting"
  /\ mMutex' = Nobody
  /\ UNCHANGED <<queueVars, fileVars, exitVars, pc, sent, serving>>

\* A spurious wake-up; nothing promises that one ever comes.
SpuriousWakeup ==
  /\ worker = "waiting"
  /\ worker' = "relock"
  /\ UNCHANGED <<queueVars, fileVars, exitVars, mMutex, pc, sent, serving>>

\* A mutant: the mutex is not released on the way out.
BreakLocked ==
  /\ worker = "body"
  /\ mShutdown \/ mQueue = <<>>
  /\ worker' = "exited"
  /\ UNCHANGED <<queueVars, fileVars, exitVars, mMutex, pc, sent, serving>>

\* `if (mShutdown) break`, or nothing to pop: the loop ends.
WorkerBreak ==
  /\ worker = "body"
  /\ mShutdown \/ mQueue = <<>>
  /\ worker' = "exited"
  /\ mMutex' = Nobody
  /\ UNCHANGED <<queueVars, fileVars, exitVars, pc, sent, serving>>

\* A mutant: the newest message is popped.
PopNewest ==
  /\ worker = "body"
  /\ ~ mShutdown /\ mQueue # <<>>
  /\ msg' = <<mQueue[Len(mQueue)]>>
  /\ mQueue' = SubSeq(mQueue, 1, Len(mQueue) - 1)
  /\ worker' = "print"
  /\ UNCHANGED <<fileVars, exitVars, mMutex, pc, sent, serving, printed, accepted>>

\* pop(): the oldest message, from the back of the deque.
WorkerPop ==
  /\ worker = "body"
  /\ ~ mShutdown /\ mQueue # <<>>
  /\ msg' = <<Head(mQueue)>>
  /\ mQueue' = Tail(mQueue)
  /\ worker' = "print"
  /\ UNCHANGED <<fileVars, exitVars, mMutex, pc, sent, serving, printed, accepted>>

\* The message is printed with the mutex still held.
WorkerPrint ==
  /\ worker = "print"
  /\ printed' = printed \o msg
  /\ msg' = <<>>
  /\ worker' = "file"
  /\ UNCHANGED <<fileVars, exitVars, mMutex, pc, sent, serving, mQueue, accepted>>

\* It is written to the log file as well, for which the worker waits until
\* SetLogFile is through; then both mutexes are released.
WorkerWrite ==
  /\ worker = "file" /\ mLogFileMutex = Nobody
  /\ mMutex' = Nobody
  /\ worker' = "check"
  /\ UNCHANGED <<queueVars, fileVars, exitVars, pc, sent, serving>>

\* exit on the worker: ~LoggerImpl joins its own thread, which throws; the
\* exception leaves a destructor, std::terminate calls exit once more, and this
\* time the logger is passed over.  flush() is not reached.
JoinItself ==
  /\ worker = "joining"
  /\ ProcessEnds
  /\ UNCHANGED <<queueVars, fileVars, exitVars, mMutex, sent, serving>>

WorkerStep ==
  \/ WorkerCheck \/ WorkerLock \/ WorkerTest \/ WorkerBlock
  \/ WorkerBreak \/ WorkerPop \/ WorkerPrint \/ WorkerWrite \/ JoinItself

-----------------------------------------------------------------------------
\* exit reaches ~LoggerImpl, and shutdown() sets the flag without the lock.
ExitBy(t) ==
  /\ exiter = Nobody
  /\ exiter' = t
  /\ mShutdown' = TRUE
  /\ atExit' = Len(accepted)
  /\ UNCHANGED <<queueVars, fileVars, again, mMutex, sent, serving>>

\* A thread that a signal caught between Lock and Enqueue keeps the mutex.
Exit(t) ==
  /\ Running(t) /\ pc[t] \in ExitPoints
  /\ ExitBy(t)
  /\ Goto(t, "shutdown")
  /\ UNCHANGED worker

\* The places where the worker runs code of its own.
WorkerRuns == worker \notin {"joining", "waits", "exited", "gone"}

\* A signal that is delivered to the worker, or an exception of println, which
\* nothing catches there.
ExitOnWorker ==
  /\ WorkerRuns
  /\ ExitBy(Worker)
  /\ worker' = "joining"
  /\ UNCHANGED pc

\* shutdown() notifies the worker.
ShutdownNotify(t) ==
  /\ pc[t] = "shutdown"
  /\ NotifyOne
  /\ Goto(t, "join")
  /\ UNCHANGED <<queueVars, fileVars, exitVars, mMutex, sent, serving>>

\* mThread.join().  Of a thread that the fork left behind, glibc says that it
\* has ended.
Join(t) ==
  /\ pc[t] = "join" /\ worker \in {"exited", "gone"}
  /\ Goto(t, "flush")
  /\ UNCHANGED <<queueVars, fileVars, exitVars, mMutex, worker, sent, serving>>

\* flush() holds the mutex until the queue is empty.
FlushLock(t) ==
  /\ pc[t] = "flush" /\ mMutex = Nobody
  /\ mMutex' = t
  /\ Goto(t, "drain")
  /\ UNCHANGED <<queueVars, fileVars, exitVars, worker, sent, serving>>

FlushPrint(t) ==
  /\ pc[t] = "drain" /\ mQueue # <<>>
  /\ printed' = Append(printed, Head(mQueue))
  /\ mQueue' = Tail(mQueue)
  /\ Goto(t, "file")
  /\ UNCHANGED <<fileVars, exitVars, mMutex, worker, msg, sent, serving, accepted>>

FlushWrite(t) ==
  /\ pc[t] = "file" /\ mLogFileMutex = Nobody
  /\ Goto(t, "drain")
  /\ UNCHANGED <<queueVars, fileVars, exitVars, mMutex, worker, sent, serving>>

FlushUnlock(t) ==
  /\ pc[t] = "drain" /\ mQueue = <<>>
  /\ mMutex' = Nobody
  /\ Goto(t, "sync")
  /\ UNCHANGED <<queueVars, fileVars, exitVars, worker, sent, serving>>

\* The log file is flushed last.
FlushFile(t) ==
  /\ pc[t] = "sync" /\ mLogFileMutex = Nobody
  /\ Goto(t, "flushed")
  /\ UNCHANGED <<queueVars, fileVars, exitVars, mMutex, worker, sent, serving>>

End(t) ==
  /\ pc[t] = "flushed"
  /\ ProcessEnds
  /\ UNCHANGED <<queueVars, fileVars, exitVars, mMutex, sent, serving>>

ExitStep(t) ==
  \/ ShutdownNotify(t) \/ Join(t)
  \/ FlushLock(t) \/ FlushPrint(t) \/ FlushWrite(t) \/ FlushUnlock(t) \/ FlushFile(t)
  \/ End(t)

\* exit is called while it runs: by the handler of another signal, or because a
\* println of the worker or of flush() throws.  The standard does not say what that
\* does.  Of the libraries in use, some let the second call pass over the logger and
\* end the process; others let a second thread wait for the first.
ExitAgain ==
  /\ exiter # Nobody
  /\ again' = TRUE
  /\ UNCHANGED <<queueVars, fileVars, mShutdown, exiter, atExit, mMutex, sent, serving>>

SecondExit(t) ==
  /\ ExitAgain
  /\ \/ (Running(t) /\ pc[t] \in ExitPoints) \/ pc[t] \in ExitPhases \ {"waits", "ended"}
  /\ \/ ProcessEnds
     \/ t # exiter /\ Goto(t, "waits") /\ UNCHANGED worker

SecondExitOnWorker ==
  /\ ExitAgain
  /\ WorkerRuns
  /\ \/ ProcessEnds
     \/ worker' = "waits" /\ UNCHANGED pc

-----------------------------------------------------------------------------
Ended == \E t \in Threads : pc[t] = "ended"

LogNext ==
  \/ WorkerStep
  \/ SpuriousWakeup
  \/ Serve
  \/ SetLogFile
  \/ OpenFile
  \/ ExitOnWorker
  \/ SecondExitOnWorker
  \/ \E t \in Threads : Push(t) \/ PushStep(t) \/ Exit(t) \/ ExitStep(t) \/ SecondExit(t)

\* Threads that can run do run, and one that waits for a mutex gets it if it
\* is free again and again; nobody has to log, to serve, to open a file, to exit or
\* to be woken without a reason.
Fairness ==
  /\ WF_logVars(WorkerStep)
  /\ WF_logVars(OpenFile)
  /\ \A t \in Threads : WF_logVars(PushStep(t) \/ ExitStep(t)) /\ SF_logVars(Lock(t))

LogSpec == LogInit /\ [][LogNext]_logVars /\ Fairness

-----------------------------------------------------------------------------
\* The types, and who holds the mutexes: the queue is touched by its holder only.
LogTypeOK ==
  /\ mQueue \in Seq(Messages)
  /\ mMutex \in Threads \cup {Worker, Nobody}
  /\ mShutdown \in BOOLEAN
  /\ mLogFileMutex \in {Main, Nobody}
  /\ mLogFile \in BOOLEAN
  /\ pc \in [Threads -> CallPhases \cup ExitPhases]
  /\ worker \in WorkerPhases
  /\ msg \in Seq(Messages)
  /\ sent \in [Threads -> 0 .. MaxMessages]
  /\ serving \in BOOLEAN
  /\ exiter \in Threads \cup {Worker, Nobody}
  /\ printed \in Seq(Messages)
  /\ accepted \in Seq(Messages)
  /\ atExit \in 0 .. Len(accepted)
  /\ again \in BOOLEAN
  /\ worker \notin {"joining", "waits", "gone"} =>
       (mMutex = Worker <=> worker \in {"test", "block", "body", "print", "file"})
  /\ \A t \in Threads : pc[t] \in {"enqueue", "drain", "file"} => mMutex = t
  /\ \A t \in Threads : pc[t] = "open" => mLogFileMutex = t

\* Every message that was enqueued is printed, in the worker's hands or still
\* queued, exactly once and in the order of the pushes, through the hand-over
\* from the worker to flush() as well.
WrittenInOrder == accepted = printed \o msg \o mQueue

\* When flush() is done with the queue, everything accepted before exit was called
\* has reached the sink, although the worker drops out of its loop with messages
\* still queued; and of what was accepted later, when it may be too late for flush(),
\* there is one message of each thread at most, the one it was pushing.  The
\* process may end without flush() if exit runs on the worker, or a second time.
NothingLostAtExit ==
  \A t \in Threads : pc[t] \in {"sync", "flushed", "ended"} /\ exiter # Worker /\ ~ again =>
    /\ Len(printed) >= atExit
    /\ \A i, j \in atExit + 1 .. Len(accepted) : accepted[i][1] = accepted[j][1] => i = j

\* What a thread logs is printed sooner or later, unless the logger shuts
\* down: push() is not blocked for good, and no notify is lost between the
\* worker's test and its wait, because push() takes the lock in between.  After
\* a fork there is nobody who would print it before exit does.
LoggedIsWritten ==
  \A t \in Threads : \A n \in 1 .. MaxMessages :
    (sent[t] >= n) ~>
      (mShutdown \/ worker = "gone" \/ \E i \in DOMAIN printed : printed[i] = <<t, n>>)

\* Nobody tells the worker any more that it was to end.
Missed == worker = "waiting" /\ \E t \in Threads : pc[t] = "join"

\* The threads in exit() that do not hold mMutex for flush().
Caught == {t \in Threads : pc[t] \in {"shutdown", "join", "flush", "waits"}}

\* Nobody will release what is waited for: the mutex of a thread that was caught in
\* push(), unless flush() is done with it; that of a worker that the fork left behind;
\* or that of main, caught in SetLogFile.  Or the worker waits in exit, and does not end.
Stuck ==
  \/ mMutex \in Caught /\ \A t \in Threads : pc[t] \notin {"sync", "flushed"}
  \/ mMutex = Worker /\ worker = "gone"
  \/ mLogFileMutex # Nobody /\ pc[mLogFileMutex] \in ExitPhases
  \/ worker = "waits"

\* Once exit is called the process ends, unless: the worker tested its condition
\* before shutdown() set the flag and went to sleep after shutdown() notified; a
\* signal caught a thread that holds one of the two mutexes; the worker held mMutex
\* when the process forked; or a second exit keeps the worker from ending.  exit on
\* the worker itself does end the process.
ExitEnds == (exiter # Nobody) ~> (Ended \/ Missed \/ (Stuck /\ exiter # Worker))
=============================================================================
