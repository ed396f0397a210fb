---------------------------- MODULE AsyncLogging ----------------------------
(***************************************************************************)
(* AsyncLogging (base/AsyncLogging.cc) over a LogFile (base/LogFile.cc):     *)
(* threads append lines to the current buffer under the mutex; the back end  *)
(* swaps the full buffers out, drops all but two when there are too many,    *)
(* writes the rest and recycles two of them as its spares.  A line has size  *)
(* one; the lines are numbered in the order append() takes them.             *)
(***************************************************************************)
EXTENDS Integers, Sequences, SequencesExt

CONSTANTS
  Capacity,     \* kLargeBuffer, in lines
  MaxBuffers,   \* more buffers than this are dropped (25)
  MaxLogLines,     \* bound on the lines appended
  rollSize,     \* rollSize_, in lines
  checkEveryN,  \* checkEveryN_
  rollPeriod,   \* kRollPerSeconds_, in seconds of the model
  MaxSeconds    \* bound on the clock

ASSUME LogAssumption ==
  /\ Capacity \in Nat /\ Capacity > 1 /\ MaxBuffers \in Nat \ {0, 1}
  /\ MaxLogLines \in Nat /\ rollSize \in Nat /\ checkEveryN \in Nat \ {0}
  /\ rollPeriod \in Nat \ {0} /\ MaxSeconds \in Nat

VARIABLES
  appended,       \* history: number of lines append() has taken
  currentBuffer,  \* currentBuffer_: the lines in it
  nextBuffer,     \* whether nextBuffer_ holds a buffer
  buffers,        \* buffers_
  toWrite,        \* buffersToWrite
  new1, new2,     \* whether newBuffer1 and newBuffer2 hold a buffer
  backend,        \* where threadFunc is
  logging,        \* running_
  notified,       \* cond_ was notified while the back end waited
  out,            \* history: the buffers [lines, dropped] the back end is done with
  file,           \* the LogFile: [bytes, lastRoll, count, files]
  clock,          \* time(NULL)
  failed          \* history: an assertion of threadFunc failed

frontVars == <<appended, currentBuffer, nextBuffer, buffers>>
backendVars == <<toWrite, new1, new2, out, file, failed>>
logVars == <<frontVars, backendVars, backend, logging, notified, clock>>

\* Faulty: the full buffer is queued ahead of the ones that wait.
QueueInFront(bufs, full) == <<full>> \o bufs

QueueFull(bufs, full) == Append(bufs, full)

\* append().  A full current buffer is queued and replaced by nextBuffer_, or
\* by a new one; FixedBuffer::avail() must exceed the length.
AppendLine ==
  LET line == appended + 1
  IN /\ appended < MaxLogLines
     /\ appended' = line
     /\ IF Capacity - Len(currentBuffer) > 1
        THEN /\ currentBuffer' = Append(currentBuffer, line)
             /\ UNCHANGED <<buffers, nextBuffer, notified>>
        ELSE /\ buffers' = QueueFull(buffers, currentBuffer)
             /\ nextBuffer' = FALSE
             /\ currentBuffer' = <<line>>
             /\ notified' = (notified \/ backend = "waiting")
     /\ UNCHANGED <<backendVars, backend, logging, clock>>

\* stop() up to the join; the notification does not hold the mutex.
StopLogging ==
  /\ logging
  /\ logging' = FALSE
  /\ notified' = (notified \/ backend = "waiting")
  /\ UNCHANGED <<frontVars, backendVars, backend, clock>>

-----------------------------------------------------------------------------
(* threadFunc *)

\* The top of the loop: the spare buffers are there.
CheckRunning ==
  /\ backend = "top"
  /\ backend' = IF logging THEN "lock" ELSE "finished"
  /\ failed' = (failed \/ ~new1 \/ ~new2 \/ toWrite # <<>>)
  /\ UNCHANGED <<frontVars, toWrite, new1, new2, out, file, logging, notified, clock>>

\* With nothing queued the back end waits, releasing the mutex ...
BeginWait ==
  /\ backend = "lock" /\ buffers = <<>>
  /\ backend' = "waiting"
  /\ notified' = FALSE
  /\ UNCHANGED <<frontVars, backendVars, logging, clock>>

\* Faulty: the wait has no time limit.
WaitOverNotified == notified

\* waitForSeconds may end at any time.
WaitOver == TRUE

\* ... until it is notified or flushInterval_ has passed (a spurious wakeup is
\* no different), and swaps the buffers.
SwapBuffers ==
  /\ \/ backend = "lock" /\ buffers # <<>>
     \/ backend = "waiting" /\ WaitOver
  /\ backend' = "write"
  /\ toWrite' = Append(buffers, currentBuffer)
  /\ buffers' = <<>>
  /\ currentBuffer' = <<>> /\ new1' = FALSE
  /\ nextBuffer' = TRUE /\ new2' = (new2 /\ nextBuffer)
  /\ notified' = FALSE
  /\ UNCHANGED <<appended, out, file, failed, logging, clock>>

\* Buffers for the history.  The last one, which was the current buffer, may be
\* empty and is then left out.
WithLines(bufs) ==
  IF bufs # <<>> /\ bufs[Len(bufs)] = <<>> THEN SubSeq(bufs, 1, Len(bufs) - 1) ELSE bufs
Fates(bufs, dropped) ==
  LET some == WithLines(bufs)
  IN [i \in DOMAIN some |-> [lines |-> some[i], dropped |-> dropped]]

\* LogFile::append_unlocked and rollFile: a file that is full, or (looked at
\* every checkEveryN_ appends) was opened in an earlier period, is replaced,
\* but only once in a second.
RollFile(f) ==
  IF clock > f.lastRoll
  THEN [f EXCEPT !.bytes = 0, !.lastRoll = clock, !.files = @ + 1] ELSE f

AppendUnlocked(f, len) ==
  LET written == [f EXCEPT !.bytes = @ + len]
      counted == [written EXCEPT !.count = (@ + 1) % checkEveryN]
  IN IF written.bytes > rollSize THEN RollFile(written)
     ELSE IF counted.count = 0 /\ clock \div rollPeriod # f.lastRoll \div rollPeriod
          THEN RollFile(counted) ELSE counted

KeepTwo(bufs) == SubSeq(bufs, 1, 2)

\* Writing what is kept, and reporting what is dropped.
WriteBuffers ==
  LET tooMany == Len(toWrite) > MaxBuffers
      kept == IF tooMany THEN KeepTwo(toWrite) ELSE toWrite
      lost == SubSeq(toWrite, Len(kept) + 1, Len(toWrite))
      sizes == (IF tooMany THEN <<1>> ELSE <<>>) \o [i \in DOMAIN kept |-> Len(kept[i])]
  IN /\ backend = "write"
     /\ backend' = "recycle"
     /\ out' = out \o Fates(kept, FALSE) \o Fates(lost, TRUE)
     /\ file' = FoldLeft(AppendUnlocked, file, sizes)
     /\ toWrite' = SubSeq(kept, 1, IF Len(kept) > 2 THEN 2 ELSE Len(kept))
     /\ UNCHANGED <<frontVars, new1, new2, failed, logging, notified, clock>>

\* newBuffer1 is always missing here, newBuffer2 when nextBuffer_ took it.
Recycle ==
  LET missing == (IF new1 THEN 0 ELSE 1) + (IF new2 THEN 0 ELSE 1)
  IN /\ backend = "recycle"
     /\ backend' = "top"
     /\ failed' = (failed \/ missing > Len(toWrite))
     /\ new1' = TRUE /\ new2' = TRUE
     /\ toWrite' = <<>>
     /\ UNCHANGED <<frontVars, out, file, logging, notified, clock>>

LogTick ==
  /\ clock < MaxSeconds
  /\ clock' = clock + 1
  /\ UNCHANGED <<frontVars, backendVars, backend, logging, notified>>

-----------------------------------------------------------------------------
LogInit ==
  /\ appended = 0 /\ currentBuffer = <<>> /\ nextBuffer = TRUE /\ buffers = <<>>
  /\ toWrite = <<>> /\ new1 = TRUE /\ new2 = TRUE
  /\ backend = "top" /\ logging = TRUE /\ notified = FALSE
  /\ out = <<>> /\ clock = 1 /\ failed = FALSE
  /\ file = [bytes |-> 0, lastRoll |-> 1, count |-> 0, files |-> 1]

Backend == CheckRunning \/ BeginWait \/ SwapBuffers \/ WriteBuffers \/ Recycle

LogNext ==
  \/ AppendLine
  \/ StopLogging
  \/ CheckRunning
  \/ BeginWait
  \/ SwapBuffers
  \/ WriteBuffers
  \/ Recycle
  \/ LogTick

\* The back end keeps running.
LogSpec == LogInit /\ [][LogNext]_logVars /\ WF_logVars(Backend)

-----------------------------------------------------------------------------
\* The buffers from the oldest to the current one, and that the lines in them are
\* 1 to n, each once and in order.
Stored ==
  [k \in DOMAIN out |-> out[k].lines] \o (IF backend = "write" THEN toWrite ELSE <<>>)
    \o buffers \o <<currentBuffer>>
InTurn(bufs, n) ==
  /\ \A k \in DOMAIN bufs : \A i \in DOMAIN bufs[k] : bufs[k][i] \in 1..n
  /\ \A k, l \in DOMAIN bufs : \A i \in DOMAIN bufs[k], j \in DOMAIN bufs[l] :
       k < l \/ (k = l /\ i < j) => bufs[k][i] < bufs[l][j]
  /\ \A m \in 1..n : \E k \in DOMAIN bufs : \E i \in DOMAIN bufs[k] : bufs[k][i] = m

\* Every line append() took is, in that order and once, written, dropped with
\* a notice, or in one of the buffers: none is lost, repeated or reordered by
\* the swaps, the drops and the recycling.  (What is still in a buffer when
\* the back end ends after stop() stays unwritten.)  And the assertions of
\* threadFunc hold: nextBuffer_ is only missing after a buffer was filled, so
\* there always is one to recycle for each spare.
LinesAccounted == InTurn(Stored, appended) /\ ~failed

\* While the log runs, every line is written or dropped at last: the wait has
\* a time limit, so a line in a buffer that never fills is written too.
LineIsWritten ==
  \A n \in 1..MaxLogLines :
    (appended >= n) ~> (\E k \in DOMAIN out : n \in Range(out[k].lines)) \/ ~logging
=============================================================================
