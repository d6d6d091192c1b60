------------------------------ MODULE ModelCalls ------------------------------
(***************************************************************************)
(* src/src/models/model.ts: ModelCalls of different Turns that share the   *)
(* `calls` semaphore of ModelsModule.  generate() records an attempt,      *)
(* takes a permit, reads the stream of the Model Adapter under a timeout   *)
(* and the Turn's signal, and retries after a delay.  Semaphore.tla is the *)
(* permits; a caller is one ModelCall, and all its attempts use the signal *)
(* of its Turn.                                                            *)
(*                                                                         *)
(* A step runs from one await to the next.  raceWithAbort settles on       *)
(* whichever comes first, so an event that wins the race is received       *)
(* before the abort or the timeout.  Model Adapters are async generators,  *)
(* as all in the repository are: their generate() itself does not throw.   *)
(***************************************************************************)
EXTENDS Semaphore

CONSTANTS MaxAttempts,  \* maxAttempts of a ModelCall
          MaxDeltas,    \* bound: deltas of one stream
          Delays        \* the retry delays the options may compute

ASSUME ModelCallAssumption ==
  /\ MaxAttempts \in Nat \ {0}
  /\ MaxDeltas \in Nat
  /\ Delays \subseteq Nat

VARIABLES
  pc,        \* the await at which generate() stands
  attempt,   \* attempt
  text,      \* text, reasoning and toolCalls: the attempts the deltas came from
  completed, \* response-completed was received
  retryable, \* isRetryableModelError of the error caught last
  stream     \* what the Adapter's stream of the attempt has done

callVars == <<pc, attempt, text, completed, retryable, stream>>

allVars == <<vars, callVars>>

\* "recording" awaits onAttemptStarted, "failing" onAttemptFailed, "acquiring"
\* the permit, "streaming" the next event, "delaying" the retry delay, "retrying"
\* a retry delay of 0.
Await == {"recording", "acquiring", "streaming", "failing", "delaying", "retrying"}

Over == {"answered", "threw"}

Stream == {"none", "open", "completed", "ended", "cut"}

CallsInit ==
  /\ Init
  /\ pc = [c \in Callers |-> "idle"]
  /\ attempt = [c \in Callers |-> 0]
  /\ text = [c \in Callers |-> <<>>]
  /\ completed = [c \in Callers |-> FALSE]
  /\ retryable = [c \in Callers |-> FALSE]
  /\ stream = [c \in Callers |-> "none"]

Goto(c, where) == pc' = [pc EXCEPT ![c] = where]

-----------------------------------------------------------------------------
(* The loop of generate().                                                 *)

Generate(c) ==
  /\ pc[c] = "idle"
  /\ Goto(c, "recording")
  /\ attempt' = [attempt EXCEPT ![c] = 1]
  /\ UNCHANGED <<vars, text, completed, retryable, stream>>

\* onAttemptStarted is durable: ask for a permit.
AttemptStarted(c) ==
  /\ pc[c] = "recording"
  /\ Acquire(c)
  /\ Goto(c, "acquiring")
  /\ UNCHANGED <<attempt, text, completed, retryable, stream>>

\* The append behind onAttemptStarted or onAttemptFailed fails.
RecordingFails(c) ==
  /\ pc[c] \in {"recording", "failing"}
  /\ Goto(c, "threw")
  /\ UNCHANGED <<vars, attempt, text, completed, retryable, stream>>

\* acquire() rejects with the reason of the abort.
PermitRefused(c) ==
  /\ pc[c] = "acquiring"
  /\ call[c] = "rejected"
  /\ Goto(c, "failing")
  /\ retryable' = [retryable EXCEPT ![c] = FALSE]
  /\ UNCHANGED <<vars, attempt, text, completed, stream>>

\* The permit is there, however the signal stands by now: start the timeout and
\* the stream.
OpenStream(c) ==
  /\ pc[c] = "acquiring"
  /\ call[c] = "holding"
  /\ Goto(c, "streaming")
  /\ stream' = [stream EXCEPT ![c] = "open"]
  /\ UNCHANGED <<vars, attempt, text, completed, retryable>>

-----------------------------------------------------------------------------
(* The stream of one attempt.                                              *)

\* Mutant of WinsRace: the event is awaited without the race.
WinsRaceAnyway(c) == pc[c] = "streaming"

\* iterator.next() wins the race against the Turn's signal and the timeout.
WinsRace(c) == pc[c] = "streaming" /\ ~aborted[c]

\* text-delta, reasoning-delta or tool-call.
Delta(c) ==
  /\ WinsRace(c)
  /\ Len(text[c]) < MaxDeltas
  /\ stream[c] \in {"open", "completed"}
  /\ text' = [text EXCEPT ![c] = Append(@, attempt[c])]
  /\ UNCHANGED <<vars, pc, attempt, completed, retryable, stream>>

\* response-completed; the loop goes on until the stream is done.
ResponseCompleted(c) ==
  /\ WinsRace(c)
  /\ stream[c] = "open"
  /\ completed' = [completed EXCEPT ![c] = TRUE]
  /\ stream' = [stream EXCEPT ![c] = "completed"]
  /\ UNCHANGED <<vars, pc, attempt, text, retryable>>

\* Mutant of LetGo: the permit is released on success only.
LetGoNever(c) == UNCHANGED <<active, queue, call>>

\* The `finally` block gives the permit up; the closure was not called before.
LetGo(c) == HandOff(c) \/ GiveBack(c)

\* The local variables of generateAttempt end with the attempt.
Forget(c) ==
  /\ text' = [text EXCEPT ![c] = <<>>]
  /\ completed' = [completed EXCEPT ![c] = FALSE]
  /\ stream' = [stream EXCEPT ![c] = "none"]

\* The attempt fails with an error that may be retried or not.
Fails(c, retry) ==
  /\ Goto(c, "failing")
  /\ retryable' = [retryable EXCEPT ![c] = retry]
  /\ LetGo(c)
  /\ Forget(c)
  /\ UNCHANGED <<aborted, attempt>>

\* response-failed, or an exception of the Adapter's generator.
StreamFails(c) ==
  /\ WinsRace(c)
  /\ \E retry \in BOOLEAN : Fails(c, retry)

\* The timeout or the abort wins the race.
Interrupted(c) ==
  /\ pc[c] = "streaming"
  /\ Fails(c, ~aborted[c])

\* Mutant of Acceptable: no terminal event is asked for.
AcceptAnything(c) == TRUE

\* `if (!completed) throw`.
Acceptable(c) == completed[c]

\* The stream is done: the call is answered if the response was complete.
StreamDone(c) ==
  /\ WinsRace(c)
  /\ \/ /\ Acceptable(c)
        /\ Goto(c, "answered")
        /\ LetGo(c)
        /\ stream' = [stream EXCEPT ![c] = IF @ = "completed" THEN "ended" ELSE "cut"]
        /\ UNCHANGED <<aborted, attempt, text, completed, retryable>>
     \/ ~Acceptable(c) /\ Fails(c, FALSE)

-----------------------------------------------------------------------------
(* Retries.                                                                *)

RetryAllowed(c) == retryable[c] /\ attempt[c] < MaxAttempts

\* onAttemptFailed is durable: give up, or wait before the next attempt.  An
\* abort since the error was classified is noticed by the delay, unless it is 0.
AttemptFailed(c) ==
  /\ pc[c] = "failing"
  /\ \/ ~RetryAllowed(c) /\ Goto(c, "threw")
     \/ /\ RetryAllowed(c)
        /\ \E delay \in Delays :
             Goto(c, IF aborted[c] /\ delay > 0 THEN "threw" ELSE
                     IF delay > 0 THEN "delaying" ELSE "retrying")
  /\ retryable' = [retryable EXCEPT ![c] = FALSE]
  /\ UNCHANGED <<vars, attempt, text, completed, stream>>

\* The delay is over and the next attempt begins, with the same signal.
NextAttempt(c) ==
  /\ pc[c] = "retrying" \/ (pc[c] = "delaying" /\ ~aborted[c])
  /\ Goto(c, "recording")
  /\ attempt' = [attempt EXCEPT ![c] = @ + 1]
  /\ call' = [call EXCEPT ![c] = "idle"]
  /\ UNCHANGED <<active, queue, aborted, text, completed, retryable, stream>>

\* The abort ends the delay.
DelayAborted(c) ==
  /\ pc[c] = "delaying"
  /\ aborted[c]
  /\ Goto(c, "threw")
  /\ UNCHANGED <<vars, attempt, text, completed, retryable, stream>>

\* The Turn is cancelled.
CancelTurn(c) ==
  /\ pc[c] \in Await
  /\ Abort(c)
  /\ UNCHANGED callVars

-----------------------------------------------------------------------------

\* What a ModelCall does by itself: its recorder answers, its timers fire.
Advance(c) ==
  \/ AttemptStarted(c) \/ PermitRefused(c) \/ OpenStream(c) \/ Interrupted(c)
  \/ AttemptFailed(c) \/ NextAttempt(c) \/ DelayAborted(c)

Receive(c) == Delta(c) \/ ResponseCompleted(c) \/ StreamFails(c) \/ StreamDone(c)

CallsNext ==
  \E c \in Callers :
    \/ Generate(c) \/ Advance(c) \/ Receive(c)
    \/ RecordingFails(c) \/ CancelTurn(c)

CallsSpec == CallsInit /\ [][CallsNext]_allVars

\* Nothing obliges an Adapter to deliver an event; the timeout of every attempt
\* fires.  The wait for a permit has no timeout.
FairCallsSpec == CallsSpec /\ \A c \in Callers : WF_allVars(Advance(c))

-----------------------------------------------------------------------------

\* The type invariant of generate() and its attempts, and of the semaphore.
CallsTypeOK ==
  /\ TypeOK
  /\ pc \in [Callers -> Await \cup Over \cup {"idle"}]
  /\ attempt \in [Callers -> 0..MaxAttempts]
  /\ text \in [Callers -> Seq(1..MaxAttempts)]
  /\ completed \in [Callers -> BOOLEAN]
  /\ retryable \in [Callers -> BOOLEAN]
  /\ stream \in [Callers -> Stream]

\* Where the permit of an attempt stands at each await of generate().
PermitPlace(c) ==
  /\ pc[c] \in {"idle", "recording"} => call[c] = "idle"
  /\ pc[c] = "acquiring" => call[c] \in {"waiting", "holding", "rejected"}
  /\ pc[c] = "streaming" => call[c] = "holding"
  /\ pc[c] = "failing" => call[c] = "released" \/ (call[c] = "rejected" /\ ~retryable[c])
  /\ pc[c] \in {"delaying", "retrying"} => call[c] = "released" /\ attempt[c] < MaxAttempts
  /\ pc[c] = "answered" => call[c] = "released"
  /\ pc[c] = "threw" => call[c] \in {"idle", "released", "rejected"}
  /\ pc[c] # "idle" => attempt[c] >= 1

\* What the local variables of generateAttempt hold: nothing but what came from
\* the stream of this attempt.
AnswerPlace(c) ==
  /\ pc[c] \notin {"streaming", "answered"} => text[c] = <<>> /\ stream[c] = "none"
  /\ pc[c] # "answered" => (completed[c] <=> stream[c] = "completed")
  /\ pc[c] = "streaming" => stream[c] \in {"open", "completed"}
  /\ pc[c] = "answered" => stream[c] = "ended"
  /\ \A k \in 1..Len(text[c]) : text[c][k] = attempt[c]

\* The inductive invariant behind the safety properties.
CallsInv ==
  /\ CallsTypeOK
  /\ IInv
  /\ \A c \in Callers : PermitPlace(c) /\ AnswerPlace(c)

\* A permit is held by the attempts that are streaming, and by the calls the
\* queue has just handed it to; a call that is over, delayed or recording holds
\* none, however its attempts ended.
PermitsAreStreams ==
  \A c \in Callers :
    /\ pc[c] = "streaming" => call[c] = "holding"
    /\ call[c] = "holding" => pc[c] \in {"streaming", "acquiring"}

\* ARCHITECTURE Kernel invariant 9: an answer is the whole stream of one attempt,
\* the last, which completed and ended; nothing of an attempt that failed, timed
\* out or was cut off after some deltas reaches it.
WholeAnswers ==
  \A c \in Callers : pc[c] = "answered" =>
    /\ stream[c] = "ended"
    /\ \A k \in 1..Len(text[c]) : text[c][k] = attempt[c]

\* A cancelled ModelCall is never answered, whatever its Adapter still delivers
\* and at whichever await the abort finds it.
CancelledNotAnswered ==
  [][\A c \in Callers : (aborted[c] /\ pc[c] # "answered") => pc'[c] # "answered"]_allVars

\* Every ModelCall is answered or throws, also while it waits for a permit that
\* calls of other Turns hold, with Adapters that hang.
CallsSettle == \A c \in Callers : (pc[c] \in Await) ~> (pc[c] \in Over)
=============================================================================
