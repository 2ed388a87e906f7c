----------------------------- MODULE EventBuffer -----------------------------
(***************************************************************************)
(* The events of one instance's workflow Dispatcher: trigger() buffers     *)
(* them, one saving loop at a time turns them into executions and          *)
(* publishes their tasks, and beforeStop() drains what is left.            *)
(*                                                                         *)
(* What becomes of a published task is Dispatcher's; here a queue task is  *)
(* only the promise `executing` that the loop and beforeStop await.        *)
(***************************************************************************)
EXTENDS Naturals, Sequences, SequencesExt

CONSTANTS
  Events,    \* the events that are triggered, each once
  NoEvent,
  Key,       \* event -> its eventKey
  Sqlite,    \* the database is SQLite: no saving while a task is processed
  MaxTasks   \* bound: queue tasks that arrive

ASSUME BufferAssumption ==
  /\ NoEvent \notin Events
  /\ DOMAIN Key = Events
  /\ Sqlite \in BOOLEAN
  /\ MaxTasks \in Nat

VARIABLES
  ready,      \* set by onAfterStart, reset by beforeStop
  events,     \* the buffer
  saving,     \* where the saving loop is; "off" when there is none
  current,    \* the event it has taken out of the buffer
  executing,  \* a queue task is being processed
  recovering, \* a recovery scan is running
  stopping,   \* where beforeStop is
  rows,       \* the events with an execution, in order of creation
  failed,     \* the events whose failure callback was called
  accepted,   \* ghost: the events trigger() took, in order
  taskCount   \* ghost: queue tasks so far

bufferVars == <<ready, events, saving, current, executing, recovering, stopping,
                rows, failed, accepted, taskCount>>

BufferInit == /\ ready = FALSE /\ events = <<>>
              /\ saving = "off" /\ current = NoEvent
              /\ executing = FALSE /\ recovering = FALSE
              /\ stopping = "no"
              /\ rows = <<>> /\ failed = {}
              /\ accepted = <<>> /\ taskCount = 0

------------------------------------------------------------------------------
(* Triggering                                                               *)

\* The plugin has started: ready, and a first recovery scan.
SetReady == /\ ~ready /\ stopping = "no"
            /\ ready' = TRUE
            /\ recovering' = TRUE
            /\ UNCHANGED <<events, saving, current, executing, stopping, rows, failed,
                           accepted, taskCount>>

\* The loop that a push, the end of a loop or the end of a task starts.
SaveEvent(buffer, loop) == IF loop = "off" /\ buffer # <<>> THEN "loop" ELSE loop

\* An event with the key of a buffered one is dropped; an instance that is
\* not ready calls the failure callback.
Trigger(e) ==
  LET refused   == ~ready
      duplicate == \E d \in ToSet(events) : Key[d] = Key[e]
  IN  /\ e \notin ToSet(accepted) \cup failed
      /\ \/ /\ refused
            /\ failed' = failed \cup {e}
            /\ UNCHANGED <<events, saving, accepted>>
         \/ /\ ~refused /\ ~duplicate
            /\ events' = Append(events, e)
            /\ accepted' = Append(accepted, e)
            /\ saving' = SaveEvent(events', saving)
            /\ UNCHANGED failed
      /\ UNCHANGED <<ready, current, executing, recovering, stopping, rows, taskCount>>

------------------------------------------------------------------------------
(* The saving loop                                                          *)

\* A loop that ends is awaited by beforeStop, if that has come so far.
AwaitedSaving(rejects) ==
  stopping' = IF stopping # "saving" THEN stopping ELSE IF rejects THEN "rejected" ELSE "loop"

\* Mutant of Shift: the youngest event is taken.
ShiftLast == /\ saving \in {"loop", "resumed"}
             /\ events # <<>>
             /\ saving = "resumed" \/ ~(Sqlite /\ executing)
             /\ current' = Last(events)
             /\ events' = Front(events)
             /\ saving' = "creating"
             /\ UNCHANGED <<ready, executing, recovering, stopping, rows, failed, accepted, taskCount>>

\* The next event, once no task is processed (SQLite).
Shift == /\ saving \in {"loop", "resumed"}
         /\ events # <<>>
         /\ saving = "resumed" \/ ~(Sqlite /\ executing)
         /\ current' = Head(events)
         /\ events' = Tail(events)
         /\ saving' = "creating"
         /\ UNCHANGED <<ready, executing, recovering, stopping, rows, failed, accepted, taskCount>>

AwaitTask == /\ saving = "loop" /\ events # <<>>
             /\ Sqlite /\ executing
             /\ saving' = "waiting"
             /\ UNCHANGED <<ready, events, current, executing, recovering, stopping, rows,
                            failed, accepted, taskCount>>

\* Mutant of Create: a failure ends the loop.
CreateBreaksOff ==
  /\ saving = "creating"
  /\ \/ /\ \A r \in ToSet(rows) : Key[r] # Key[current]
        /\ rows' = Append(rows, current)
        /\ saving' \in {"publishing", "loop"}
        /\ UNCHANGED failed
     \/ /\ failed' = failed \cup {current}
        /\ saving' = "off"
        /\ UNCHANGED rows
  /\ current' = NoEvent
  /\ UNCHANGED <<ready, events, executing, recovering, stopping, accepted, taskCount>>

\* Mutant of Create: the failure callback is not called.
CreateForgets ==
  /\ saving = "creating"
  /\ \/ /\ \A r \in ToSet(rows) : Key[r] # Key[current]
        /\ rows' = Append(rows, current)
        /\ saving' \in {"publishing", "loop"}
     \/ /\ saving' = "loop"
        /\ UNCHANGED rows
  /\ current' = NoEvent
  /\ UNCHANGED <<ready, events, executing, recovering, stopping, failed, accepted, taskCount>>

\* Mutant of Create: an event that is not valid stays the current one.
CreateKeepsEvent ==
  /\ saving = "creating"
  /\ \/ /\ \A r \in ToSet(rows) : Key[r] # Key[current]
        /\ rows' = Append(rows, current)
        /\ saving' \in {"publishing", "loop"}
        /\ current' = NoEvent
        /\ UNCHANGED failed
     \/ /\ failed' = failed \cup {current}
        /\ saving' = "loop"
        /\ UNCHANGED <<rows, current>>
  /\ UNCHANGED <<ready, events, executing, recovering, stopping, accepted, taskCount>>

\* createExecution: a row, unless the event is not valid, its key is taken, or
\* the database fails; then the callback is told, and the loop goes on.
Create ==
  /\ saving = "creating"
  /\ \/ /\ \A r \in ToSet(rows) : Key[r] # Key[current]
        /\ rows' = Append(rows, current)
        /\ saving' \in {"publishing", "loop"}    \* a deferred execution is not published
        /\ UNCHANGED failed
     \/ /\ failed' = failed \cup {current}
        /\ saving' = "loop"
        /\ UNCHANGED rows
  /\ current' = NoEvent
  /\ UNCHANGED <<ready, events, executing, recovering, stopping, accepted, taskCount>>

\* The publication succeeds or fails (recovery will publish it again).
Publish == /\ saving = "publishing"
           /\ saving' = "loop"
           /\ UNCHANGED <<ready, events, current, executing, recovering, stopping, rows,
                          failed, accepted, taskCount>>

LoopEnds == /\ saving = "loop" /\ events = <<>>
            /\ saving' = "off"
            /\ AwaitedSaving(FALSE)
            /\ UNCHANGED <<ready, events, current, executing, recovering, rows, failed,
                           accepted, taskCount>>

------------------------------------------------------------------------------
(* Queue tasks and recovery                                                 *)

\* The queue hands over a task only while the dispatcher is idle.
TaskStarts == /\ ready /\ ~executing /\ saving = "off" /\ events = <<>>
              /\ taskCount < MaxTasks
              /\ taskCount' = taskCount + 1
              /\ executing' = TRUE
              /\ UNCHANGED <<ready, events, saving, current, recovering, stopping, rows,
                             failed, accepted>>

\* The task ends.  One that fails rejects the promise that the loop and
\* beforeStop await: the loop breaks off and starts again, beforeStop rejects.
TaskEnds(fails) ==
  /\ executing
  /\ executing' = FALSE
  /\ saving' = CASE saving = "waiting" /\ ~fails -> "resumed"
                 [] saving = "waiting" /\ fails  -> SaveEvent(events, "off")
                 [] OTHER                        -> SaveEvent(events, saving)
  /\ \/ /\ stopping = "executing"
        /\ stopping' = IF fails THEN "rejected" ELSE "loop"
     \/ /\ stopping # "executing"
        /\ IF saving = "waiting" /\ fails THEN AwaitedSaving(TRUE) ELSE UNCHANGED stopping
  /\ UNCHANGED <<ready, events, current, recovering, rows, failed, accepted, taskCount>>

\* The recovery interval, every five minutes; recovery catches its own errors.
Recover == /\ ready /\ ~recovering
           /\ recovering' = TRUE
           /\ UNCHANGED <<ready, events, saving, current, executing, stopping, rows, failed,
                          accepted, taskCount>>

RecoveryEnds == /\ recovering
                /\ recovering' = FALSE
                /\ stopping' = IF stopping = "recovering" THEN "loop" ELSE stopping
                /\ UNCHANGED <<ready, events, saving, current, executing, rows, failed,
                               accepted, taskCount>>

------------------------------------------------------------------------------
(* Stopping                                                                 *)

\* Mutant of BeforeStop: new events are still taken.
BeforeStopStaysReady ==
  /\ ready /\ stopping = "no"
  /\ stopping' = IF recovering THEN "recovering" ELSE "loop"
  /\ UNCHANGED <<ready, events, saving, current, executing, recovering, rows, failed,
                 accepted, taskCount>>

BeforeStop == /\ ready /\ stopping = "no"
              /\ ready' = FALSE
              /\ stopping' = IF recovering THEN "recovering" ELSE "loop"
              /\ UNCHANGED <<events, saving, current, executing, recovering, rows, failed,
                             accepted, taskCount>>

\* One round: await the saving, then the task, then look again.
Drain ==
  /\ stopping = "loop"
  /\ stopping' = CASE saving # "off"  -> "saving"
                   [] saving = "off" /\ executing -> "executing"
                   [] saving = "off" /\ ~executing /\ events # <<>> -> "loop"
                   [] OTHER -> "drained"
  /\ saving' = IF executing THEN saving ELSE SaveEvent(events, saving)
  /\ UNCHANGED <<ready, events, current, executing, recovering, rows, failed, accepted, taskCount>>

Saver == Shift \/ AwaitTask \/ Create \/ Publish \/ LoopEnds

BufferNext == \/ SetReady
              \/ \E e \in Events : Trigger(e)
              \/ Saver
              \/ TaskStarts
              \/ \E fails \in BOOLEAN : TaskEnds(fails)
              \/ Recover \/ RecoveryEnds
              \/ BeforeStop
              \/ Drain

BufferSpec == BufferInit /\ [][BufferNext]_bufferVars

\* Fairness: the loop, a task that is processed, a recovery scan and beforeStop
\* are code that runs to its end.
BufferFairSpec == /\ BufferSpec
                  /\ WF_bufferVars(Saver)
                  /\ WF_bufferVars(\E fails \in BOOLEAN : TaskEnds(fails))
                  /\ WF_bufferVars(RecoveryEnds)
                  /\ WF_bufferVars(Drain)

------------------------------------------------------------------------------
(* Properties                                                               *)

\* Types of the buffer, the loop and beforeStop.
BufferTypeOK == /\ ready \in BOOLEAN /\ executing \in BOOLEAN /\ recovering \in BOOLEAN
                /\ events \in Seq(Events) /\ rows \in Seq(Events) /\ accepted \in Seq(Events)
                /\ saving \in {"off", "loop", "waiting", "resumed", "creating", "publishing"}
                /\ current \in Events \cup {NoEvent}
                /\ current # NoEvent <=> saving = "creating"
                /\ stopping \in {"no", "recovering", "loop", "saving", "executing", "drained", "rejected"}
                /\ failed \subseteq Events
                /\ taskCount \in 0..MaxTasks

\* Executions are created in the order in which their events were taken.
CreatedInOrder ==
  \A i, j \in DOMAIN accepted : \A k, l \in DOMAIN rows :
    i < j /\ rows[k] = accepted[i] /\ rows[l] = accepted[j] => k < l

Handled == ToSet(accepted) \subseteq ToSet(rows) \cup failed

\* When beforeStop returns, nothing is left in memory, and nothing comes in.
DrainedIsEmpty == stopping = "drained" => Handled /\ ~executing /\ saving = "off"

\* Every event that was taken gets an execution, or its failure is reported.
EventsAreHandled == \A e \in Events : e \in ToSet(accepted) ~> e \in ToSet(rows) \cup failed

\* A stop that does not reject drains.
StopDrains == stopping # "no" ~> stopping \in {"drained", "rejected"}

\* Plugin.test.ts:1268: "beforeStop should wait for all pending and executing
\* tasks", however it returns.
StopWaitsForAll == stopping \in {"drained", "rejected"} => Handled
==============================================================================
