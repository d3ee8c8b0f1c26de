--------------------------- MODULE AsyncProgress ---------------------------
(***************************************************************************)
(* Progress reports (ostree-async-progress.c).  Any thread sets values     *)
(* under the lock; an idle source of the object's main context then emits  *)
(* "changed" without the lock, and what is connected to it reads the       *)
(* values.  Finishing ends this, from the context's own thread or another. *)
(***************************************************************************)
EXTENDS Integers, FiniteSets

CONSTANTS Keys, MaxSets

VARIABLES values,    \* what is set: a version for each key
          idle,      \* idle_source is set
          dead,
          ctxpc,     \* the context's thread: free, dispatch or emit
          finish,    \* [by |-> own or other, pc |-> no, emit or done]
          seen,      \* the values at the last emission of the signal
          sets,      \* calls made, at most MaxSets
          late       \* the signal was emitted after finish returned

progressVars == <<values, idle, dead, ctxpc, finish, seen, sets, late>>

ProgressInit ==
  /\ values = [k \in Keys |-> 0] /\ seen = values
  /\ idle = FALSE /\ dead = FALSE /\ late = FALSE
  /\ ctxpc = "free" /\ sets = 0
  /\ finish \in [by : {"own", "other"}, pc : {"no"}]

-----------------------------------------------------------------------------
\* The idle source is attached only if none of the values is new.
MutSet(new) ==
  /\ sets < MaxSets /\ sets' = sets + 1
  /\ IF dead THEN UNCHANGED <<values, idle>>
     ELSE /\ values' = [k \in Keys |-> IF k \in DOMAIN new THEN new[k] ELSE values[k]]
          /\ idle' = (idle \/ \A k \in DOMAIN new : new[k] # values[k])
  /\ UNCHANGED <<dead, ctxpc, finish, seen, late>>

\* ostree_async_progress_set and _set_variant: all under the lock; the source is
\* attached if some value differs (ensure_callback_locked).
ostree_async_progress_set(new) ==
  /\ sets < MaxSets /\ sets' = sets + 1
  /\ IF dead THEN UNCHANGED <<values, idle>>
     ELSE /\ values' = [k \in Keys |-> IF k \in DOMAIN new THEN new[k] ELSE values[k]]
          /\ idle' = (idle \/ \E k \in DOMAIN new : new[k] # values[k])
  /\ UNCHANGED <<dead, ctxpc, finish, seen, late>>

\* The context dispatches the source, unless its thread is in finish.
DispatchIdle ==
  /\ idle /\ ctxpc = "free" /\ ~(finish.by = "own" /\ finish.pc = "emit")
  /\ ctxpc' = "dispatch"
  /\ UNCHANGED <<values, idle, dead, finish, seen, sets, late>>

\* idle_invoke_async_progress: idle_source is cleared under the lock ...
idle_invoke_async_progress ==
  /\ ctxpc = "dispatch"
  /\ idle' = FALSE
  /\ ctxpc' = "emit"
  /\ UNCHANGED <<values, dead, finish, seen, sets, late>>

\* ... and then the signal is emitted, on which the values are read.
EmitChanged ==
  /\ ctxpc = "emit"
  /\ seen' = values
  /\ ctxpc' = "free"
  /\ late' = (late \/ finish.pc = "done")
  /\ UNCHANGED <<values, idle, dead, finish, sets>>

\* The source stays attached.
MutKeepSource ==
  /\ finish.pc = "no" /\ (finish.by = "own" => ctxpc = "free")
  /\ dead' = TRUE
  /\ finish' = [finish EXCEPT !.pc = IF idle THEN "emit" ELSE "done"]
  /\ UNCHANGED <<values, idle, ctxpc, seen, sets, late>>

\* What is pending is dropped.
MutFinish ==
  /\ finish.pc = "no" /\ (finish.by = "own" => ctxpc = "free")
  /\ dead' = TRUE /\ idle' = FALSE
  /\ finish' = [finish EXCEPT !.pc = "done"]
  /\ UNCHANGED <<values, ctxpc, seen, sets, late>>

\* ostree_async_progress_finish: nothing gets set any more, and the source goes.
ostree_async_progress_finish ==
  /\ finish.pc = "no" /\ (finish.by = "own" => ctxpc = "free")
  /\ dead' = TRUE /\ idle' = FALSE
  /\ finish' = [finish EXCEPT !.pc = IF idle THEN "emit" ELSE "done"]
  /\ UNCHANGED <<values, ctxpc, seen, sets, late>>

\* What was pending is emitted by finish itself.
FinishEmits ==
  /\ finish.pc = "emit"
  /\ seen' = values
  /\ finish' = [finish EXCEPT !.pc = "done"]
  /\ UNCHANGED <<values, idle, dead, ctxpc, sets, late>>

ProgressStep == DispatchIdle \/ idle_invoke_async_progress \/ EmitChanged \/ FinishEmits

ProgressNext ==
  \/ \E ks \in SUBSET Keys \ {{}} : \E new \in [ks -> 0 .. 2] : ostree_async_progress_set(new)
  \/ ostree_async_progress_finish
  \/ ProgressStep
  \/ finish.pc = "done" /\ sets = MaxSets /\ UNCHANGED progressVars

-----------------------------------------------------------------------------
(* No update is lost: with no source attached, none being dispatched and   *)
(* no signal being emitted, the last signal showed the current values.     *)
NoUpdateLost == ~idle /\ ctxpc = "free" /\ finish.pc # "emit" => seen = values

(* Once finish, called by the context's own thread, has returned the       *)
(* signal is not emitted any more.                                         *)
QuietAfterFinish == finish.by = "own" => ~late

(* The same when another thread has called it.  "Process any pending       *)
(* signals ... Also ensures that no further events will be queued."        *)
QuietAfterAnyFinish == ~late

(* The values that are set last get shown, and nothing after finish.       *)
LastValuesShown ==
  /\ seen = values
  /\ NoUpdateLost
  /\ QuietAfterFinish
=============================================================================
