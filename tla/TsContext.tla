------------------------------ MODULE TsContext ------------------------------
(***************************************************************************)
(* The contexts of the TypeScript package: the log fields of context.ts    *)
(* and the propagation stack of propagation.ts, used by asynchronous tasks *)
(* that interleave at their awaits.                                        *)
(*                                                                         *)
(* On Node.js a task may carry a store of its own (AsyncLocalStorage);     *)
(* without one, and in browsers, everything is in one module-level object. *)
(* The propagation stack is module-level everywhere.  A field's value is   *)
(* named by the task that bound it.                                        *)
(***************************************************************************)
EXTENDS Integers, Sequences, FiniteSets

CONSTANTS
  Tasks,      \* tasks; Root is there from the start
  Root,
  Fields,     \* keys of log fields and of propagation contexts
  MaxCalls,   \* bound: calls of the two modules
  Absent      \* no value, no task

ASSUME TasksAssumption == Root \in Tasks /\ Absent \notin Tasks
ASSUME BoundAssumption == MaxCalls \in Nat

Context == [Fields -> Tasks \cup {Absent}]
Empty   == [f \in Fields |-> Absent]

VARIABLES
  als,      \* _asyncLocalStorage is there
  base,     \* _moduleCtx
  stores,   \* the stores of AsyncLocalStorage, in the order they were made
  store,    \* the store a task runs in, or 0
  running,  \* the synchronous runWithContext calls the thread is in, innermost last;
            \* before (history): the fields the caller had
  turn,     \* the task that has the thread while it is in one
  alive,    \* the tasks that have started
  sees,     \* history: the tasks whose fields a task may see
  active,   \* _active
  stack,    \* _stack
  calls     \* calls made

fields == <<als, base, stores, store, running, turn, alive, sees>>
trace  == <<active, stack>>
vars   == <<fields, trace, calls>>

TypeOK ==
  /\ als \in BOOLEAN /\ base \in Context
  /\ stores \in Seq(Context) /\ Len(stores) <= MaxCalls
  /\ store \in [Tasks -> 0..Len(stores)]
  /\ running \in Seq([store: 0..MaxCalls, prev: Context, before: Context]) /\ turn \in Tasks \cup {Absent}
  /\ alive \subseteq Tasks /\ sees \in [Tasks -> SUBSET Tasks]
  /\ active \in Context /\ stack \in Seq(Context) /\ calls \in 0..MaxCalls
  /\ turn = Absent <=> running = <<>>
  /\ ~als => stores = <<>>
-----------------------------------------------------------------------------
\* Operators named Mut... are mutations of the operator they precede; nothing
\* in the model uses them.

Init ==
  /\ als \in BOOLEAN
  /\ base = Empty /\ stores = <<>> /\ store = [t \in Tasks |-> 0]
  /\ running = <<>> /\ turn = Absent /\ alive = {Root} /\ sees = [t \in Tasks |-> {t}]
  /\ active = Empty /\ stack = <<>>
  /\ calls = 0

\* Object.assign and the spread of two objects.
Merge(c, d) == [f \in Fields |-> IF d[f] = Absent THEN c[f] ELSE d[f]]

\* The values a task passes: some of the fields, as its own.
Values(t, F) == [f \in Fields |-> IF f \in F THEN t ELSE Absent]

Top(s) == s[Len(s)]
Pop(s) == SubSeq(s, 1, Len(s) - 1)

\* getStore
Store(t) == IF store[t] = 0 THEN base ELSE stores[store[t]]

\* The fields of the object getStore returns become c.
Put(t, c) ==
  IF store[t] = 0 THEN base' = c /\ UNCHANGED stores
  ELSE stores' = [stores EXCEPT ![store[t]] = c] /\ UNCHANGED base

\* AsyncLocalStorage.run: the stores, and the one fn runs in.
Inherited(t, v) == Append(stores, Merge(Store(t), v))
MutRunsIn(t) == IF store[t] = 0 THEN Len(stores) + 1 ELSE store[t]
RunsIn(t) == Len(stores) + 1

\* What runWithContext keeps to put back, without AsyncLocalStorage: a copy.
MutKept(t, v) == Merge(base, v)
Kept(t, v) == Store(t)

\* What bindPropagationContext pushes: a copy of what is active before it.
MutPushed(c) == Merge(active, c)
Pushed(c) == active

\* What clearPropagationContext leaves active.
Restored == IF stack = <<>> THEN Empty ELSE Top(stack)
Left == IF stack = <<>> THEN stack ELSE Pop(stack)
-----------------------------------------------------------------------------
\* Task t calls: it has started, and no other has the thread.
Call(t) ==
  /\ t \in alive /\ turn \in {Absent, t} /\ calls < MaxCalls
  /\ calls' = calls + 1

Still == UNCHANGED <<als, store, running, turn, alive, sees, trace>>

BindContext(t, F) == Call(t) /\ Put(t, Merge(Store(t), Values(t, F))) /\ Still

UnbindContext(t, F) ==
  Call(t) /\ Put(t, [f \in Fields |-> IF f \in F THEN Absent ELSE Store(t)[f]]) /\ Still

ClearContext(t) == Call(t) /\ Put(t, Empty) /\ Still

\* runWithContext with a synchronous fn, up to the call of fn.
EnterRun(t, F) ==
  LET v == Values(t, F)
  IN /\ Call(t)
     /\ running' = Append(running, [store |-> store[t], prev |-> Kept(t, v), before |-> Store(t)])
     /\ turn' = t
     /\ IF als THEN /\ stores' = Inherited(t, v)
                    /\ store' = [store EXCEPT ![t] = RunsIn(t)]
                    /\ UNCHANGED base
               ELSE base' = Merge(base, v) /\ UNCHANGED <<stores, store>>
     /\ UNCHANGED <<als, alive, sees, trace>>

\* fn has returned or thrown.
LeaveRun(t) ==
  /\ turn = t
  /\ running' = Pop(running)
  /\ turn' = IF running' = <<>> THEN Absent ELSE t
  /\ store' = [store EXCEPT ![t] = Top(running).store]
  /\ base' = IF als THEN base ELSE Top(running).prev
  /\ UNCHANGED <<als, stores, alive, sees, trace, calls>>

\* runWithContext with an asynchronous fn, which goes on as task u after its
\* first await.  Without AsyncLocalStorage the context was put back at that
\* await, with all that fn had bound until then.
RunAsync(t, u, F) ==
  /\ Call(t) /\ u \notin alive
  /\ alive' = alive \cup {u}
  /\ sees' = [sees EXCEPT ![u] = @ \cup sees[t]]
  /\ IF als THEN stores' = Inherited(t, Values(t, F)) /\ store' = [store EXCEPT ![u] = RunsIn(t)]
            ELSE UNCHANGED <<stores, store>>
  /\ UNCHANGED <<als, base, running, turn, trace>>

\* A task that is merely started, without runWithContext, shares the store.
Start(t, u) ==
  /\ Call(t) /\ u \notin alive
  /\ alive' = alive \cup {u}
  /\ store' = [store EXCEPT ![u] = store[t]]
  /\ sees' = [x \in Tasks |->
       IF x = u \/ (x \in alive /\ store[x] = store[t]) THEN sees[x] \cup sees[t] \cup {u} ELSE sees[x]]
  /\ UNCHANGED <<als, base, stores, running, turn, trace>>

BindPropagation(t, F) ==
  /\ Call(t)
  /\ stack' = Append(stack, Pushed(Values(t, F)))
  /\ active' = Merge(active, Values(t, F))
  /\ UNCHANGED fields

ClearPropagation(t) ==
  /\ Call(t)
  /\ active' = Restored
  /\ stack' = Left
  /\ UNCHANGED fields

Next ==
  \E t \in Tasks :
    \/ \E F \in SUBSET Fields \ {{}} :
         \/ BindContext(t, F) \/ UnbindContext(t, F) \/ EnterRun(t, F) \/ BindPropagation(t, F)
         \/ \E u \in Tasks : RunAsync(t, u, F)
    \/ ClearContext(t) \/ LeaveRun(t) \/ ClearPropagation(t)
    \/ \E u \in Tasks : Start(t, u)

Spec == Init /\ [][Next]_vars
-----------------------------------------------------------------------------
\* With AsyncLocalStorage a task sees the fields that it, the tasks it shares a
\* store with and the tasks before it bound, and nobody else's: not those of
\* the tasks it started by runWithContext, nor of those started beside it.
TasksIsolated ==
  als => \A t \in alive, f \in Fields : Store(t)[f] \in sees[t] \cup {Absent}

\* A synchronous runWithContext leaves the fields of its caller as they were,
\* whatever is bound, unbound, cleared or run inside, with and without
\* AsyncLocalStorage.
RunRestores ==
  [][\A t \in Tasks : turn = t /\ Len(running') < Len(running) =>
       Store(t)' = Top(running).before]_vars

\* Once clears have emptied the stack, nothing that a task bound is left
\* active, in whatever order the binds and clears of the tasks interleave over
\* the one stack they share, with clears that have no bind among them.  The
\* comment in clearPropagationContext (propagation.ts:86) takes it for granted.
NothingLeftActive == stack = <<>> => active = Empty
=============================================================================
