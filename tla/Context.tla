------------------------------- MODULE Context -------------------------------
(***************************************************************************)
(* The context that follows a task: the logger's fields (logger/           *)
(* context.py), the trace and span ids (tracing/context.py), the stack of  *)
(* propagation.py and the current context of OpenTelemetry, which are      *)
(* contextvars: a task has its own, and starts with a copy of its          *)
(* creator's.  The ASGI middleware, the websocket helpers and the trace    *)
(* decorator bracket application code that may itself bind and clear,      *)
(* open more brackets and create tasks.                                    *)
(*                                                                         *)
(* No task touches the context of another, so an action is a whole call of *)
(* these modules, and a behavior follows one line of tasks: the first, and *)
(* from any CreateTask on the created one.  What its creator does later is *)
(* followed by the behaviors without that CreateTask.                      *)
(***************************************************************************)
EXTENDS Integers, Sequences, SequencesExt

CONSTANTS
  Remotes,    \* traceparent headers that _parse_traceparent takes, by the ids in them
  Loose,      \* those that OpenTelemetry does not take: with upper-case digits
  SpanIds,    \* ids of spans OpenTelemetry creates
  Fields,     \* what the logger's fields other than the propagated may be bound to
  MaxOpen,    \* bound: brackets a task has open
  MaxStack,   \* bound: binds on a stack
  MaxCalls,   \* bound: calls other than those of brackets
  NoIds,      \* no trace and span id
  ZeroIds,    \* the zero ids of a _NoopSpan
  Absent      \* a field that is not bound, and the None of a token

\* What extract_w3c_context finds: a traceparent that does not parse is no ids.
\* tracestate and baggage come and go with the traceparent.
Headers == Remotes \cup {NoIds}

\* The traceparent headers of a request, in order: none, one or repeated.
Scopes == {<<>>} \cup {<<h>> : h \in Headers} \cup {<<h, k>> : h \in Headers, k \in Headers}

\* get_header: the first of that name, whatever follows and whether or not it
\* can be used.
GetHeader(scope) == IF scope = <<>> THEN NoIds ELSE Head(scope)

\* request_id and session_id, from headers of their own, the baggage, or new.
RequestFields == Fields

ASSUME LooseAssumption == Loose \subseteq Remotes
ASSUME BoundAssumption == MaxOpen \in Nat \ {0} /\ MaxStack \in Nat /\ MaxCalls \in Nat

VARIABLES
  log,      \* _context: the propagated fields (trace) and the others (bound)
  ids,      \* _trace_id and _span_id
  stack,    \* _restore_stack
  otel,     \* the ids in OpenTelemetry's current context
  open,     \* the brackets the task is in, its own body the first
  calls,    \* history: calls that MaxCalls bounds
  real,     \* _has_real_tracer_provider
  parted,   \* history: the ids were not taken from OpenTelemetry's context when that
            \* was set
  strayed   \* history: a task that bound without clearing, or the reverse

vars == <<log, ids, stack, otel, parted, open, real, strayed, calls>>

Ids    == Remotes \cup SpanIds \cup {NoIds, ZeroIds}
Log    == [bound: Fields \cup {Absent}, trace: Headers]
\* A token is refused in a context other than the one it was made in.
Token  == [mine: BOOLEAN, old: Ids]
\* was, parted (history): OpenTelemetry's context at the bind, and whether the
\* ids were not from it.
Entry  == [trace: Headers, ids: Ids, token: Token \cup {Absent}, was: Ids, parted: BOOLEAN]
\* What the code of a bracket saved: the token of save_context, the ids the
\* decorator read, the context the span was attached to; and, as history, what
\* it found, and the binds in it that were not cleared.
Bracket == [kind: {"task", "request", "websocket", "span", "noop"},
            token: Log, prev: Ids, parent: Ids,
            before: [log: Log, ids: Ids, otel: Ids, depth: Nat, parted: BOOLEAN], binds: Nat]

ASSUME TokenAssumption == Absent \notin Token

TypeOK ==
  /\ log     \in Log
  /\ ids     \in Ids
  /\ stack   \in Seq(Entry) /\ Len(stack) <= MaxStack
  /\ otel    \in Ids
  /\ open    \in Seq(Bracket) /\ Len(open) \in 1..MaxOpen
  /\ real    \in BOOLEAN /\ parted \in BOOLEAN
  /\ strayed \in BOOLEAN
  /\ calls   \in 0..MaxCalls
-----------------------------------------------------------------------------
\* Operators named Mut... are mutations of the operator they precede; nothing
\* in the model uses them.

EmptyLog == [bound |-> Absent, trace |-> NoIds]
Top == Last(open)

\* save_context, and reset_context with the token of the innermost bracket.
SaveContext  == log
ResetContext == Top.token

\* A bracket of kind k that saves the fields l.
Found == [log |-> log, ids |-> ids, otel |-> otel, depth |-> Len(stack), parted |-> parted]
MutOpened(k, l) == [kind |-> k, token |-> l, prev |-> NoIds, parent |-> otel,
                    before |-> Found, binds |-> 0]
Opened(k, l) == [kind |-> k, token |-> l, prev |-> ids, parent |-> otel,
                 before |-> Found, binds |-> 0]

\* The body of a task, which saves nothing.
Body == [kind |-> "task", token |-> EmptyLog, prev |-> NoIds, parent |-> NoIds,
         before |-> [log |-> EmptyLog, ids |-> NoIds, otel |-> NoIds, depth |-> 0,
                     parted |-> FALSE],
         binds |-> 0]

\* attach_w3c_context, when there is something to attach: the context, an empty
\* one where OpenTelemetry does not take the header, and the token.
Extracted(o, h) ==
  IF h = NoIds THEN o ELSE IF h \in Loose THEN NoIds ELSE h
Attached(h) == IF h = NoIds THEN Absent ELSE [mine |-> TRUE, old |-> otel]

\* bind_propagation_context, when the fields are l: what it pushes, and the fields
\* and ids it binds.
Pushed(l, h) ==
  [trace |-> l.trace, ids |-> ids, token |-> Attached(h), was |-> otel, parted |-> parted]
Adopted(i, h) == IF h = NoIds THEN i ELSE h
Bound(l, h) == [l EXCEPT !.trace = Adopted(@, h)]
Parted(h) == IF h = NoIds THEN parted ELSE h \in Loose

\* The entry clear_propagation_context restores, and the stack after it.
Nothing == [trace |-> NoIds, ids |-> NoIds, token |-> Absent, was |-> NoIds, parted |-> FALSE]
Previous == IF stack = <<>> THEN Nothing ELSE Last(stack)
Popped == IF stack = <<>> THEN <<>> ELSE Front(stack)

\* detach_w3c_context: OpenTelemetry refuses a token of another context, with
\* an error in its log and no exception.
MutDetached(e) == otel
Detached(e) ==
  IF e.token # Absent /\ e.token.mine THEN e.token.old ELSE otel

\* The fields after clear_propagation_context, which were l.
Cleared(l, e) == [l EXCEPT !.trace = e.trace]

\* The fields when a request is over: clear_propagation_context, then
\* reset_context with the token of save_context.
MutAfterRequest == Cleared(Top.token, Previous)
AfterRequest == ResetContext

Init ==
  /\ log     = EmptyLog
  /\ ids     = NoIds
  /\ stack   = <<>>
  /\ otel    = NoIds
  /\ parted  = FALSE
  /\ open    = <<Body>>
  /\ real    = FALSE
  /\ strayed = FALSE
  /\ calls   = 0
-----------------------------------------------------------------------------
Call == calls < MaxCalls /\ calls' = calls + 1

SetContext(l, i, s, o, p) ==
  /\ log'    = l
  /\ ids'    = i
  /\ stack'  = s
  /\ otel'   = o
  /\ parted' = p

Open(k, l) ==
  /\ Len(open) < MaxOpen
  /\ open' = Append(open, Opened(k, l))
  /\ UNCHANGED strayed

\* The task leaves its innermost bracket.
Close(kinds) ==
  /\ Len(open) > 1 /\ Top.kind \in kinds
  /\ open'    = Front(open)
  /\ strayed' = (strayed \/ Top.binds # 0)
  /\ UNCHANGED <<real, calls>>

\* The middleware until it calls the application: request and session id,
\* then the propagated context.
BeginRequest(v, h) ==
  LET l == [log EXCEPT !.bound = v] IN
  /\ Len(stack) < MaxStack
  /\ Open("request", SaveContext)
  /\ SetContext(Bound(l, h), Adopted(ids, h), Append(stack, Pushed(l, h)),
                Extracted(otel, h), Parted(h))
  /\ UNCHANGED <<real, calls>>

\* Its finally, however the application ended.
EndRequest ==
  /\ Close({"request"})
  /\ SetContext(AfterRequest, Previous.ids, Popped, Detached(Previous), Previous.parted)

\* bind_websocket_context and clear_websocket_context
BindWebsocket(v) ==
  /\ Open("websocket", SaveContext)
  /\ log' = [log EXCEPT !.bound = v]
  /\ UNCHANGED <<ids, stack, otel, parted, real, calls>>

ClearWebsocket ==
  /\ Close({"websocket"})
  /\ log' = ResetContext
  /\ UNCHANGED <<ids, stack, otel, parted>>

\* setup_tracing or shutdown_tracing, in any thread.
Provide == Call /\ real' = ~real

\* The trace decorator enters a span, get_tracer's choice: OpenTelemetry's, or a
\* _NoopSpan.  _sync_otel_trace_context chooses for itself, perhaps after a
\* setup or a shutdown, whether to take the ids of OpenTelemetry's context.
StartSpan(i) ==
  /\ Open(IF real THEN "span" ELSE "noop", log)
  /\ UNCHANGED <<real, calls>> \/ Provide
  /\ otel'   = IF real THEN i ELSE otel
  /\ ids'    = CASE real' /\ otel' # NoIds -> otel'
                 [] real /\ ~real'         -> ids
                 [] OTHER                  -> ZeroIds
  /\ parted' = (real /\ ~real')
  /\ UNCHANGED <<log, stack>>

\* The traced function returned or raised.
EndSpan ==
  /\ Close({"span", "noop"})
  /\ ids'  = Top.prev
  /\ otel' = IF Top.kind = "span" THEN Top.parent ELSE otel
  /\ parted' = Top.before.parted
  /\ UNCHANGED <<log, stack>>
-----------------------------------------------------------------------------
\* The application propagates by hand; it strays where it clears what the
\* bracket it is in did not bind.
BindPropagation(h) ==
  /\ Call
  /\ Len(stack) < MaxStack
  /\ SetContext(Bound(log, h), Adopted(ids, h), Append(stack, Pushed(log, h)),
                Extracted(otel, h), Parted(h))
  /\ open' = [open EXCEPT ![Len(open)].binds = @ + 1]
  /\ UNCHANGED <<real, strayed>>

ClearPropagation ==
  /\ Call
  /\ SetContext(Cleared(log, Previous), Previous.ids, Popped,
                Detached(Previous), Previous.parted)
  /\ open' = [open EXCEPT ![Len(open)].binds = IF @ > 0 THEN @ - 1 ELSE @]
  /\ strayed' = (strayed \/ Top.binds = 0)
  /\ UNCHANGED real

\* bind_context, unbind_context, bind_session_context, clear_session_context
BindField(v) ==
  /\ Call
  /\ log' = [log EXCEPT !.bound = v]
  /\ UNCHANGED <<ids, stack, otel, parted, open, real, strayed>>

\* clear_context
ClearFields ==
  /\ Call
  /\ log' = EmptyLog
  /\ UNCHANGED <<ids, stack, otel, parted, open, real, strayed>>

\* A task is created, with a copy of the context and no bracket of its own.
CreateTask ==
  /\ Call
  /\ stack' = [n \in 1..Len(stack) |->
                 IF stack[n].token = Absent THEN stack[n]
                 ELSE [stack[n] EXCEPT !.token.mine = FALSE]]
  /\ open'  = <<Body>>
  /\ UNCHANGED <<log, ids, otel, parted, real, strayed>>

Provider == Provide /\ UNCHANGED <<log, ids, stack, otel, parted, open, strayed>>

Next ==
  \/ \E v \in RequestFields, scope \in Scopes : BeginRequest(v, GetHeader(scope))
  \/ \E v \in Fields : BindWebsocket(v) \/ BindField(v)
  \/ \E i \in SpanIds : StartSpan(i)
  \/ \E h \in Headers : BindPropagation(h)
  \/ EndRequest \/ ClearWebsocket \/ EndSpan
  \/ ClearPropagation \/ ClearFields \/ CreateTask
  \/ Provider

Spec == Init /\ [][Next]_vars
-----------------------------------------------------------------------------
\* The ids in logs and exemplars are those of the current OpenTelemetry
\* context (a _NoopSpan aside), through requests, spans, binds and clears in
\* any nesting, a shutdown in between, and in tasks created anywhere: as long
\* as binds and clears come in pairs.  What parts them is a shutdown while a
\* span starts, and a header that only one of the two parsers takes; once the
\* bracket or the bind that did is over they are in step again.
InStep == ~strayed /\ ~parted /\ ids # ZeroIds => ids = otel

Closes(k) == Top.kind = k /\ Len(open') < Len(open) /\ calls' = calls

\* A request or a websocket leaves the logger's fields as it found them,
\* whatever the application bound, cleared or left bound in between (the
\* finally of the middleware).
RequestRestoresFields ==
  [][\A k \in {"request", "websocket"} :
       Closes(k) => log' = Top.before.log]_vars

\* A bracket leaves the ids, the context of OpenTelemetry and the stack as it
\* found them, as long as binds and clears came in pairs: nested brackets, and
\* tasks created inside that still hold its tokens, do not change that.
BracketRestoresTrace ==
  [][\A k \in {"request", "websocket", "span", "noop"} :
       Closes(k) /\ ~strayed' =>
         /\ ids' = Top.before.ids
         /\ otel' = Top.before.otel
         /\ Len(stack') = Top.before.depth]_vars
=============================================================================
