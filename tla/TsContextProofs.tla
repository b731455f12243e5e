--------------------------- MODULE TsContextProofs ---------------------------
(***************************************************************************)
(* Theorems about TsContext, for every set of tasks and fields and any     *)
(* number of calls.                                                        *)
(***************************************************************************)
EXTENDS TsContext, SequenceTheorems, TLAPS

\* The fields in store n, of the module-level object b and the stores s.
Held(b, s, n) == IF n = 0 THEN b ELSE s[n]

(***************************************************************************)
(* The inductive invariant, in two parts that no step disturbs together.   *)
(*                                                                         *)
(* Fields.  A synchronous run makes a store that is newer than those its   *)
(* callers run in, and nothing writes to those before it returns; what     *)
(* they hold is what was found there, and was bound by tasks that the one  *)
(* with the thread may see.  Tasks that share a store see each other.      *)
(***************************************************************************)
Called ==
  /\ Len(stores) <= calls
  /\ turn # Absent => turn \in alive
  /\ ~als => \A t \in Tasks : store[t] = 0
  /\ \A t \in Tasks : t \in sees[t]

Kin(i) ==
  /\ \A f \in Fields : running[i].before[f] \in sees[turn] \cup {Absent}
  /\ \A y \in alive \ {turn} :
       store[y] = running[i].store => y \in sees[turn] /\ turn \in sees[y]

Frames ==
  \A i \in 1..Len(running) :
    /\ running[i].store <= Len(stores)
    /\ running[i].prev = running[i].before
    /\ ~als => running[i].store = 0
    /\ als => /\ running[i].store < store[turn]
              /\ Held(base, stores, running[i].store) = running[i].before
              /\ \A j \in 1..Len(running) : i < j => running[i].store < running[j].store
              /\ Kin(i)

Shared == als => \A x, y \in alive : store[x] = store[y] => x \in sees[y]

\* Propagation.  The first thing saved is that nothing was active.
Saved ==
  /\ stack = <<>> => active = Empty
  /\ stack # <<>> => stack[1] = Empty

IInv ==
  /\ TypeOK
  /\ Called
  /\ Frames
  /\ Shared
  /\ TasksIsolated
  /\ Saved
-----------------------------------------------------------------------------
Frame == [store: 0..MaxCalls, prev: Context, before: Context]

LEMMA EmptyType == Empty \in Context
BY DEF Empty, Context

LEMMA ValuesType ==
  ASSUME NEW t \in Tasks, NEW F PROVE Values(t, F) \in Context
BY DEF Values, Context

LEMMA MergeType ==
  ASSUME NEW c \in Context, NEW d \in Context PROVE Merge(c, d) \in Context
BY DEF Merge, Context

LEMMA StoreType ==
  ASSUME TypeOK, NEW t \in Tasks
  PROVE  /\ Store(t) \in Context /\ Store(t) = Held(base, stores, store[t])
         /\ store[t] \in Nat /\ store[t] <= Len(stores) /\ Len(stores) \in Nat
<1>1. /\ store[t] \in 0..Len(stores) /\ stores \in Seq(Context) /\ base \in Context
      /\ Len(stores) \in Nat
  BY DEF TypeOK
<1>2. store[t] # 0 => stores[store[t]] \in Context
  BY <1>1
<1> QED
  BY <1>1, <1>2 DEF Store, Held

\* The last element, and what is left without it.
LEMMA PopType ==
  ASSUME NEW S, NEW s \in Seq(S), s # <<>>
  PROVE  /\ Len(s) \in Nat \ {0}
         /\ Top(s) \in S /\ Top(s) = s[Len(s)]
         /\ Pop(s) \in Seq(S)
         /\ Len(Pop(s)) = Len(s) - 1
         /\ \A i \in 1..Len(s) - 1 : Pop(s)[i] = s[i]
<1>1. Len(s) \in Nat \ {0}
  BY EmptySeq, LenProperties
<1>2. Top(s) \in S
  BY <1>1 DEF Top
<1>3. /\ Pop(s) \in Seq(S)
      /\ Len(Pop(s)) = Len(s) - 1
      /\ \A i \in 1..Len(s) - 1 : Pop(s)[i] = s[i]
  <2> DEFINE n == Len(s) - 1
  <2>1. n \in Int /\ 1 \in Int /\ \A i \in 1..n : s[i] \in S
    BY <1>1
  <2>2. n = (IF 1 <= n THEN n - 1 + 1 ELSE 0) /\ n - 1 + 1 = n
    BY <1>1
  <2>3. Pop(s) = SubSeq(s, 1, n)
    BY DEF Pop
  <2> HIDE DEF n
  <2>4. /\ SubSeq(s, 1, n) \in Seq(S)
        /\ Len(SubSeq(s, 1, n)) = IF 1 <= n THEN n - 1 + 1 ELSE 0
        /\ \A i \in 1..n - 1 + 1 : SubSeq(s, 1, n)[i] = s[1 + i - 1]
    BY <2>1, SubSeqProperties
  <2>5. \A i \in 1..n : 1 + i - 1 = i
    BY <2>1
  <2> QED
    BY <2>2, <2>3, <2>4, <2>5 DEF n
<1> QED
  BY <1>1, <1>2, <1>3 DEF Top

LEMMA InitInv == Init => IInv
<1> SUFFICES ASSUME Init PROVE IInv
  OBVIOUS
<1>1. store \in [Tasks -> 0..0] /\ Len(stores) = 0 /\ Len(running) = 0 /\ Len(stack) = 0
  BY DEF Init
<1>2. sees \in [Tasks -> SUBSET Tasks] /\ alive \subseteq Tasks
  BY TasksAssumption DEF Init
<1>3. TypeOK
  <2>1. /\ als \in BOOLEAN /\ base \in Context /\ active \in Context
        /\ stores \in Seq(Context) /\ stack \in Seq(Context) /\ stores = <<>> /\ Len(stores) <= MaxCalls
    BY <1>1, EmptyType, BoundAssumption DEF Init
  <2>2. store \in [Tasks -> 0..Len(stores)]
    BY <1>1
  <2>3. running \in Seq([store: 0..MaxCalls, prev: Context, before: Context])
    BY DEF Init
  <2>4. calls \in 0..MaxCalls
    BY BoundAssumption DEF Init
  <2> QED
    BY <1>1, <1>2, <2>1, <2>2, <2>3, <2>4 DEF Init, TypeOK
<1>4. Called /\ Frames /\ Shared /\ Saved
  BY <1>1, BoundAssumption, TasksAssumption DEF Init, Called, Frames, Shared, Saved
<1>5. TasksIsolated
  BY TasksAssumption DEF Init, TasksIsolated, Store, Empty
<1> QED
  BY <1>3, <1>4, <1>5 DEF IInv

\* What a call of the thread leaves of the propagation stack, and the reverse.
LEMMA TraceUnchanged == IInv /\ UNCHANGED trace => Saved'
BY DEF IInv, Saved, trace

LEMMA FieldsUnchanged ==
  ASSUME IInv, UNCHANGED fields, calls' \in 0..MaxCalls, calls <= calls'
  PROVE  Called' /\ Frames' /\ Shared' /\ TasksIsolated'
<1>1. Len(stores) \in Nat /\ calls \in Nat /\ calls' \in Nat
  BY BoundAssumption DEF IInv, TypeOK
<1>2. Called'
  BY <1>1 DEF IInv, Called, fields
<1>3. Frames'
  BY DEF IInv, Frames, Kin, Held, fields
<1>4. Shared' /\ TasksIsolated'
  BY DEF IInv, Shared, TasksIsolated, Store, fields
<1> QED
  BY <1>2, <1>3, <1>4

LEMMA CallType ==
  ASSUME IInv, NEW t \in Tasks, Call(t)
  PROVE  /\ calls' \in 0..MaxCalls /\ calls' = calls + 1 /\ calls \in Nat
         /\ t \in alive /\ (running = <<>> \/ turn = t) /\ Len(running) \in Nat
         /\ Len(stores) < MaxCalls /\ Len(stores) < calls' /\ Len(stores) \in Nat
BY BoundAssumption DEF IInv, TypeOK, Called, Call
-----------------------------------------------------------------------------
\* A call that changes the fields of the store of its task, to values that the
\* task may see.
LEMMA PutInv ==
  ASSUME IInv, NEW t \in Tasks, Call(t), Still, NEW c \in Context, Put(t, c),
         als => \A f \in Fields : c[f] \in {t, Absent, Store(t)[f]}
  PROVE  IInv'
<1>0. UNCHANGED <<als, store, running, turn, alive, sees, active, stack>>
  BY DEF Still, trace
<1>1. /\ calls' \in 0..MaxCalls /\ calls' = calls + 1 /\ calls \in Nat
      /\ t \in alive /\ (running = <<>> \/ turn = t)
      /\ Len(stores) < MaxCalls /\ Len(stores) < calls' /\ Len(stores) \in Nat
  BY CallType
<1>2. /\ base' \in Context /\ stores' \in Seq(Context) /\ Len(stores') = Len(stores)
      /\ (~als => stores' = <<>>)
  <2>1. CASE store[t] = 0
    BY <2>1 DEF Put, IInv, TypeOK
  <2>2. CASE store[t] # 0
    <3>1. /\ stores' = [stores EXCEPT ![store[t]] = c] /\ base' = base
          /\ store[t] \in 1..Len(stores) /\ stores \in Seq(Context) /\ base \in Context
      BY <2>2 DEF Put, IInv, TypeOK
    <3>2. als
      BY <2>2 DEF IInv, Called
    <3> QED
      BY <3>1, <3>2, ExceptSeq
  <2> QED
    BY <2>1, <2>2
<1>3. TypeOK'
  BY <1>0, <1>1, <1>2 DEF IInv, TypeOK
<1>4. Called'
  BY <1>0, <1>1, <1>2 DEF IInv, Called
<1>5. \A n \in 0..Len(stores) :
        Held(base', stores', n) = IF n = store[t] THEN c ELSE Held(base, stores, n)
  BY <1>1 DEF Held, Put, IInv, TypeOK
<1>6. Frames'
  <2> SUFFICES ASSUME NEW i \in 1..Len(running)
               PROVE  (/\ running[i].store <= Len(stores)
                       /\ running[i].prev = running[i].before
                       /\ ~als => running[i].store = 0
                       /\ als => /\ running[i].store < store[turn]
                                 /\ Held(base, stores, running[i].store) = running[i].before
                                 /\ \A j \in 1..Len(running) : i < j => running[i].store < running[j].store
                                 /\ Kin(i))'
    BY <1>0 DEF Frames
  <2>0. running \in Seq(Frame)
    BY DEF IInv, TypeOK, Frame
  <2>1. turn = t /\ running[i] \in Frame /\ running[i].store \in 0..Len(stores)
    <3>1. running # <<>>
      BY <2>0
    <3>2. running[i] \in Frame
      BY <2>0, ElementOfSeq
    <3>3. running[i].store \in Nat /\ running[i].store <= Len(stores)
      BY <3>2 DEF Frame, IInv, Frames
    <3> QED
      BY <1>1, <3>1, <3>2, <3>3
  <2>2. als => Held(base', stores', running[i].store) = Held(base, stores, running[i].store)
    <3>1. als => running[i].store < store[t]
      BY <2>1 DEF IInv, Frames
    <3>2. store[t] \in Nat
      BY StoreType DEF IInv
    <3> QED
      BY <2>1, <3>1, <3>2, <1>5
  <2>3. Kin(i) => Kin(i)'
    BY <1>0 DEF Kin
  <2> QED
    BY <1>0, <1>2, <2>2, <2>3 DEF IInv, Frames
<1>7. Shared'
  BY <1>0 DEF IInv, Shared
<1>8. TasksIsolated'
  <2> SUFFICES ASSUME als, NEW x \in alive, NEW f \in Fields
               PROVE  Store(x)'[f] \in sees[x] \cup {Absent}
    BY <1>0 DEF TasksIsolated
  <2>1. x \in Tasks /\ Store(x)' = Held(base', stores', store[x]) /\ Store(x) = Held(base, stores, store[x]) /\ store[x] \in 0..Len(stores)
    BY <1>0, <1>3, StoreType DEF IInv, TypeOK, Store, Held
  <2>2. CASE store[x] # store[t]
    BY <2>1, <2>2, <1>5 DEF IInv, TasksIsolated
  <2>3. CASE store[x] = store[t]
    <3>1. Store(x)' = c /\ Store(x) = Store(t)
      BY <2>1, <2>3, <1>5 DEF Store, Held
    <3>2. t \in sees[x]
      BY <2>3, <1>1 DEF IInv, Shared
    <3>3. Store(x)[f] \in sees[x] \cup {Absent}
      BY DEF IInv, TasksIsolated
    <3> QED
      BY <3>1, <3>2, <3>3
  <2> QED
    BY <2>2, <2>3
<1>9. Saved'
  BY <1>0, TraceUnchanged DEF trace
<1> QED
  BY <1>3, <1>4, <1>6, <1>7, <1>8, <1>9 DEF IInv

LEMMA BindContextInv ==
  ASSUME IInv, NEW t \in Tasks, NEW F \in SUBSET Fields, BindContext(t, F) PROVE IInv'
<1> DEFINE c == Merge(Store(t), Values(t, F))
<1>1. Store(t) \in Context
  BY StoreType DEF IInv
<1>2. c \in Context
  BY <1>1, ValuesType, MergeType
<1>3. \A f \in Fields : c[f] \in {t, Absent, Store(t)[f]}
  BY DEF Merge, Values
<1>4. Call(t) /\ Put(t, c) /\ Still
  BY DEF BindContext
<1> HIDE DEF c
<1> QED
  BY <1>2, <1>3, <1>4, PutInv

LEMMA UnbindContextInv ==
  ASSUME IInv, NEW t \in Tasks, NEW F \in SUBSET Fields, UnbindContext(t, F) PROVE IInv'
<1> DEFINE c == [f \in Fields |-> IF f \in F THEN Absent ELSE Store(t)[f]]
<1>1. Store(t) \in Context
  BY StoreType DEF IInv
<1>2. c \in Context
  BY <1>1 DEF Context
<1>3. \A f \in Fields : c[f] \in {t, Absent, Store(t)[f]}
  OBVIOUS
<1>4. Call(t) /\ Put(t, c) /\ Still
  BY DEF UnbindContext
<1> HIDE DEF c
<1> QED
  BY <1>2, <1>3, <1>4, PutInv

LEMMA ClearContextInv ==
  ASSUME IInv, NEW t \in Tasks, ClearContext(t) PROVE IInv'
<1>1. \A f \in Fields : Empty[f] \in {t, Absent, Store(t)[f]}
  BY DEF Empty
<1>2. Call(t) /\ Put(t, Empty) /\ Still
  BY DEF ClearContext
<1> QED
  BY <1>1, <1>2, EmptyType, PutInv
-----------------------------------------------------------------------------
\* A step that makes a store: the older ones stay as they are, and what is
\* inherited are fields that the task saw, and its own.
LEMMA Inherits ==
  ASSUME IInv, NEW t \in alive, NEW F, stores' = Inherited(t, Values(t, F)), base' = base
  PROVE  /\ stores' \in Seq(Context) /\ Len(stores') = Len(stores) + 1 /\ Len(stores) \in Nat
         /\ \A n \in 0..Len(stores) : Held(base', stores', n) = Held(base, stores, n)
         /\ RunsIn(t) = Len(stores) + 1
         /\ als => \A f \in Fields : Held(base', stores', RunsIn(t))[f] \in sees[t] \cup {Absent}
<1> DEFINE c == Merge(Store(t), Values(t, F))
<1>1. t \in Tasks /\ stores \in Seq(Context) /\ Len(stores) \in Nat
  BY DEF IInv, TypeOK
<1>2. c \in Context
  BY <1>1, StoreType, ValuesType, MergeType DEF IInv
<1>3. als => \A f \in Fields : c[f] \in sees[t] \cup {Absent}
  <2>1. als => t \in sees[t]
    BY DEF IInv, Shared
  <2>2. als => \A f \in Fields : Store(t)[f] \in sees[t] \cup {Absent}
    BY DEF IInv, TasksIsolated
  <2>3. \A f \in Fields : c[f] \in {t, Store(t)[f]}
    BY DEF Merge, Values
  <2> HIDE DEF c
  <2> QED
    BY <2>1, <2>2, <2>3
<1>4. stores' = Append(stores, c)
  BY DEF Inherited
<1> HIDE DEF c
<1>5. /\ stores' \in Seq(Context) /\ Len(stores') = Len(stores) + 1
      /\ \A n \in 1..Len(stores) : stores'[n] = stores[n]
      /\ stores'[Len(stores) + 1] = c
  BY <1>1, <1>2, <1>4
<1>6. \A n \in 0..Len(stores) : Held(base', stores', n) = Held(base, stores, n)
  BY <1>1, <1>5 DEF Held
<1>7. RunsIn(t) = Len(stores) + 1 /\ Held(base', stores', RunsIn(t)) = c
  BY <1>1, <1>5 DEF RunsIn, Held
<1> QED
  BY <1>1, <1>3, <1>5, <1>6, <1>7

LEMMA EnterRunInv ==
  ASSUME IInv, NEW t \in Tasks, NEW F \in SUBSET Fields, EnterRun(t, F) PROVE IInv'
<1> DEFINE fr == [store |-> store[t], prev |-> Store(t), before |-> Store(t)]
<1>1. /\ Call(t) /\ running' = Append(running, fr) /\ turn' = t
      /\ UNCHANGED <<als, alive, sees, trace>>
  BY DEF EnterRun, Kept
<1>2. /\ calls' \in 0..MaxCalls /\ calls' = calls + 1 /\ calls \in Nat
      /\ t \in alive /\ (running = <<>> \/ turn = t) /\ Len(running) \in Nat
      /\ Len(stores) < MaxCalls /\ Len(stores) < calls' /\ Len(stores) \in Nat
  BY <1>1, CallType
<1>3. /\ Store(t) \in Context /\ Store(t) = Held(base, stores, store[t])
      /\ store[t] \in Nat /\ store[t] <= Len(stores) /\ Len(stores) \in Nat
  BY StoreType DEF IInv
<1>4. fr \in Frame /\ running \in Seq(Frame) /\ MaxCalls \in Nat
  BY <1>2, <1>3, BoundAssumption DEF Frame, IInv, TypeOK
<1>5. fr.store = store[t] /\ fr.prev = Store(t) /\ fr.before = Store(t)
  OBVIOUS
<1> HIDE DEF fr
<1>6. /\ running' \in Seq(Frame) /\ running' # <<>> /\ Len(running') = Len(running) + 1
      /\ \A i \in 1..Len(running) : running'[i] = running[i]
      /\ running'[Len(running) + 1] = fr
  BY <1>1, <1>2, <1>4
<1>7. Saved'
  BY <1>1, TraceUnchanged
<1>8. CASE ~als
  <2>1. base' = Merge(base, Values(t, F)) /\ UNCHANGED <<stores, store>>
    BY <1>8 DEF EnterRun
  <2>2. base' \in Context
    BY <2>1, ValuesType, MergeType DEF IInv, TypeOK
  <2>3. TypeOK'
    BY <1>1, <1>2, <1>6, <2>1, <2>2, TasksAssumption DEF IInv, TypeOK, Frame, trace
  <2>4. Called' /\ Shared' /\ TasksIsolated'
    BY <1>1, <1>2, <1>8, <2>1 DEF IInv, Called, Shared, TasksIsolated
  <2>5. store[t] = 0
    BY <1>8 DEF IInv, Called
  <2>6. Frames'
    <3> SUFFICES ASSUME NEW i \in 1..Len(running) + 1
                 PROVE  /\ running'[i].store <= Len(stores)
                        /\ running'[i].prev = running'[i].before
                        /\ running'[i].store = 0
      BY <1>1, <1>6, <1>8, <2>1 DEF Frames
    <3>1. CASE i = Len(running) + 1
      BY <3>1, <1>3, <1>5, <1>6, <2>5
    <3>2. CASE i \in 1..Len(running)
      BY <3>2, <1>6, <1>8 DEF IInv, Frames
    <3> QED
      BY <3>1, <3>2, <1>2
  <2> QED
    BY <1>7, <2>3, <2>4, <2>6 DEF IInv
<1>9. CASE als
  <2>1. /\ stores' = Inherited(t, Values(t, F)) /\ base' = base
        /\ store' = [store EXCEPT ![t] = RunsIn(t)]
    BY <1>9 DEF EnterRun
  <2>2. /\ stores' \in Seq(Context) /\ Len(stores') = Len(stores) + 1
        /\ \A n \in 0..Len(stores) : Held(base', stores', n) = Held(base, stores, n)
        /\ RunsIn(t) = Len(stores) + 1
        /\ \A f \in Fields : Held(base', stores', RunsIn(t))[f] \in sees[t] \cup {Absent}
    BY <1>2, <1>9, <2>1, Inherits
  <2>3. /\ store' \in [Tasks -> 0..Len(stores')] /\ store'[t] = Len(stores) + 1
        /\ \A y \in Tasks : store[y] \in 0..Len(stores) /\ (y # t => store'[y] = store[y])
    BY <1>2, <2>1, <2>2 DEF IInv, TypeOK
  <2>4. TypeOK'
    <3>1. Len(stores') <= MaxCalls /\ base' \in Context
      BY <1>2, <1>4, <2>1, <2>2 DEF IInv, TypeOK
    <3>2. running' \in Seq([store: 0..MaxCalls, prev: Context, before: Context])
      BY <1>6 DEF Frame
    <3>3. turn' \in Tasks \cup {Absent} /\ (turn' = Absent <=> running' = <<>>)
      BY <1>1, <1>6, TasksAssumption
    <3> QED
      BY <1>1, <1>2, <1>9, <2>2, <2>3, <3>1, <3>2, <3>3 DEF IInv, TypeOK, trace
  <2>5. Called'
    BY <1>1, <1>2, <1>9, <2>2 DEF IInv, Called
  <2>6. Shared'
    <3> SUFFICES ASSUME NEW x \in alive, NEW y \in alive, store'[x] = store'[y] PROVE x \in sees[y]
      BY <1>1 DEF Shared
    <3>1. x \in Tasks /\ y \in Tasks
      BY DEF IInv, TypeOK
    <3>2. store[x] = store[y]
      BY <3>1, <1>2, <2>3
    <3> QED
      BY <3>2, <1>9 DEF IInv, Shared
  <2>7. \A x \in Tasks : Store(x)' = Held(base', stores', store'[x])
    BY DEF Store, Held
  <2>8. TasksIsolated'
    <3> SUFFICES ASSUME NEW x \in alive, NEW f \in Fields
                 PROVE  Store(x)'[f] \in sees[x] \cup {Absent}
      BY <1>1 DEF TasksIsolated
    <3>1. CASE x = t
      BY <3>1, <2>2, <2>3, <2>7
    <3>2. CASE x # t
      <4>1. x \in Tasks /\ Store(x) = Held(base, stores, store[x])
        BY StoreType DEF IInv, TypeOK
      <4>2. Store(x)' = Store(x)
        BY <3>2, <4>1, <2>2, <2>3, <2>7
      <4> QED
        BY <4>2, <1>9 DEF IInv, TasksIsolated
    <3> QED
      BY <3>1, <3>2
  <2>9. Frames'
    <3> SUFFICES ASSUME NEW i \in 1..Len(running) + 1
                 PROVE  /\ running'[i].store <= Len(stores')
                        /\ running'[i].prev = running'[i].before
                        /\ running'[i].store < store'[t]
                        /\ Held(base', stores', running'[i].store) = running'[i].before
                        /\ \A j \in 1..Len(running) + 1 : i < j => running'[i].store < running'[j].store
                        /\ \A f \in Fields : running'[i].before[f] \in sees[t] \cup {Absent}
                        /\ \A y \in alive \ {t} :
                              store'[y] = running'[i].store => y \in sees[t] /\ t \in sees[y]
      BY <1>1, <1>6, <1>9 DEF Frames, Kin
    <3>1. CASE i = Len(running) + 1
      <4>1. running'[i] = fr
        BY <3>1, <1>6
      <4>2. \A f \in Fields : fr.before[f] \in sees[t] \cup {Absent}
        BY <1>2, <1>5, <1>9 DEF IInv, TasksIsolated
      <4>3. \A y \in alive \ {t} : store'[y] = fr.store => y \in sees[t] /\ t \in sees[y]
        BY <1>2, <1>5, <1>9, <2>3 DEF IInv, TypeOK, Shared
      <4>4. Held(base', stores', fr.store) = fr.before
        BY <1>3, <1>5, <2>2
      <4>5. fr.store <= Len(stores') /\ fr.store < store'[t] /\ fr.prev = fr.before
        BY <1>3, <1>5, <2>2, <2>3
      <4>6. \A j \in 1..Len(running) + 1 : ~(i < j)
        BY <3>1, <1>2
      <4> QED
        BY <4>1, <4>2, <4>3, <4>4, <4>5, <4>6
    <3>2. CASE i \in 1..Len(running)
      <4>1. turn = t
        BY <3>2, <1>2, <1>4
      <4>2. running[i].store < store[t] /\ Kin(i)
        BY <3>2, <4>1, <1>9 DEF IInv, Frames
      <4>3. running[i] \in Frame
        BY <3>2, <1>4, ElementOfSeq
      <4>4. running[i].store < store'[t] /\ store'[t] \in Nat /\ Len(stores') \in Nat
        BY <4>2, <4>3, <1>3, <2>2, <2>3 DEF Frame
      <4>5. /\ running[i].store <= Len(stores')
            /\ running[i].prev = running[i].before
            /\ running[i].store < store'[t]
            /\ Held(base', stores', running[i].store) = running[i].before
            /\ \A j \in 1..Len(running) : i < j => running[i].store < running[j].store
        BY <3>2, <4>3, <4>4, <1>3, <1>9, <2>2 DEF IInv, Frames, Frame
      <4>6. \A j \in 1..Len(running) + 1 : i < j => running[i].store < running'[j].store
        <5> SUFFICES ASSUME NEW j \in 1..Len(running) + 1, i < j
                     PROVE  running[i].store < running'[j].store
          OBVIOUS
        <5>1. CASE j = Len(running) + 1
          <6>1. running'[j].store = store[t]
            BY <5>1, <1>5, <1>6
          <6> QED
            BY <6>1, <4>2
        <5>2. CASE j \in 1..Len(running)
          <6>1. running'[j] = running[j]
            BY <5>2, <1>6
          <6> QED
            BY <6>1, <5>2, <4>5
        <5> QED
          BY <5>1, <5>2, <1>2
      <4>7. \A y \in alive \ {t} : store'[y] = running[i].store => y \in sees[t] /\ t \in sees[y]
        BY <4>1, <4>2, <2>3 DEF Kin, IInv, TypeOK
      <4>8. \A f \in Fields : running[i].before[f] \in sees[t] \cup {Absent}
        BY <4>1, <4>2 DEF Kin
      <4> QED
        BY <3>2, <4>5, <4>6, <4>7, <4>8, <1>6
    <3> QED
      BY <3>1, <3>2, <1>2
  <2> QED
    BY <1>7, <2>4, <2>5, <2>6, <2>8, <2>9 DEF IInv
<1> QED
  BY <1>8, <1>9

\* What the task with the thread ran in before is as it was.
LEMMA LeaveRunFacts ==
  ASSUME IInv, NEW t \in Tasks, LeaveRun(t)
  PROVE  /\ running \in Seq(Frame) /\ Len(running) \in Nat \ {0} /\ t \in alive /\ turn = t
         /\ Top(running) \in Frame /\ Top(running) = running[Len(running)]
         /\ running' \in Seq(Frame) /\ Len(running') = Len(running) - 1
         /\ \A i \in 1..Len(running) - 1 : running'[i] = running[i]
         /\ Top(running).store \in 0..Len(stores) /\ Len(stores) \in Nat
         /\ store' \in [Tasks -> 0..Len(stores)] /\ store'[t] = Top(running).store
         /\ \A x \in Tasks \ {t} : store'[x] = store[x]
         /\ base' \in Context
         /\ Store(t)' = Top(running).before
<1>1. /\ turn = t /\ running' = Pop(running)
      /\ store' = [store EXCEPT ![t] = Top(running).store]
      /\ base' = IF als THEN base ELSE Top(running).prev
      /\ stores' = stores
  BY DEF LeaveRun
<1>2. running \in Seq(Frame) /\ running # <<>> /\ t \in alive
  BY <1>1, TasksAssumption DEF IInv, TypeOK, Frame, Called
<1>3. /\ Len(running) \in Nat \ {0}
      /\ Top(running) \in Frame /\ Top(running) = running[Len(running)]
      /\ running' \in Seq(Frame) /\ Len(running') = Len(running) - 1
      /\ \A i \in 1..Len(running) - 1 : running'[i] = running[i]
  BY <1>1, <1>2, PopType
<1>4. Len(running) \in 1..Len(running) /\ Len(stores) \in Nat
  BY <1>3 DEF IInv, TypeOK
<1>5. Top(running).store \in 0..Len(stores)
  BY <1>3, <1>4 DEF Frame, IInv, Frames
<1>6. /\ store' \in [Tasks -> 0..Len(stores)] /\ store'[t] = Top(running).store
      /\ \A x \in Tasks \ {t} : store'[x] = store[x]
  BY <1>1, <1>5 DEF IInv, TypeOK
<1>7. base' \in Context
  BY <1>1, <1>3 DEF Frame, IInv, TypeOK
<1>8. Store(t)' = Held(base', stores, Top(running).store)
  BY <1>1, <1>6 DEF Store, Held
<1>8a. /\ Top(running).prev = Top(running).before
       /\ ~als => Top(running).store = 0
       /\ als => Held(base, stores, Top(running).store) = Top(running).before
  BY <1>3, <1>4 DEF IInv, Frames
<1>9. ASSUME als PROVE Store(t)' = Top(running).before
  <2>1. base' = base
    BY <1>1, <1>9
  <2> QED
    BY <2>1, <1>8, <1>8a, <1>9
<1>10. ASSUME ~als PROVE Store(t)' = Top(running).before
  <2>1. base' = Top(running).prev
    BY <1>1, <1>10
  <2> QED
    BY <2>1, <1>8, <1>8a, <1>10 DEF Held
<1> QED
  BY <1>1, <1>2, <1>3, <1>4, <1>5, <1>6, <1>7, <1>9, <1>10

LEMMA LeaveRunInv ==
  ASSUME IInv, NEW t \in Tasks, LeaveRun(t) PROVE IInv'
<1>1. /\ turn' = IF running' = <<>> THEN Absent ELSE t
      /\ UNCHANGED <<als, stores, alive, sees, trace, calls>>
      /\ als => base' = base
  BY DEF LeaveRun
<1>2. /\ running \in Seq(Frame) /\ Len(running) \in Nat \ {0} /\ t \in alive /\ turn = t
      /\ Top(running) \in Frame /\ Top(running) = running[Len(running)]
      /\ running' \in Seq(Frame) /\ Len(running') = Len(running) - 1
      /\ \A i \in 1..Len(running) - 1 : running'[i] = running[i]
      /\ Top(running).store \in 0..Len(stores) /\ Len(stores) \in Nat
      /\ store' \in [Tasks -> 0..Len(stores)] /\ store'[t] = Top(running).store
      /\ \A x \in Tasks \ {t} : store'[x] = store[x]
      /\ base' \in Context
      /\ Store(t)' = Top(running).before
  BY LeaveRunFacts
<1>3. Len(running) \in 1..Len(running)
  BY <1>2
<1>4. als => Kin(Len(running))
  BY <1>3 DEF IInv, Frames
<1>5. Saved'
  BY <1>1, TraceUnchanged
<1>6. TypeOK'
  <2>1. running' \in Seq([store: 0..MaxCalls, prev: Context, before: Context])
    BY <1>2 DEF Frame
  <2>2. turn' \in Tasks \cup {Absent} /\ (turn' = Absent <=> running' = <<>>)
    BY <1>1, TasksAssumption
  <2> QED
    BY <1>1, <1>2, <2>1, <2>2 DEF IInv, TypeOK, trace
<1>7. Called'
  <2>1. ~als => Top(running).store = 0
    BY <1>2, <1>3 DEF IInv, Frames
  <2>2. ~als => \A x \in Tasks : store'[x] = 0
    BY <1>2, <2>1 DEF IInv, Called
  <2> QED
    BY <1>1, <1>2, <2>2 DEF IInv, Called
<1>8. Shared'
  <2> SUFFICES ASSUME als, NEW x \in alive, NEW y \in alive, store'[x] = store'[y] PROVE x \in sees[y]
    BY <1>1 DEF Shared
  <2>1. x \in Tasks /\ y \in Tasks
    BY DEF IInv, TypeOK
  <2>2. CASE x # t /\ y # t
    BY <2>1, <2>2, <1>2 DEF IInv, Shared
  <2>3. CASE x = t /\ y = t
    BY <2>3 DEF IInv, Called
  <2>4. CASE x = t /\ y # t
    BY <2>1, <2>4, <1>2, <1>4 DEF Kin
  <2>5. CASE x # t /\ y = t
    BY <2>1, <2>5, <1>2, <1>4 DEF Kin
  <2> QED
    BY <2>2, <2>3, <2>4, <2>5
<1>9. TasksIsolated'
  <2> SUFFICES ASSUME als, NEW x \in alive, NEW f \in Fields
               PROVE  Store(x)'[f] \in sees[x] \cup {Absent}
    BY <1>1 DEF TasksIsolated
  <2>1. CASE x = t
    BY <2>1, <1>2, <1>4 DEF Kin
  <2>2. CASE x # t
    <3>1. x \in Tasks
      BY DEF IInv, TypeOK
    <3>2. Store(x)' = Store(x)
      BY <2>2, <3>1, <1>1, <1>2 DEF Store
    <3> QED
      BY <3>2 DEF IInv, TasksIsolated
  <2> QED
    BY <2>1, <2>2
<1>10. Frames'
  <2> SUFFICES ASSUME NEW i \in 1..Len(running) - 1
               PROVE  /\ running[i].store <= Len(stores)
                      /\ running[i].prev = running[i].before
                      /\ ~als => running[i].store = 0
                      /\ als => /\ running[i].store < store'[turn']
                                /\ Held(base', stores, running[i].store) = running[i].before
                                /\ \A j \in 1..Len(running) - 1 :
                                      i < j => running[i].store < running[j].store
                                /\ Kin(i)'
    BY <1>1, <1>2 DEF Frames
  <2>1. i \in 1..Len(running) /\ i < Len(running)
    BY <1>2
  <2>2. turn' = t
    BY <1>1, <1>2, <2>1
  <2>3. running[i].store < store'[turn'] \/ ~als
    BY <1>2, <1>3, <2>1, <2>2 DEF IInv, Frames
  <2>4. als => Kin(i)'
    <3> SUFFICES ASSUME als
                 PROVE  /\ \A f \in Fields : running[i].before[f] \in sees[t] \cup {Absent}
                        /\ \A y \in alive \ {t} :
                             store'[y] = running[i].store => y \in sees[t] /\ t \in sees[y]
      BY <1>1, <1>2, <2>2 DEF Kin
    <3>1. Kin(i)
      BY <2>1 DEF IInv, Frames
    <3> QED
      BY <3>1, <1>2 DEF Kin, IInv, TypeOK
  <2>5. \A j \in 1..Len(running) - 1 : j \in 1..Len(running)
    BY <1>2
  <2> QED
    BY <1>1, <2>1, <2>3, <2>4, <2>5 DEF IInv, Frames
<1> QED
  BY <1>5, <1>6, <1>7, <1>8, <1>9, <1>10 DEF IInv

LEMMA RunAsyncInv ==
  ASSUME IInv, NEW t \in Tasks, NEW u \in Tasks, NEW F \in SUBSET Fields, RunAsync(t, u, F)
  PROVE  IInv'
<1>1. /\ Call(t) /\ u \notin alive
      /\ alive' = alive \cup {u}
      /\ sees' = [sees EXCEPT ![u] = @ \cup sees[t]]
      /\ UNCHANGED <<als, base, running, turn, trace>>
  BY DEF RunAsync
<1>2. /\ calls' \in 0..MaxCalls /\ calls' = calls + 1 /\ calls \in Nat
      /\ t \in alive /\ (running = <<>> \/ turn = t) /\ Len(running) \in Nat
      /\ Len(stores) < MaxCalls /\ Len(stores) < calls' /\ Len(stores) \in Nat
  BY <1>1, CallType
<1>3. /\ sees' \in [Tasks -> SUBSET Tasks] /\ sees'[u] = sees[u] \cup sees[t]
      /\ \A x \in Tasks \ {u} : sees'[x] = sees[x]
  BY <1>1 DEF IInv, TypeOK
<1>4. alive' \subseteq Tasks /\ \A x \in Tasks : x \in sees[x] /\ x \in sees'[x]
  BY <1>1, <1>3 DEF IInv, TypeOK, Called
<1>5. Saved'
  BY <1>1, TraceUnchanged
<1>6. running \in Seq(Frame) /\ MaxCalls \in Nat
  BY BoundAssumption DEF Frame, IInv, TypeOK
<1>7. CASE ~als
  <2>1. UNCHANGED <<stores, store>>
    BY <1>7 DEF RunAsync
  <2>2. TypeOK'
    BY <1>1, <1>2, <1>3, <1>4, <2>1 DEF IInv, TypeOK, trace
  <2>3. Called' /\ Shared' /\ TasksIsolated' /\ Frames'
    BY <1>1, <1>2, <1>4, <1>7, <2>1 DEF IInv, Called, Shared, TasksIsolated, Frames
  <2> QED
    BY <1>5, <2>2, <2>3 DEF IInv
<1>8. CASE als
  <2>1. /\ stores' = Inherited(t, Values(t, F)) /\ base' = base
        /\ store' = [store EXCEPT ![u] = RunsIn(t)]
    BY <1>1, <1>8 DEF RunAsync
  <2>2. /\ stores' \in Seq(Context) /\ Len(stores') = Len(stores) + 1
        /\ \A n \in 0..Len(stores) : Held(base', stores', n) = Held(base, stores, n)
        /\ RunsIn(t) = Len(stores) + 1
        /\ \A f \in Fields : Held(base', stores', RunsIn(t))[f] \in sees[t] \cup {Absent}
    BY <1>2, <1>8, <2>1, Inherits
  <2>3. /\ store' \in [Tasks -> 0..Len(stores')] /\ store'[u] = Len(stores) + 1
        /\ \A y \in Tasks : store[y] \in 0..Len(stores) /\ (y # u => store'[y] = store[y])
    BY <1>2, <2>1, <2>2 DEF IInv, TypeOK
  <2>4. TypeOK'
    <3>1. Len(stores') <= MaxCalls
      BY <1>2, <1>6, <2>2
    <3> QED
      BY <1>1, <1>2, <1>3, <1>4, <1>8, <2>2, <2>3, <3>1 DEF IInv, TypeOK, trace
  <2>5. Called'
    BY <1>1, <1>2, <1>4, <1>8, <2>2 DEF IInv, Called
  <2>6. Shared'
    <3> SUFFICES ASSUME NEW x \in alive \cup {u}, NEW y \in alive \cup {u}, store'[x] = store'[y]
                 PROVE  x \in sees'[y]
      BY <1>1 DEF Shared
    <3>1. x \in Tasks /\ y \in Tasks
      BY DEF IInv, TypeOK
    <3>2. CASE x = u \/ y = u
      BY <3>1, <3>2, <1>2, <1>4, <2>3
    <3>3. CASE x # u /\ y # u
      BY <3>1, <3>3, <1>3, <1>8, <2>3 DEF IInv, Shared
    <3> QED
      BY <3>2, <3>3
  <2>7. \A x \in Tasks : Store(x)' = Held(base', stores', store'[x])
    BY DEF Store, Held
  <2>8. TasksIsolated'
    <3> SUFFICES ASSUME NEW x \in alive \cup {u}, NEW f \in Fields
                 PROVE  Store(x)'[f] \in sees'[x] \cup {Absent}
      BY <1>1 DEF TasksIsolated
    <3>1. CASE x = u
      BY <3>1, <1>3, <2>2, <2>3, <2>7
    <3>2. CASE x # u
      <4>1. x \in Tasks /\ x \in alive /\ Store(x) = Held(base, stores, store[x])
        BY <3>2, StoreType DEF IInv, TypeOK
      <4>2. Store(x)' = Store(x)
        BY <3>2, <4>1, <2>2, <2>3, <2>7
      <4> QED
        BY <3>2, <4>1, <4>2, <1>3, <1>8 DEF IInv, TasksIsolated
    <3> QED
      BY <3>1, <3>2
  <2>9. Frames'
    <3> SUFFICES ASSUME NEW i \in 1..Len(running)
                 PROVE  /\ running[i].store <= Len(stores')
                        /\ running[i].prev = running[i].before
                        /\ running[i].store < store'[t]
                        /\ Held(base', stores', running[i].store) = running[i].before
                        /\ \A j \in 1..Len(running) : i < j => running[i].store < running[j].store
                        /\ \A f \in Fields : running[i].before[f] \in sees'[t] \cup {Absent}
                        /\ \A y \in (alive \cup {u}) \ {t} :
                              store'[y] = running[i].store => y \in sees'[t] /\ t \in sees'[y]
      <4>1. Len(running) # 0 => turn = t
        BY <1>2, <1>6
      <4> QED
        BY <4>1, <1>1, <1>2, <1>8 DEF Frames, Kin
    <3>1. turn = t /\ t # u
      BY <1>1, <1>2, <1>6
    <3>2. running[i] \in Frame
      BY <1>6, ElementOfSeq
    <3>3. /\ running[i].store <= Len(stores)
          /\ running[i].prev = running[i].before
          /\ running[i].store < store[t]
          /\ Held(base, stores, running[i].store) = running[i].before
          /\ \A j \in 1..Len(running) : i < j => running[i].store < running[j].store
          /\ Kin(i)
      BY <3>1, <1>8 DEF IInv, Frames
    <3>4. running[i].store \in 0..Len(stores) /\ running[i].store # Len(stores) + 1
      BY <3>2, <3>3, <1>2 DEF Frame
    <3>5. \A y \in (alive \cup {u}) \ {t} :
            store'[y] = running[i].store => y \in sees'[t] /\ t \in sees'[y]
      BY <3>1, <3>3, <3>4, <1>3, <2>3 DEF Kin, IInv, TypeOK
    <3>6. \A f \in Fields : running[i].before[f] \in sees'[t] \cup {Absent}
      BY <3>1, <3>3, <1>3 DEF Kin
    <3>7. store'[t] = store[t] /\ running[i].store <= Len(stores')
      BY <3>1, <3>4, <1>2, <2>2, <2>3
    <3> QED
      BY <3>3, <3>4, <3>5, <3>6, <3>7, <2>2
  <2> QED
    BY <1>5, <2>4, <2>5, <2>6, <2>8, <2>9 DEF IInv
<1> QED
  BY <1>7, <1>8

LEMMA StartInv ==
  ASSUME IInv, NEW t \in Tasks, NEW u \in Tasks, Start(t, u) PROVE IInv'
<1>1. /\ Call(t) /\ u \notin alive
      /\ alive' = alive \cup {u}
      /\ store' = [store EXCEPT ![u] = store[t]]
      /\ sees' = [x \in Tasks |->
           IF x = u \/ (x \in alive /\ store[x] = store[t]) THEN sees[x] \cup sees[t] \cup {u} ELSE sees[x]]
      /\ UNCHANGED <<als, base, stores, running, turn, trace>>
  BY DEF Start
<1>2. /\ calls' \in 0..MaxCalls /\ calls' = calls + 1 /\ calls \in Nat
      /\ t \in alive /\ (running = <<>> \/ turn = t) /\ Len(running) \in Nat
      /\ Len(stores) < MaxCalls /\ Len(stores) < calls' /\ Len(stores) \in Nat
  BY <1>1, CallType
<1>3. \A x \in Tasks : sees[x] \subseteq sees'[x] /\ x \in sees'[x]
  BY <1>1 DEF IInv, TypeOK, Called
<1>4. sees' \in [Tasks -> SUBSET Tasks]
  BY <1>1 DEF IInv, TypeOK
<1>5. /\ store' \in [Tasks -> 0..Len(stores)] /\ store'[u] = store[t]
      /\ \A x \in Tasks : store[x] \in 0..Len(stores) /\ (x # u => store'[x] = store[x])
  BY <1>1 DEF IInv, TypeOK
<1>6. Saved'
  BY <1>1, TraceUnchanged
<1>7. TypeOK'
  BY <1>1, <1>2, <1>4, <1>5 DEF IInv, TypeOK, trace
<1>8. Called'
  BY <1>1, <1>2, <1>3, <1>5 DEF IInv, Called
<1>9. /\ \A x \in alive : store[x] = store[t] => u \in sees'[x]
      /\ sees[t] \subseteq sees'[u]
  BY <1>1 DEF IInv, TypeOK
<1>10. Shared'
  <2> SUFFICES ASSUME als, NEW x \in alive \cup {u}, NEW y \in alive \cup {u}, store'[x] = store'[y]
               PROVE  x \in sees'[y]
    BY <1>1 DEF Shared
  <2>1. x \in Tasks /\ y \in Tasks
    BY DEF IInv, TypeOK
  <2>2. CASE x = y
    BY <2>1, <2>2, <1>3
  <2>3. CASE x = u /\ y # u
    BY <2>1, <2>3, <1>5, <1>9
  <2>4. CASE x # u /\ y = u
    BY <2>1, <2>4, <1>2, <1>5, <1>9 DEF IInv, Shared
  <2>5. CASE x # u /\ y # u
    BY <2>1, <2>5, <1>3, <1>5 DEF IInv, Shared
  <2> QED
    BY <2>2, <2>3, <2>4, <2>5
<1>11. \A x \in Tasks : /\ Store(x) = Held(base, stores, store[x])
                        /\ Store(x)' = Held(base, stores, store'[x])
  BY <1>1 DEF Store, Held
<1>12. TasksIsolated'
  <2> SUFFICES ASSUME als, NEW x \in alive \cup {u}, NEW f \in Fields
               PROVE  Store(x)'[f] \in sees'[x] \cup {Absent}
    BY <1>1 DEF TasksIsolated
  <2>1. CASE x = u
    <3>1. Store(x)' = Store(t) /\ Store(t)[f] \in sees[t] \cup {Absent}
      BY <2>1, <1>2, <1>5, <1>11 DEF IInv, TasksIsolated
    <3> QED
      BY <2>1, <3>1, <1>9
  <2>2. CASE x # u
    <3>1. x \in Tasks /\ x \in alive
      BY <2>2 DEF IInv, TypeOK
    <3>2. Store(x)' = Store(x) /\ Store(x)[f] \in sees[x] \cup {Absent}
      BY <2>2, <3>1, <1>5, <1>11 DEF IInv, TasksIsolated
    <3> QED
      BY <3>1, <3>2, <1>3
  <2> QED
    BY <2>1, <2>2
<1>13. Frames'
  <2> SUFFICES ASSUME NEW i \in 1..Len(running)
               PROVE  /\ running[i].store <= Len(stores)
                      /\ running[i].prev = running[i].before
                      /\ ~als => running[i].store = 0
                      /\ als => /\ running[i].store < store'[t]
                                /\ Held(base, stores, running[i].store) = running[i].before
                                /\ \A j \in 1..Len(running) : i < j => running[i].store < running[j].store
                                /\ Kin(i)'
    <3>1. running \in Seq(Frame)
      BY DEF IInv, TypeOK, Frame
    <3>2. Len(running) # 0 => turn = t
      BY <3>1, <1>2
    <3> QED
      BY <3>2, <1>1, <1>2 DEF Frames
  <2>1. turn = t /\ t # u /\ store'[t] = store[t]
    <3>1. running # <<>>
      BY DEF IInv, TypeOK
    <3> QED
      BY <3>1, <1>1, <1>2, <1>5
  <2>2. als => Kin(i)'
    <3> SUFFICES ASSUME als
                 PROVE  /\ \A f \in Fields : running[i].before[f] \in sees'[t] \cup {Absent}
                        /\ \A y \in (alive \cup {u}) \ {t} :
                             store'[y] = running[i].store => y \in sees'[t] /\ t \in sees'[y]
      BY <1>1, <2>1 DEF Kin
    <3>1. Kin(i) /\ running[i].store < store[t]
      BY <2>1 DEF IInv, Frames
    <3>2. running \in Seq(Frame)
      BY DEF IInv, TypeOK, Frame
    <3>3. running[i] \in Frame
      BY <3>2, ElementOfSeq
    <3>4. store'[u] # running[i].store
      BY <3>1, <3>3, <1>5 DEF Frame
    <3>5. \A y \in alive \ {t} :
            store'[y] = running[i].store => y \in sees'[t] /\ t \in sees'[y]
      BY <2>1, <3>1, <1>1, <1>3, <1>5 DEF Kin, IInv, TypeOK
    <3> QED
      BY <2>1, <3>1, <3>4, <3>5, <1>3 DEF Kin
  <2> QED
    BY <2>1, <2>2 DEF IInv, Frames
<1> QED
  BY <1>6, <1>7, <1>8, <1>10, <1>12, <1>13 DEF IInv
-----------------------------------------------------------------------------
LEMMA BindPropagationInv ==
  ASSUME IInv, NEW t \in Tasks, NEW F \in SUBSET Fields, BindPropagation(t, F) PROVE IInv'
<1> DEFINE a == Merge(active, Values(t, F))
<1>1. /\ Call(t)
      /\ stack' = Append(stack, active) /\ active' = a
      /\ UNCHANGED fields
  BY DEF BindPropagation, Pushed
<1>2. calls' \in 0..MaxCalls /\ calls <= calls'
  BY <1>1, CallType
<1>3. active \in Context /\ stack \in Seq(Context) /\ Len(stack) \in Nat
  BY DEF IInv, TypeOK
<1>4. a \in Context
  BY <1>3, ValuesType, MergeType
<1> HIDE DEF a
<1>5. /\ stack' \in Seq(Context) /\ Len(stack') = Len(stack) + 1
      /\ \A i \in 1..Len(stack) : stack'[i] = stack[i]
      /\ stack'[Len(stack) + 1] = active
  BY <1>1, <1>3
<1>6. TypeOK'
  BY <1>1, <1>2, <1>3, <1>4, <1>5 DEF IInv, TypeOK, fields
<1>7. Saved'
  <2>1. stack' # <<>>
    BY <1>3, <1>5
  <2>2. CASE stack = <<>>
    BY <2>1, <2>2, <1>5 DEF IInv, Saved
  <2>3. CASE stack # <<>>
    <3>1. 1 \in 1..Len(stack)
      BY <2>3, <1>3
    <3> QED
      BY <2>1, <2>3, <3>1, <1>5 DEF IInv, Saved
  <2> QED
    BY <2>2, <2>3
<1>8. Called' /\ Frames' /\ Shared' /\ TasksIsolated'
  BY <1>1, <1>2, FieldsUnchanged
<1> QED
  BY <1>6, <1>7, <1>8 DEF IInv

LEMMA ClearPropagationInv ==
  ASSUME IInv, NEW t \in Tasks, ClearPropagation(t) PROVE IInv'
<1>1. Call(t) /\ active' = Restored /\ stack' = Left /\ UNCHANGED fields
  BY DEF ClearPropagation
<1>2. calls' \in 0..MaxCalls /\ calls <= calls'
  BY <1>1, CallType
<1>3. active \in Context /\ stack \in Seq(Context) /\ Len(stack) \in Nat
  BY DEF IInv, TypeOK
<1>4. Called' /\ Frames' /\ Shared' /\ TasksIsolated'
  BY <1>1, <1>2, FieldsUnchanged
<1>5. CASE stack = <<>>
  <2>1. active' = Empty /\ stack' = <<>>
    BY <1>1, <1>5 DEF Restored, Left
  <2>2. TypeOK'
    BY <1>1, <1>2, <2>1, EmptyType DEF IInv, TypeOK, fields
  <2>3. Saved'
    BY <2>1 DEF Saved
  <2> QED
    BY <1>4, <2>2, <2>3 DEF IInv
<1>6. CASE stack # <<>>
  <2>1. /\ Len(stack) \in Nat \ {0}
        /\ active' \in Context /\ active' = stack[Len(stack)]
        /\ stack' \in Seq(Context)
        /\ Len(stack') = Len(stack) - 1
        /\ \A i \in 1..Len(stack) - 1 : stack'[i] = stack[i]
    BY <1>1, <1>3, <1>6, PopType DEF Restored, Left
  <2>2. TypeOK'
    BY <1>1, <1>2, <2>1 DEF IInv, TypeOK, fields
  <2>3. stack' = <<>> => active' = Empty
    <3>1. stack' = <<>> => Len(stack) = 1
      BY <2>1
    <3> QED
      BY <3>1, <2>1, <1>6 DEF IInv, Saved
  <2>4. stack' # <<>> => stack'[1] = Empty
    <3>1. stack' # <<>> => 1 \in 1..Len(stack) - 1
      BY <2>1
    <3> QED
      BY <3>1, <2>1, <1>6 DEF IInv, Saved
  <2> QED
    BY <1>4, <2>2, <2>3, <2>4 DEF IInv, Saved
<1> QED
  BY <1>5, <1>6

LEMMA StutterInv == IInv /\ UNCHANGED vars => IInv'
<1> SUFFICES ASSUME IInv, UNCHANGED vars PROVE IInv'
  OBVIOUS
<1>1. TypeOK'
  BY DEF IInv, TypeOK, vars, fields, trace
<1>2. Saved'
  BY TraceUnchanged DEF vars
<1>3. calls' = calls /\ calls \in 0..MaxCalls /\ UNCHANGED fields
  BY DEF IInv, TypeOK, vars
<1>4. Called' /\ Frames' /\ Shared' /\ TasksIsolated'
  BY <1>3, BoundAssumption, FieldsUnchanged
<1> QED
  BY <1>1, <1>2, <1>4 DEF IInv

LEMMA NextInv == IInv /\ [Next]_vars => IInv'
<1> SUFFICES ASSUME IInv, [Next]_vars PROVE IInv'
  OBVIOUS
<1>1. ASSUME NEW t \in Tasks, NEW F \in SUBSET Fields,
             BindContext(t, F) \/ UnbindContext(t, F) \/ EnterRun(t, F) \/ BindPropagation(t, F)
      PROVE  IInv'
  BY <1>1, BindContextInv, UnbindContextInv, EnterRunInv, BindPropagationInv
<1>2. ASSUME NEW t \in Tasks, NEW u \in Tasks, NEW F \in SUBSET Fields, RunAsync(t, u, F) PROVE IInv'
  BY <1>2, RunAsyncInv
<1>3. ASSUME NEW t \in Tasks, ClearContext(t) \/ LeaveRun(t) \/ ClearPropagation(t) PROVE IInv'
  BY <1>3, ClearContextInv, LeaveRunInv, ClearPropagationInv
<1>4. ASSUME NEW t \in Tasks, NEW u \in Tasks, Start(t, u) PROVE IInv'
  BY <1>4, StartInv
<1>5. CASE UNCHANGED vars
  BY <1>5, StutterInv
<1> QED
  BY <1>1, <1>2, <1>3, <1>4, <1>5 DEF Next

LEMMA Invariance == Spec => []IInv
BY InitInv, NextInv, PTL DEF Spec
-----------------------------------------------------------------------------
\* Type correctness: with AsyncLocalStorage or without, the stores a task runs
\* in exist, and the thread is taken exactly while synchronous runs nest in it.
THEOREM TypeCorrect == Spec => []TypeOK
<1>1. IInv => TypeOK
  BY DEF IInv
<1> QED
  BY <1>1, Invariance, PTL

\* AsyncLocalStorage (context.ts) keeps a task from the fields of those it
\* shares no store with, at any number of tasks that interleave at their awaits.
THEOREM Isolation == Spec => []TasksIsolated
<1>1. IInv => TasksIsolated
  BY DEF IInv
<1> QED
  BY <1>1, Invariance, PTL

\* When the propagation stack is empty nothing is active, however the tasks
\* interleave; clearPropagationContext (propagation.ts:86) relies on it.
THEOREM NothingLeft == Spec => []NothingLeftActive
<1>1. IInv => NothingLeftActive
  BY DEF IInv, Saved, NothingLeftActive
<1> QED
  BY <1>1, Invariance, PTL

\* A synchronous runWithContext (context.ts) gives its caller back the fields it
\* had, however deep such calls nest.
THEOREM Restores == Spec => RunRestores
<1> DEFINE A == \A t \in Tasks : turn = t /\ Len(running') < Len(running) =>
                   Store(t)' = Top(running).before
<1>1. IInv /\ [Next]_vars => [A]_vars
  <2> SUFFICES ASSUME IInv, Next, NEW t \in Tasks, turn = t, Len(running') < Len(running)
               PROVE  Store(t)' = Top(running).before
    OBVIOUS
  <2>1. running \in Seq(Frame) /\ Len(running) \in Nat
    BY DEF IInv, TypeOK, Frame
  <2>2. PICK x \in Tasks :
          \/ \E F \in SUBSET Fields \ {{}} :
               \/ BindContext(x, F) \/ UnbindContext(x, F) \/ EnterRun(x, F) \/ BindPropagation(x, F)
               \/ \E u \in Tasks : RunAsync(x, u, F)
          \/ ClearContext(x) \/ LeaveRun(x) \/ ClearPropagation(x)
          \/ \E u \in Tasks : Start(x, u)
    BY DEF Next
  <2>3. CASE LeaveRun(x)
    <3>1. x = t
      BY <2>3 DEF LeaveRun
    <3> QED
      BY <2>3, <3>1, LeaveRunFacts
  <2>4. ASSUME NEW F \in SUBSET Fields, EnterRun(x, F) PROVE FALSE
    <3>1. running' = Append(running, [store |-> store[x], prev |-> Kept(x, Values(x, F)), before |-> Store(x)])
      BY <2>4 DEF EnterRun
    <3>2. Len(running') = Len(running) + 1
      BY <3>1, <2>1
    <3> QED
      BY <2>1, <3>2
  <2>5. ASSUME running' = running PROVE FALSE
    BY <2>1, <2>5
  <2> QED
    BY <2>2, <2>3, <2>4, <2>5
    DEF BindContext, UnbindContext, ClearContext, RunAsync, Start, BindPropagation, ClearPropagation,
        Still, fields
<1> QED
  BY <1>1, Invariance, PTL DEF Spec, RunRestores
=============================================================================
