---------------------------- MODULE ContextProofs ----------------------------
(***************************************************************************)
(* Theorems about Context, for every set of ids and fields, any nesting of *)
(* brackets, any stack and any number of calls.                            *)
(***************************************************************************)
EXTENDS Context, SequenceTheorems, TLAPS

USE DEF SaveContext, ResetContext, Attached

(***************************************************************************)
(* The inductive invariant.  The task is in brackets 1..Len(open), each    *)
(* opened when the stack had before.depth entries.  What a bracket b has   *)
(* put on the stack s when it reaches level l are its own entry, if it is  *)
(* a request, and above Bottom(b, l) those of its binds.  AtMark and       *)
(* AtOtel are the ids, with their history, and OpenTelemetry's context     *)
(* that were there when the stack had p entries: those the next entry      *)
(* saved, or at the top g and o.                                           *)
(***************************************************************************)
Mark     == <<ids, parted>>
Saved(e) == <<e.ids, e.parted>>

Agree(g, o) == ~g[2] /\ g[1] # ZeroIds => g[1] = o

Own(b)       == IF b.kind = "request" THEN 1 ELSE 0
Bottom(b, l) == l - b.binds

AtMark(s, l, g, p) == IF p = l THEN g ELSE Saved(s[p + 1])
AtOtel(s, l, o, p) == IF p = l THEN o ELSE s[p + 1].was

\* Clearing entry e where OpenTelemetry's context is o gives back the one at the bind.
Sound(e, o) == IF e.token = Absent THEN o = e.was ELSE e.token.mine /\ e.token.old = e.was

Sane(b, s, l, g, o) ==
  LET m == Bottom(b, l)
  IN  /\ m \in Nat
      /\ \A p \in m..l : Agree(AtMark(s, l, g, p), AtOtel(s, l, o, p))
      /\ \A p \in m + 1..l : Sound(s[p], AtOtel(s, l, o, p))
      /\ b.kind # "task" => m = b.before.depth + Own(b)
      /\ b.kind = "request" => /\ Saved(s[m]) = Saved(b.before)
                               /\ s[m].was = b.before.otel
                               /\ Sound(s[m], AtOtel(s, l, o, m))
      /\ b.kind = "websocket" => AtMark(s, l, g, m) = Saved(b.before)
      /\ b.kind \in {"websocket", "noop"} => AtOtel(s, l, o, m) = b.before.otel

\* The next bracket saw what its outer one had reached; the innermost is at the
\* top of the stack.
Balanced ==
  /\ \A k \in 1..Len(open) - 1 :
       LET f == open[k + 1].before
       IN  Sane(open[k], stack, f.depth, Saved(f), f.otel)
  /\ Sane(Top, stack, Len(stack), Mark, otel)

\* What a bracket saved is what it found, however binds and clears are paired.
Kept(b) == b.token = b.before.log /\ b.prev = b.before.ids /\ b.parent = b.before.otel

Kinds == \A k \in 1..Len(open) : open[k].kind = "task" <=> k = 1

Depths ==
  \A k \in 2..Len(open) :
    /\ open[k].before.depth <= Len(stack)
    /\ \A j \in 2..k : open[j].before.depth <= open[k].before.depth

IInv ==
  /\ TypeOK
  /\ Kinds
  /\ \A k \in 2..Len(open) : Kept(open[k])
  /\ ~strayed => Depths /\ Balanced
-----------------------------------------------------------------------------
\* Sequences: the last element, what is left without it, a longer one.
LEMMA FrontType ==
  ASSUME NEW S, NEW s \in Seq(S), s # <<>>
  PROVE  /\ Len(s) \in Nat \ {0}
         /\ Last(s) \in S /\ Last(s) = s[Len(s)]
         /\ Front(s) \in Seq(S)
         /\ Len(Front(s)) = Len(s) - 1
         /\ \A i \in 1..Len(s) - 1 : Front(s)[i] = s[i]
<1>1. Len(s) \in Nat \ {0}
  BY EmptySeq, LenProperties
<1>2. Last(s) \in S /\ Last(s) = s[Len(s)]
  BY <1>1 DEF Last
<1>3. /\ Front(s) \in Seq(S)
      /\ Len(Front(s)) = Len(s) - 1
      /\ \A i \in 1..Len(s) - 1 : Front(s)[i] = s[i]
  <2> DEFINE n == Len(s) - 1
  <2>1. n \in Int /\ 1 \in Int /\ \A i \in 1..n : s[i] \in S
    BY <1>1
  <2>2. n = (IF 1 <= n THEN n - 1 + 1 ELSE 0) /\ n - 1 + 1 = n
    BY <1>1
  <2>3. Front(s) = SubSeq(s, 1, n)
    BY DEF Front
  <2> HIDE DEF n
  <2>4. /\ SubSeq(s, 1, n) \in Seq(S)
        /\ Len(SubSeq(s, 1, n)) = IF 1 <= n THEN n - 1 + 1 ELSE 0
        /\ \A i \in 1..n - 1 + 1 : SubSeq(s, 1, n)[i] = s[1 + i - 1]
    BY <2>1, SubSeqProperties
  <2>5. \A i \in 1..n : 1 + i - 1 = i
    BY <2>1
  <2> QED
    BY <2>2, <2>3, <2>4, <2>5 DEF n
<1> QED
  BY <1>1, <1>2, <1>3

LEMMA AppendType ==
  ASSUME NEW S, NEW s \in Seq(S), NEW e \in S
  PROVE  /\ Append(s, e) \in Seq(S)
         /\ Len(s) \in Nat /\ Len(Append(s, e)) = Len(s) + 1
         /\ \A i \in 1..Len(s) : Append(s, e)[i] = s[i]
         /\ Append(s, e)[Len(s) + 1] = e
OBVIOUS

LEMMA Types ==
  ASSUME TypeOK
  PROVE  /\ open \in Seq(Bracket) /\ Len(open) \in Nat \ {0} /\ Len(open) \in 1..Len(open)
         /\ Top \in Bracket /\ Top = open[Len(open)] /\ Top.binds \in Nat /\ Top.before.depth \in Nat
         /\ \A k \in 1..Len(open) : /\ open[k] \in Bracket
                                    /\ open[k].binds \in Nat /\ open[k].before.depth \in Nat
         /\ stack \in Seq(Entry) /\ Len(stack) \in Nat
         /\ \A p \in 1..Len(stack) : stack[p] \in Entry
<1>1. open \in Seq(Bracket) /\ Len(open) \in Nat \ {0} /\ open # <<>>
  BY BoundAssumption DEF TypeOK
<1>2. \A k \in 1..Len(open) : open[k] \in Bracket
  BY <1>1, ElementOfSeq
<1>3. Top \in Bracket /\ Top = open[Len(open)]
  BY <1>1, FrontType DEF Top
<1>4. stack \in Seq(Entry) /\ Len(stack) \in Nat /\ \A p \in 1..Len(stack) : stack[p] \in Entry
  BY ElementOfSeq DEF TypeOK
<1> QED
  BY <1>1, <1>2, <1>3, <1>4 DEF Bracket

LEMMA EmptyLogType == EmptyLog \in Log
BY DEF EmptyLog, Log, Headers

LEMMA BodyType == Body \in Bracket
BY EmptyLogType DEF Body, Bracket, Ids

LEMMA IdsType == NoIds \in Ids /\ ZeroIds \in Ids /\ Headers \subseteq Ids /\ SpanIds \subseteq Ids
BY DEF Ids, Headers

LEMMA OpenedType ==
  ASSUME TypeOK, NEW k \in {"request", "websocket", "span", "noop"}
  PROVE  /\ Opened(k, log) \in Bracket
         /\ Opened(k, log).kind = k /\ Opened(k, log).binds = 0
         /\ Opened(k, log).before.depth = Len(stack)
         /\ Saved(Opened(k, log).before) = Mark /\ Opened(k, log).before.otel = otel
         /\ Kept(Opened(k, log))
<1>1. Len(stack) \in Nat
  BY Types
<1>2. Found \in [log: Log, ids: Ids, otel: Ids, depth: Nat, parted: BOOLEAN]
  BY <1>1 DEF Found, TypeOK
<1> QED
  BY <1>2 DEF Opened, Bracket, Found, Kept, Saved, Mark, TypeOK

LEMMA PushedType ==
  ASSUME TypeOK, NEW l \in Log, NEW h \in Headers
  PROVE  /\ Pushed(l, h) \in Entry
         /\ Saved(Pushed(l, h)) = Mark /\ Pushed(l, h).was = otel
         /\ Sound(Pushed(l, h), Extracted(otel, h))
         /\ Bound(l, h) \in Log /\ Adopted(ids, h) \in Ids /\ Extracted(otel, h) \in Ids
         /\ Parted(h) \in BOOLEAN
         /\ Agree(Mark, otel) => Agree(<<Adopted(ids, h), Parted(h)>>, Extracted(otel, h))
<1>1. [mine |-> TRUE, old |-> otel] \in Token
  BY DEF Token, TypeOK
<1>2. Pushed(l, h) \in Entry
  BY <1>1 DEF Pushed, Entry, Log, TypeOK
<1>3. Sound(Pushed(l, h), Extracted(otel, h))
  <2>1. CASE h = NoIds
    <3>1. Extracted(otel, h) = otel /\ Pushed(l, h).token = Absent /\ Pushed(l, h).was = otel
      BY <2>1 DEF Pushed, Extracted
    <3> QED
      BY <3>1 DEF Sound
  <2>2. CASE h # NoIds
    BY <2>2, <1>1, TokenAssumption DEF Pushed, Sound
  <2> QED
    BY <2>1, <2>2
<1>4. Bound(l, h) \in Log /\ Adopted(ids, h) \in Ids /\ Extracted(otel, h) \in Ids
  BY IdsType DEF Bound, Adopted, Extracted, Log, TypeOK
<1>5. Parted(h) \in BOOLEAN
  <2>1. CASE h = NoIds
    BY <2>1 DEF Parted, TypeOK
  <2>2. CASE h # NoIds
    BY <2>2 DEF Parted
  <2> QED
    BY <2>1, <2>2
<1>6. ASSUME Agree(Mark, otel)
      PROVE  Agree(<<Adopted(ids, h), Parted(h)>>, Extracted(otel, h))
  <2>1. CASE h = NoIds
    <3>1. Adopted(ids, h) = ids /\ Parted(h) = parted /\ Extracted(otel, h) = otel
      BY <2>1 DEF Adopted, Parted, Extracted
    <3> QED
      BY <1>6, <3>1 DEF Mark
  <2>2. CASE h # NoIds /\ h \in Loose
    BY <2>2 DEF Parted, Agree
  <2>3. CASE h # NoIds /\ h \notin Loose
    BY <2>3 DEF Adopted, Extracted, Agree
  <2> QED
    BY <2>1, <2>2, <2>3
<1> QED
  BY <1>2, <1>3, <1>4, <1>5, <1>6 DEF Pushed, Saved, Mark

LEMMA PreviousType ==
  ASSUME TypeOK
  PROVE  /\ Previous \in Entry /\ Detached(Previous) \in Ids /\ Previous.parted \in BOOLEAN
         /\ Popped \in Seq(Entry) /\ Len(Popped) <= Len(stack) /\ Len(Popped) \in Nat
         /\ stack # <<>> => /\ Len(stack) \in Nat \ {0} /\ Len(Popped) = Len(stack) - 1
                            /\ Previous = stack[Len(stack)]
                            /\ \A p \in 1..Len(stack) - 1 : Popped[p] = stack[p]
<1>1. stack \in Seq(Entry) /\ Len(stack) \in Nat
  BY Types
<1>2. CASE stack = <<>>
  <2>1. Previous = Nothing /\ Popped = <<>> /\ Nothing.token = Absent
    BY <1>2 DEF Previous, Popped, Nothing
  <2>2. Nothing \in Entry
    BY IdsType DEF Nothing, Entry, Headers
  <2>3. Detached(Previous) \in Ids
    BY <2>1 DEF Detached, TypeOK
  <2> QED
    BY <1>1, <1>2, <2>1, <2>2, <2>3 DEF Entry
<1>3. CASE stack # <<>>
  <2>1. Previous = Last(stack) /\ Popped = Front(stack)
    BY <1>3 DEF Previous, Popped
  <2>2. /\ Len(stack) \in Nat \ {0}
        /\ Previous \in Entry /\ Previous = stack[Len(stack)]
        /\ Popped \in Seq(Entry) /\ Len(Popped) = Len(stack) - 1
        /\ \A i \in 1..Len(stack) - 1 : Popped[i] = stack[i]
    BY <1>1, <1>3, <2>1, FrontType
  <2>3. Detached(Previous) \in Ids
    BY <2>2 DEF Detached, Entry, Token, TypeOK
  <2> QED
    BY <1>3, <2>2, <2>3 DEF Entry
<1> QED
  BY <1>2, <1>3
-----------------------------------------------------------------------------
\* A bracket is sane as long as the stack is the same up to its level.
LEMMA SaneAgree ==
  ASSUME NEW b, NEW s, NEW r, NEW l \in Nat, NEW g, NEW o, b.binds \in Nat, b.before.depth \in Nat,
         \A p \in 1..l : r[p] = s[p], Sane(b, s, l, g, o)
  PROVE  Sane(b, r, l, g, o)
<1> DEFINE m == Bottom(b, l)
<1>1. m \in Nat /\ m <= l
  BY DEF Sane, Bottom
<1> HIDE DEF m
<1>2. \A p \in m..l : AtMark(r, l, g, p) = AtMark(s, l, g, p) /\ AtOtel(r, l, o, p) = AtOtel(s, l, o, p)
  BY <1>1 DEF AtMark, AtOtel
<1>3. \A p \in m + 1..l : r[p] = s[p] /\ p \in m..l
  BY <1>1
<1>4. b.kind = "request" => r[m] = s[m]
  BY <1>1 DEF Sane, Own, m
<1> QED
  BY <1>1, <1>2, <1>3, <1>4 DEF Sane, m

\* A bind: entry e keeps the ids i and the context o.
LEMMA SanePush ==
  ASSUME NEW b, NEW c, NEW s, NEW r, NEW l \in Nat, NEW g, NEW o, NEW j, NEW q,
         b.binds \in Nat, b.before.depth \in Nat,
         c.kind = b.kind, c.before = b.before, c.binds = b.binds + 1,
         \A p \in 1..l : r[p] = s[p], Saved(r[l + 1]) = g, r[l + 1].was = o, Sound(r[l + 1], q), Agree(j, q),
         Sane(b, s, l, g, o)
  PROVE  Sane(c, r, l + 1, j, q)
<1> DEFINE m == Bottom(b, l)
<1>1. m \in Nat /\ m <= l /\ Bottom(c, l + 1) = m /\ Own(c) = Own(b)
  BY DEF Sane, Bottom, Own
<1> HIDE DEF m
<1>2. /\ \A p \in m..l : AtMark(r, l + 1, j, p) = AtMark(s, l, g, p) /\ AtOtel(r, l + 1, q, p) = AtOtel(s, l, o, p)
      /\ AtMark(r, l + 1, j, l + 1) = j /\ AtOtel(r, l + 1, q, l + 1) = q
  BY <1>1 DEF AtMark, AtOtel
<1>3. \A p \in m + 1..l : r[p] = s[p] /\ p \in m..l
  BY <1>1
<1>4. b.kind = "request" => r[m] = s[m]
  BY <1>1 DEF Sane, Own, m
<1>5. m \in m..l /\ \A p \in m + 1..l + 1 : p = l + 1 \/ p \in m + 1..l
  BY <1>1
<1>6. \A p \in m..l + 1 : p = l + 1 \/ p \in m..l
  BY <1>1
<1> QED
  BY <1>1, <1>2, <1>3, <1>4, <1>5, <1>6 DEF Sane, m

\* A clear of one of the bracket's binds.
LEMMA SanePop ==
  ASSUME NEW b, NEW c, NEW s, NEW l \in Nat, NEW g, NEW o,
         b.binds \in Nat \ {0}, b.before.depth \in Nat,
         c.kind = b.kind, c.before = b.before, c.binds = b.binds - 1,
         Sane(b, s, l, g, o)
  PROVE  /\ l \in Nat \ {0} /\ Sound(s[l], o)
         /\ b.kind # "task" => b.before.depth < l
         /\ Sane(c, s, l - 1, Saved(s[l]), s[l].was)
<1> DEFINE m == Bottom(b, l)
<1>1. m \in Nat /\ m < l /\ Bottom(c, l - 1) = m /\ Own(c) = Own(b) /\ Own(b) \in Nat
  BY DEF Sane, Bottom, Own
<1> HIDE DEF m
<1>2. \A p \in m..l - 1 : /\ AtMark(s, l - 1, Saved(s[l]), p) = AtMark(s, l, g, p)
                          /\ AtOtel(s, l - 1, s[l].was, p) = AtOtel(s, l, o, p)
  BY <1>1 DEF AtMark, AtOtel
<1>3. l \in m + 1..l /\ AtOtel(s, l, o, l) = o
  BY <1>1 DEF AtOtel
<1>4. Sound(s[l], o)
  BY <1>1, <1>3 DEF Sane, m
<1>5. m \in m..l - 1 /\ (\A p \in m..l - 1 : p \in m..l) /\ \A p \in m + 1..l - 1 : p \in m + 1..l /\ p \in m..l - 1
  BY <1>1
<1>6. Sane(c, s, l - 1, Saved(s[l]), s[l].was)
  BY <1>1, <1>2, <1>5 DEF Sane, m
<1>7. b.kind # "task" => b.before.depth < l
  BY <1>1 DEF Sane, m
<1> QED
  BY <1>1, <1>4, <1>6, <1>7
-----------------------------------------------------------------------------
LEMMA InitInv == Init => IInv
<1> SUFFICES ASSUME Init PROVE IInv
  OBVIOUS
<1>1. open = <<Body>> /\ Len(open) = 1 /\ open[1] = Body /\ Top = Body /\ open \in Seq(Bracket)
  BY BodyType DEF Init, Top, Last
<1>2. stack = <<>> /\ stack \in Seq(Entry) /\ Len(stack) = 0
  BY DEF Init
<1>3. TypeOK
  <2>1. log \in Log /\ ids \in Ids /\ otel \in Ids
    BY EmptyLogType, IdsType DEF Init
  <2>2. Len(stack) <= MaxStack /\ Len(open) \in 1..MaxOpen /\ calls \in 0..MaxCalls
    BY <1>1, <1>2, BoundAssumption DEF Init
  <2> QED
    BY <1>1, <1>2, <2>1, <2>2 DEF Init, TypeOK
<1>4. Kinds /\ Depths /\ \A k \in 2..Len(open) : Kept(open[k])
  BY <1>1 DEF Kinds, Depths, Body
<1>5. Balanced
  BY <1>1, <1>2 DEF Balanced, Sane, Bottom, AtMark, AtOtel, Agree, Mark, Body, Init
<1> QED
  BY <1>3, <1>4, <1>5 DEF IInv

\* In step at the top of the stack.
LEMMA AgreeNow == IInv /\ ~strayed => Agree(Mark, otel)
<1> SUFFICES ASSUME IInv, ~strayed PROVE Agree(Mark, otel)
  OBVIOUS
<1>1. Sane(Top, stack, Len(stack), Mark, otel) /\ Top.binds \in Nat /\ Len(stack) \in Nat
  BY Types DEF IInv, Balanced
<1>2. Len(stack) \in Bottom(Top, Len(stack))..Len(stack)
  BY <1>1 DEF Sane, Bottom
<1> QED
  BY <1>1, <1>2 DEF Sane, AtMark, AtOtel

\* The task opens a bracket.
LEMMA OpenStep ==
  ASSUME IInv, NEW k \in {"request", "websocket", "span", "noop"}, Open(k, log),
         log' \in Log, ids' \in Ids, otel' \in Ids, parted' \in BOOLEAN,
         real' \in BOOLEAN, calls' \in 0..MaxCalls,
         stack' \in Seq(Entry), Len(stack') <= MaxStack, Len(stack) <= Len(stack'),
         \A p \in 1..Len(stack) : stack'[p] = stack[p],
         ~strayed => Sane(Opened(k, log), stack', Len(stack'), Mark', otel')
  PROVE  IInv'
<1> DEFINE b == Opened(k, log)
<1>1. Len(open) < MaxOpen /\ open' = Append(open, b) /\ UNCHANGED strayed
  BY DEF Open
<1>2. /\ b \in Bracket /\ b.kind = k /\ b.binds = 0
      /\ b.before.depth = Len(stack) /\ Saved(b.before) = Mark /\ b.before.otel = otel /\ Kept(b)
  BY OpenedType DEF IInv
<1> HIDE DEF b
<1>3. /\ open \in Seq(Bracket) /\ Len(open) \in Nat \ {0} /\ Len(stack) \in Nat /\ Len(stack') \in Nat
      /\ \A n \in 1..Len(open) : /\ open[n] \in Bracket
                                 /\ open[n].binds \in Nat /\ open[n].before.depth \in Nat
  BY Types DEF IInv
<1>4. /\ open' \in Seq(Bracket) /\ Len(open') = Len(open) + 1
      /\ \A n \in 1..Len(open) : open'[n] = open[n]
      /\ open'[Len(open) + 1] = b
  BY <1>1, <1>2, <1>3, AppendType
<1>5. TypeOK'
  BY <1>1, <1>3, <1>4, BoundAssumption DEF IInv, TypeOK
<1>6. Kinds'
  BY <1>2, <1>3, <1>4 DEF IInv, Kinds
<1>7. \A n \in 2..Len(open') : Kept(open'[n])
  <2> SUFFICES ASSUME NEW n \in 2..Len(open) + 1 PROVE Kept(open'[n])
    BY <1>4
  <2>1. n = Len(open) + 1 \/ n \in 2..Len(open)
    BY <1>3
  <2> QED
    BY <2>1, <1>2, <1>3, <1>4 DEF IInv
<1>8. ASSUME ~strayed PROVE Depths'
  <2> SUFFICES ASSUME NEW n \in 2..Len(open) + 1
               PROVE  /\ open'[n].before.depth <= Len(stack')
                      /\ \A j \in 2..n : open'[j].before.depth <= open'[n].before.depth
    BY <1>4 DEF Depths
  <2>1. CASE n = Len(open) + 1
    <3>1. \A j \in 2..n : j = n \/ j \in 2..Len(open)
      BY <2>1, <1>3
    <3>2. \A j \in 2..Len(open) : open'[j].before.depth <= Len(stack)
      BY <1>3, <1>4, <1>8 DEF IInv, Depths
    <3> QED
      BY <2>1, <3>1, <3>2, <1>2, <1>3, <1>4
  <2>2. CASE n \in 2..Len(open)
    <3>1. \A j \in 2..n : j \in 1..Len(open)
      BY <2>2
    <3>2. open[n].before.depth <= Len(stack) /\ open[n].before.depth \in Nat
      BY <2>2, <1>3, <1>8 DEF IInv, Depths
    <3>3. open[n].before.depth <= Len(stack')
      BY <3>2, <1>3
    <3>4. \A j \in 2..n : open[j].before.depth <= open[n].before.depth
      BY <2>2, <1>8 DEF IInv, Depths
    <3>5. open'[n] = open[n] /\ \A j \in 2..n : open'[j] = open[j]
      BY <2>2, <3>1, <1>4
    <3> QED
      BY <3>3, <3>4, <3>5
  <2> QED
    BY <2>1, <2>2, <1>3
<1>9. ASSUME ~strayed PROVE Balanced'
  <2>1. Top' = b
    BY <1>3, <1>4 DEF Top, Last
  <2>2. Sane(b, stack', Len(stack'), Mark', otel')
    BY <1>9 DEF b
  <2> DEFINE SaneAt(m) == Sane(open'[m], stack', open'[m + 1].before.depth,
                               Saved(open'[m + 1].before), open'[m + 1].before.otel)
  <2>a. Len(open') - 1 = Len(open) /\ \A m \in 1..Len(open) : open'[m] = open[m]
    BY <1>3, <1>4
  <2>b. SUFFICES \A m \in 1..Len(open) : SaneAt(m)
    BY <2>1, <2>2, <2>a DEF Balanced
  <2> SUFFICES ASSUME NEW n \in 1..Len(open)
               PROVE  Sane(open[n], stack', open'[n + 1].before.depth,
                           Saved(open'[n + 1].before), open'[n + 1].before.otel)
    BY <2>a
  <2>3. CASE n = Len(open)
    <3>1. Sane(open[n], stack, Len(stack), Mark, otel)
      BY <2>3, <1>9, Types DEF IInv, Balanced
    <3>2. Sane(open[n], stack', Len(stack), Mark, otel)
      BY <3>1, <1>3, SaneAgree
    <3> QED
      BY <2>3, <3>2, <1>2, <1>4
  <2>4. CASE n \in 1..Len(open) - 1
    <3> DEFINE f == open[n + 1].before
    <3>1. n + 1 \in 2..Len(open) /\ n + 1 \in 1..Len(open)
      BY <2>4, <1>3
    <3>2. Sane(open[n], stack, f.depth, Saved(f), f.otel)
      BY <2>4, <1>9 DEF IInv, Balanced
    <3>3. f.depth \in Nat /\ f.depth <= Len(stack)
      BY <3>1, <1>3, <1>9 DEF IInv, Depths
    <3>4. open'[n + 1].before = f
      BY <3>1, <1>4
    <3> HIDE DEF f
    <3>5. \A p \in 1..f.depth : stack'[p] = stack[p]
      BY <3>3, <1>3
    <3>6. Sane(open[n], stack', f.depth, Saved(f), f.otel)
      BY <3>2, <3>3, <3>5, <1>3, SaneAgree
    <3> QED
      BY <3>4, <3>6
  <2> QED
    BY <2>3, <2>4, <1>3
<1> QED
  BY <1>1, <1>5, <1>6, <1>7, <1>8, <1>9 DEF IInv

\* It leaves its innermost one.
LEMMA CloseStep ==
  ASSUME IInv, NEW kinds, Close(kinds),
         log' \in Log, ids' \in Ids, otel' \in Ids, parted' \in BOOLEAN,
         stack' \in Seq(Entry), Len(stack') <= MaxStack,
         ~strayed' => /\ Mark' = Saved(Top.before) /\ otel' = Top.before.otel
                      /\ Len(stack') = Top.before.depth
                      /\ \A p \in 1..Len(stack') : stack'[p] = stack[p]
  PROVE  IInv'
<1>1. /\ Len(open) > 1 /\ open' = Front(open)
      /\ strayed' = (strayed \/ Top.binds # 0) /\ UNCHANGED <<real, calls>>
  BY DEF Close
<1>2. /\ open \in Seq(Bracket) /\ Len(open) \in Nat \ {0} /\ Len(stack) \in Nat /\ Len(stack') \in Nat
      /\ Top = open[Len(open)]
      /\ \A n \in 1..Len(open) : /\ open[n] \in Bracket
                                 /\ open[n].binds \in Nat /\ open[n].before.depth \in Nat
  BY Types DEF IInv
<1>3. /\ open' \in Seq(Bracket) /\ Len(open') = Len(open) - 1
      /\ \A n \in 1..Len(open) - 1 : open'[n] = open[n]
  <2>1. open # <<>>
    BY <1>2
  <2> QED
    BY <2>1, <1>1, <1>2, FrontType
<1>4. TypeOK'
  <2>1. strayed' \in BOOLEAN
    BY <1>1 DEF IInv, TypeOK
  <2>2. Len(open') \in 1..MaxOpen
    BY <1>1, <1>2, <1>3, BoundAssumption DEF IInv, TypeOK
  <2> QED
    BY <1>1, <1>3, <2>1, <2>2 DEF IInv, TypeOK
<1>5. Kinds'
  BY <1>2, <1>3 DEF IInv, Kinds
<1>6. \A n \in 2..Len(open') : Kept(open'[n])
  BY <1>2, <1>3 DEF IInv
<1>7. ASSUME ~strayed' PROVE Depths'
  <2> SUFFICES ASSUME NEW n \in 2..Len(open) - 1
               PROVE  /\ open'[n].before.depth <= Len(stack')
                      /\ \A j \in 2..n : open'[j].before.depth <= open'[n].before.depth
    BY <1>3 DEF Depths
  <2>0. ~strayed /\ Len(open) > 1
    BY <1>1, <1>7
  <2>1. ~strayed /\ Len(open) \in 2..Len(open) /\ n \in 2..Len(open)
    BY <2>0, <1>2
  <2>2. open[n].before.depth <= Len(stack')
    BY <2>1, <1>2, <1>7 DEF IInv, Depths
  <2>3. \A j \in 2..n : open'[j] = open[j]
    <3>1. Len(open) \in Nat
      BY <1>2
    <3>2. \A j \in 2..n : j \in 1..Len(open) - 1
      BY <3>1
    <3> QED
      BY <3>2, <1>3
  <2>4. \A j \in 2..n : open[j].before.depth <= open[n].before.depth
    BY <2>1 DEF IInv, Depths
  <2> QED
    BY <2>1, <2>2, <2>3, <2>4, <1>3
<1>8. ASSUME ~strayed' PROVE Balanced'
  <2>1. ~strayed /\ Depths /\ Balanced
    BY <1>1, <1>8 DEF IInv
  <2>2. Top' = open[Len(open) - 1]
    BY <1>1, <1>2, <1>3 DEF Top, Last
  <2>3. \A n \in 1..Len(open) - 1 : Sane(open[n], stack', open[n + 1].before.depth,
                                       Saved(open[n + 1].before), open[n + 1].before.otel)
    <3> SUFFICES ASSUME NEW n \in 1..Len(open) - 1
                 PROVE  Sane(open[n], stack', open[n + 1].before.depth,
                             Saved(open[n + 1].before), open[n + 1].before.otel)
      OBVIOUS
    <3> DEFINE f == open[n + 1].before
    <3>1. n + 1 \in 2..Len(open) /\ n + 1 \in 1..Len(open) /\ Len(open) \in 2..Len(open) /\ n \in 1..Len(open)
      BY <1>2
    <3>2. Sane(open[n], stack, f.depth, Saved(f), f.otel)
      BY <2>1 DEF Balanced
    <3>3. f.depth \in Nat /\ f.depth <= Len(stack')
      BY <3>1, <2>1, <1>2, <1>8 DEF Depths
    <3> HIDE DEF f
    <3>4. \A p \in 1..f.depth : stack'[p] = stack[p]
      BY <3>3, <1>2, <1>8
    <3>5. Sane(open[n], stack', f.depth, Saved(f), f.otel)
      BY <3>1, <3>2, <3>3, <3>4, <1>2, SaneAgree
    <3> QED
      BY <3>5 DEF f
  <2>4. Len(open) - 1 \in 1..Len(open) - 1 /\ Len(open) - 1 + 1 = Len(open)
    BY <1>1, <1>2
  <2>5. Sane(Top', stack', Len(stack'), Mark', otel')
    BY <2>2, <2>3, <2>4, <1>2, <1>8
  <2>6. \A n \in 1..Len(open') - 1 : n + 1 \in 1..Len(open) - 1 /\ n \in 1..Len(open) - 1
    BY <1>2, <1>3
  <2> QED
    BY <2>3, <2>5, <2>6, <1>3 DEF Balanced
<1> QED
  BY <1>4, <1>5, <1>6, <1>7, <1>8 DEF IInv

\* The task binds or clears by hand: its innermost bracket counts k binds.
LEMMA HandStep ==
  ASSUME IInv, Call, NEW k \in Nat, open' = [open EXCEPT ![Len(open)].binds = k], real' = real,
         log' \in Log, ids' \in Ids, otel' \in Ids, parted' \in BOOLEAN, strayed' \in BOOLEAN, strayed => strayed',
         stack' \in Seq(Entry), Len(stack') <= MaxStack,
         ~strayed' => /\ Top.kind # "task" => Top.before.depth <= Len(stack')
                      /\ \A p \in 1..Len(stack) : p <= Len(stack') => stack'[p] = stack[p]
                      /\ Sane([Top EXCEPT !.binds = k], stack', Len(stack'), Mark', otel')
  PROVE  IInv'
<1> DEFINE N == Len(open)
<1> DEFINE b == [Top EXCEPT !.binds = k]
<1>1. /\ open \in Seq(Bracket) /\ N \in Nat \ {0} /\ N \in 1..N /\ Len(stack) \in Nat /\ Len(stack') \in Nat
      /\ Top = open[N] /\ Top \in Bracket
      /\ \A n \in 1..N : /\ open[n] \in Bracket
                        /\ open[n].binds \in Nat /\ open[n].before.depth \in Nat
  BY Types DEF IInv
<1>2. b \in Bracket /\ b.before = Top.before /\ b.kind = Top.kind /\ (Kept(Top) => Kept(b))
  BY <1>1 DEF Bracket, Kept
<1>3. open' = [open EXCEPT ![N] = b]
  BY <1>1
<1> HIDE DEF b, N
<1>4. /\ open' \in Seq(Bracket) /\ Len(open') = N
      /\ \A n \in 1..N : open'[n] = IF n = N THEN b ELSE open[n]
  <2>1. N = Len(open) /\ N \in 1..Len(open)
    BY <1>1 DEF N
  <2>2. /\ [open EXCEPT ![N] = b] \in Seq(Bracket)
        /\ Len([open EXCEPT ![N] = b]) = Len(open)
        /\ \A n \in 1..Len(open) : [open EXCEPT ![N] = b][n] = IF n = N THEN b ELSE open[n]
    BY <2>1, <1>1, <1>2, ExceptSeq
  <2> QED
    BY <2>1, <2>2, <1>3
<1>5. Top' = b
  BY <1>1, <1>4 DEF Top, Last
<1>6. \A n \in 1..N : open'[n].before = open[n].before /\ open'[n].kind = open[n].kind
  BY <1>1, <1>2, <1>4
<1>7. TypeOK'
  BY <1>1, <1>4, BoundAssumption DEF IInv, TypeOK, Call, N
<1>8. Kinds'
  BY <1>4, <1>6 DEF IInv, Kinds, N
<1>9. \A n \in 2..Len(open') : Kept(open'[n])
  <2> SUFFICES ASSUME NEW n \in 2..N PROVE Kept(open'[n])
    BY <1>4
  <2>1. n \in 1..N /\ Kept(open[n])
    BY <1>1 DEF IInv, N
  <2> QED
    BY <2>1, <1>1, <1>2, <1>4
<1>10. ASSUME ~strayed' PROVE Depths'
  <2>1. Depths
    BY <1>10 DEF IInv
  <2>2. \A n \in 2..N : n \in 1..N
    BY <1>1
  <2>3. N # 1 => Top.kind # "task"
    BY <1>1 DEF IInv, Kinds, N
  <2>4. \A n \in 2..N : open[n].before.depth <= Len(stack')
    <3> SUFFICES ASSUME NEW n \in 2..N PROVE open[n].before.depth <= Len(stack')
      OBVIOUS
    <3>1. N \in 2..N /\ n \in 2..N /\ N # 1 /\ n \in 1..N
      BY <1>1
    <3>2. open[n].before.depth <= Top.before.depth
      BY <3>1, <2>1, <1>1 DEF Depths, N
    <3>3. Top.before.depth <= Len(stack')
      BY <3>1, <2>3, <1>10 DEF b
    <3> QED
      BY <3>1, <3>2, <3>3, <1>1
  <2>5. \A n \in 2..N : \A j \in 2..n : j \in 1..N /\ open[j].before.depth <= open[n].before.depth
    BY <2>1, <1>1 DEF Depths, N
  <2> QED
    BY <2>2, <2>4, <2>5, <1>4, <1>6 DEF Depths
<1>11. ASSUME ~strayed' PROVE Balanced'
  <2>1. Depths /\ Balanced
    BY <1>11 DEF IInv
  <2>2. Sane(Top', stack', Len(stack'), Mark', otel')
    BY <1>5, <1>11 DEF b
  <2> SUFFICES ASSUME NEW n \in 1..N - 1
               PROVE  Sane(open'[n], stack', open'[n + 1].before.depth,
                           Saved(open'[n + 1].before), open'[n + 1].before.otel)
    BY <2>2, <1>4 DEF Balanced
  <2> DEFINE f == open[n + 1].before
  <2>3. n \in 1..N /\ n # N /\ n + 1 \in 2..N /\ n + 1 \in 1..N
    BY <1>1
  <2>4. Sane(open[n], stack, f.depth, Saved(f), f.otel)
    BY <2>1 DEF Balanced, N
  <2>5. f.depth \in Nat /\ f.depth <= Len(stack) /\ f.depth <= Len(stack')
    <3>1. f.depth \in Nat /\ f.depth <= Len(stack)
      BY <2>1, <2>3, <1>1 DEF Depths, N
    <3>2. Depths'
      BY <1>10, <1>11
    <3>3. open'[n + 1].before.depth <= Len(stack')
      BY <3>2, <2>3, <1>4 DEF Depths
    <3> QED
      BY <3>1, <3>3, <2>3, <1>6
  <2>6. open'[n + 1].before = f /\ open'[n] = open[n] /\ open[n].binds \in Nat /\ open[n].before.depth \in Nat
    BY <2>3, <1>1, <1>4, <1>6
  <2> HIDE DEF f
  <2>7. \A p \in 1..f.depth : stack'[p] = stack[p]
    <3> SUFFICES ASSUME NEW p \in 1..f.depth PROVE stack'[p] = stack[p]
      OBVIOUS
    <3>1. p \in 1..Len(stack) /\ p <= Len(stack')
      BY <2>5, <1>1
    <3> QED
      BY <3>1, <1>11
  <2>8. Sane(open[n], stack', f.depth, Saved(f), f.otel)
    BY <2>4, <2>5, <2>6, <2>7, SaneAgree
  <2> QED
    BY <2>6, <2>8
<1> QED
  BY <1>7, <1>8, <1>9, <1>10, <1>11 DEF IInv

\* It changes nothing but the logger's fields, or the tracer provider.
LEMMA QuietStep ==
  ASSUME IInv, log' \in Log, calls' \in 0..MaxCalls, real' \in BOOLEAN,
         UNCHANGED <<ids, stack, otel, parted, open, strayed>>
  PROVE  IInv'
<1>1. TypeOK'
  BY DEF IInv, TypeOK
<1>2. Kinds' /\ \A k \in 2..Len(open') : Kept(open'[k])
  BY DEF IInv, Kinds
<1>3. ~strayed' => Depths' /\ Balanced'
  BY DEF IInv, Depths, Balanced, Top, Mark
<1> QED
  BY <1>1, <1>2, <1>3 DEF IInv

LEMMA CallType == IInv /\ Call => calls' \in 0..MaxCalls
BY BoundAssumption DEF IInv, TypeOK, Call
-----------------------------------------------------------------------------
LEMMA BeginRequestInv ==
  ASSUME IInv, NEW v \in Fields, NEW h \in Headers, BeginRequest(v, h) PROVE IInv'
<1> DEFINE l == [log EXCEPT !.bound = v]
<1> DEFINE e == Pushed(l, h)
<1> DEFINE b == Opened("request", log)
<1>1. /\ Len(stack) < MaxStack /\ Open("request", log)
      /\ log' = Bound(l, h) /\ Mark' = <<Adopted(ids, h), Parted(h)>>
      /\ ids' = Adopted(ids, h) /\ parted' = Parted(h)
      /\ stack' = Append(stack, e) /\ otel' = Extracted(otel, h) /\ UNCHANGED <<real, calls>>
  BY DEF BeginRequest, SetContext, Mark
<1>2. l \in Log
  BY DEF Log, IInv, TypeOK
<1> HIDE DEF l
<1>3. /\ e \in Entry /\ Saved(e) = Mark /\ e.was = otel
      /\ Sound(e, otel') /\ log' \in Log /\ ids' \in Ids /\ otel' \in Ids /\ parted' \in BOOLEAN
      /\ Agree(Mark, otel) => Agree(Mark', otel')
  BY <1>1, <1>2, PushedType DEF IInv
<1> HIDE DEF e
<1>4. /\ stack' \in Seq(Entry) /\ Len(stack) \in Nat /\ Len(stack') = Len(stack) + 1
      /\ \A p \in 1..Len(stack) : stack'[p] = stack[p]
      /\ stack'[Len(stack) + 1] = e
  BY <1>1, <1>3, Types, AppendType DEF IInv
<1>5. Len(stack') <= MaxStack /\ Len(stack) <= Len(stack')
  BY <1>1, <1>4, BoundAssumption
<1>6. /\ b.kind = "request" /\ b.binds = 0 /\ b.before.depth = Len(stack)
      /\ Saved(b.before) = Mark /\ b.before.otel = otel
  BY OpenedType DEF IInv
<1> HIDE DEF b
<1>7. ASSUME ~strayed PROVE Sane(b, stack', Len(stack'), Mark', otel')
  <2>1. Agree(Mark', otel')
    BY <1>3, <1>7, AgreeNow
  <2>2. Bottom(b, Len(stack')) = Len(stack) + 1 /\ Own(b) = 1
    BY <1>4, <1>6 DEF Bottom, Own
  <2> QED
    BY <2>1, <2>2, <1>3, <1>4, <1>6 DEF Sane, AtMark, AtOtel
<1> QED
  BY <1>1, <1>3, <1>4, <1>5, <1>7, OpenStep DEF b, IInv, TypeOK

LEMMA BindWebsocketInv ==
  ASSUME IInv, NEW v \in Fields, BindWebsocket(v) PROVE IInv'
<1> DEFINE b == Opened("websocket", log)
<1>1. /\ Open("websocket", log) /\ log' = [log EXCEPT !.bound = v]
      /\ UNCHANGED <<ids, stack, otel, parted, real, calls>>
  BY DEF BindWebsocket
<1>2. log' \in Log /\ ids' \in Ids /\ otel' \in Ids /\ parted' \in BOOLEAN /\ stack' \in Seq(Entry) /\ Len(stack') <= MaxStack
  BY <1>1 DEF Log, IInv, TypeOK
<1>3. Len(stack) \in Nat
  BY Types DEF IInv
<1>4. /\ b.kind = "websocket" /\ b.binds = 0 /\ b.before.depth = Len(stack)
      /\ Saved(b.before) = Mark /\ b.before.otel = otel
  BY OpenedType DEF IInv
<1> HIDE DEF b
<1>5. ASSUME ~strayed PROVE Sane(b, stack', Len(stack'), Mark', otel')
  <2>1. Agree(Mark, otel)
    BY <1>5, AgreeNow
  <2>2. Bottom(b, Len(stack)) = Len(stack) /\ Own(b) = 0
    BY <1>3, <1>4 DEF Bottom, Own
  <2> QED
    BY <2>1, <2>2, <1>1, <1>3, <1>4 DEF Sane, AtMark, AtOtel, Mark
<1> QED
  BY <1>1, <1>2, <1>3, <1>5, OpenStep DEF b, IInv, TypeOK

LEMMA StartSpanInv ==
  ASSUME IInv, NEW i \in SpanIds, StartSpan(i) PROVE IInv'
<1> DEFINE k == IF real THEN "span" ELSE "noop"
<1> DEFINE b == Opened(k, log)
<1>1. /\ Open(k, log) /\ UNCHANGED <<log, stack>>
      /\ otel' = (IF real THEN i ELSE otel) /\ parted' = (real /\ ~real')
  BY DEF StartSpan
<1>2. /\ log' \in Log /\ otel' \in Ids /\ parted' \in BOOLEAN
      /\ stack' \in Seq(Entry) /\ Len(stack') <= MaxStack
      /\ real' \in BOOLEAN /\ calls' \in 0..MaxCalls
  <2>1. real' \in BOOLEAN /\ calls' \in 0..MaxCalls
    <3>1. real \in BOOLEAN /\ calls \in 0..MaxCalls /\ MaxCalls \in Nat
      BY BoundAssumption DEF IInv, TypeOK
    <3>2. UNCHANGED <<real, calls>> \/ (real' = ~real /\ calls < MaxCalls /\ calls' = calls + 1)
      BY DEF StartSpan, Provide, Call
    <3>3. real' \in BOOLEAN
      BY <3>1, <3>2
    <3>4. calls' \in 0..MaxCalls
      BY <3>1, <3>2
    <3> QED
      BY <3>3, <3>4
  <2> QED
    BY <1>1, <2>1, IdsType DEF IInv, TypeOK
<1>3. Len(stack) \in Nat /\ ids' \in Ids /\ Agree(Mark', otel') /\ (k = "noop" => otel' = otel)
  <2>1. Len(stack) \in Nat /\ (k = "noop" => otel' = otel)
    BY <1>1, Types DEF IInv
  <2>2. CASE real' /\ otel' # NoIds
    <3>1. ids' = otel'
      BY <2>2 DEF StartSpan
    <3> QED
      BY <2>1, <3>1, <1>2 DEF Agree, Mark
  <2>3. CASE ~(real' /\ otel' # NoIds) /\ real /\ ~real'
    <3>1. ids' = ids /\ parted'
      BY <2>3, <1>1 DEF StartSpan
    <3> QED
      BY <2>1, <3>1 DEF Agree, Mark, IInv, TypeOK
  <2>4. CASE ~(real' /\ otel' # NoIds) /\ ~(real /\ ~real')
    <3>1. ids' = ZeroIds
      BY <2>4 DEF StartSpan
    <3> QED
      BY <2>1, <3>1, IdsType DEF Agree, Mark
  <2> QED
    BY <2>2, <2>3, <2>4
<1>4. k \in {"request", "websocket", "span", "noop"} /\ k \in {"span", "noop"}
  OBVIOUS
<1> HIDE DEF k
<1>5. /\ b.kind = k /\ b.binds = 0 /\ b.before.depth = Len(stack)
      /\ Saved(b.before) = Mark /\ b.before.otel = otel
  BY <1>4, OpenedType DEF IInv
<1> HIDE DEF b
<1>6. ASSUME ~strayed PROVE Sane(b, stack', Len(stack'), Mark', otel')
  <2>1. Bottom(b, Len(stack)) = Len(stack) /\ Own(b) = 0
    BY <1>3, <1>4, <1>5 DEF Bottom, Own
  <2> QED
    BY <2>1, <1>1, <1>3, <1>4, <1>5 DEF Sane, AtMark, AtOtel
<1> QED
  BY <1>1, <1>2, <1>3, <1>4, <1>6, OpenStep DEF b
-----------------------------------------------------------------------------
\* A task that has brackets to leave is not in its body.
LEMMA InBracket ==
  ASSUME IInv, NEW kinds, Close(kinds)
  PROVE  /\ Top.kind \in kinds /\ Top.kind # "task" /\ Kept(Top) /\ Top \in Bracket
         /\ Top.before.log \in Log /\ Top.before.ids \in Ids /\ Top.before.otel \in Ids
         /\ Top.before.depth \in Nat
         /\ ~strayed' => /\ Top.binds = 0 /\ Len(stack) = Top.before.depth + Own(Top)
                         /\ Sane(Top, stack, Len(stack), Mark, otel)
<1>1. /\ Len(open) \in 2..Len(open) /\ Top = open[Len(open)] /\ Top \in Bracket
      /\ Len(open) \in 1..Len(open) /\ Len(open) # 1 /\ Len(stack) \in Nat
      /\ Top.binds \in Nat /\ Top.before.depth \in Nat
  BY Types DEF IInv, Close
<1>2. Top.kind # "task" /\ Kept(Top)
  BY <1>1 DEF IInv, Kinds
<1>3. Top.before.log \in Log /\ Top.before.ids \in Ids /\ Top.before.otel \in Ids
  BY <1>1 DEF Bracket
<1>4. ~strayed' => ~strayed /\ Top.binds = 0
  BY DEF Close
<1>5. ~strayed => Sane(Top, stack, Len(stack), Mark, otel)
  BY DEF IInv, Balanced
<1>6. ~strayed' => Len(stack) = Top.before.depth + Own(Top)
  BY <1>1, <1>2, <1>4, <1>5 DEF Sane, Bottom
<1> QED
  BY <1>1, <1>2, <1>3, <1>4, <1>5, <1>6 DEF Close

\* The state that the finally of the middleware leaves.
LEMMA EndRequestFacts ==
  ASSUME IInv, EndRequest
  PROVE  /\ log' = Top.before.log
         /\ log' \in Log /\ ids' \in Ids /\ otel' \in Ids /\ parted' \in BOOLEAN
         /\ stack' \in Seq(Entry) /\ Len(stack') <= MaxStack
         /\ ~strayed' => /\ Mark' = Saved(Top.before) /\ otel' = Top.before.otel
                         /\ Len(stack') = Top.before.depth
                         /\ \A p \in 1..Len(stack') : stack'[p] = stack[p]
<1>1. /\ Close({"request"}) /\ log' = Top.token /\ ids' = Previous.ids
      /\ stack' = Popped /\ otel' = Detached(Previous) /\ parted' = Previous.parted
  BY DEF EndRequest, SetContext, AfterRequest
<1>2. /\ Top.kind = "request" /\ Kept(Top)
      /\ Top.before.log \in Log /\ Top.before.depth \in Nat
      /\ ~strayed' => /\ Top.binds = 0 /\ Len(stack) = Top.before.depth + Own(Top)
                      /\ Sane(Top, stack, Len(stack), Mark, otel)
  BY <1>1, InBracket
<1>3. /\ Previous \in Entry /\ Detached(Previous) \in Ids /\ Previous.parted \in BOOLEAN
      /\ Popped \in Seq(Entry) /\ Len(Popped) <= Len(stack) /\ Len(Popped) \in Nat
      /\ stack # <<>> => /\ Len(stack) \in Nat \ {0} /\ Len(Popped) = Len(stack) - 1
                         /\ Previous = stack[Len(stack)]
                         /\ \A p \in 1..Len(stack) - 1 : Popped[p] = stack[p]
  BY PreviousType DEF IInv
<1>4. log' = Top.before.log /\ ids' \in Ids /\ Mark' = Saved(Previous)
  BY <1>1, <1>2, <1>3 DEF Kept, Entry, Mark, Saved
<1>5. Len(stack') <= MaxStack
  BY <1>1, <1>3, BoundAssumption, Types DEF IInv, TypeOK
<1>6. ASSUME ~strayed'
      PROVE  /\ Mark' = Saved(Top.before) /\ otel' = Top.before.otel
             /\ Len(stack') = Top.before.depth
             /\ \A p \in 1..Len(stack') : stack'[p] = stack[p]
  <2>1. Len(stack) = Top.before.depth + 1 /\ Len(stack) \in Nat /\ Own(Top) = 1
    BY <1>2, <1>6 DEF Own
  <2>2. stack # <<>>
    BY <2>1, <1>2
  <2>3. Len(Popped) = Top.before.depth /\ Previous = stack[Len(stack)]
    BY <2>1, <2>2, <1>2, <1>3
  <2>4. Bottom(Top, Len(stack)) = Len(stack) /\ AtOtel(stack, Len(stack), otel, Len(stack)) = otel
    BY <2>1, <1>2, <1>6 DEF Bottom, AtOtel
  <2>5. /\ Saved(Previous) = Saved(Top.before) /\ Previous.was = Top.before.otel
        /\ Sound(Previous, otel)
    BY <2>3, <2>4, <1>2, <1>6 DEF Sane
  <2>6. otel' = Top.before.otel
    BY <2>5, <1>1 DEF Sound, Detached
  <2>7. \A p \in 1..Len(Popped) : p \in 1..Len(stack) - 1
    BY <2>2, <1>3
  <2> QED
    BY <2>2, <2>3, <2>5, <2>6, <2>7, <1>1, <1>3, <1>4
<1> QED
  BY <1>1, <1>2, <1>3, <1>4, <1>5, <1>6

LEMMA ClearWebsocketFacts ==
  ASSUME IInv, ClearWebsocket
  PROVE  /\ log' = Top.before.log
         /\ log' \in Log /\ ids' \in Ids /\ otel' \in Ids /\ parted' \in BOOLEAN
         /\ stack' \in Seq(Entry) /\ Len(stack') <= MaxStack
         /\ ~strayed' => /\ Mark' = Saved(Top.before) /\ otel' = Top.before.otel
                         /\ Len(stack') = Top.before.depth
                         /\ \A p \in 1..Len(stack') : stack'[p] = stack[p]
<1>1. Close({"websocket"}) /\ log' = Top.token /\ UNCHANGED <<ids, stack, otel, parted>>
  BY DEF ClearWebsocket
<1>2. /\ Top.kind = "websocket" /\ Kept(Top)
      /\ Top.before.log \in Log /\ Top.before.depth \in Nat
      /\ ~strayed' => /\ Top.binds = 0 /\ Len(stack) = Top.before.depth + Own(Top)
                      /\ Sane(Top, stack, Len(stack), Mark, otel)
  BY <1>1, InBracket
<1>3. ASSUME ~strayed' PROVE Mark' = Saved(Top.before) /\ otel = Top.before.otel /\ Len(stack) = Top.before.depth
  <2>1. Len(stack) = Top.before.depth /\ Bottom(Top, Len(stack)) = Len(stack)
    BY <1>2, <1>3 DEF Own, Bottom
  <2> QED
    BY <2>1, <1>1, <1>2, <1>3 DEF Sane, AtMark, AtOtel, Mark
<1> QED
  BY <1>1, <1>2, <1>3 DEF Kept, IInv, TypeOK

LEMMA EndSpanFacts ==
  ASSUME IInv, EndSpan
  PROVE  /\ Top.kind \in {"span", "noop"}
         /\ log' \in Log /\ ids' \in Ids /\ otel' \in Ids /\ parted' \in BOOLEAN
         /\ stack' \in Seq(Entry) /\ Len(stack') <= MaxStack
         /\ ~strayed' => /\ Mark' = Saved(Top.before) /\ otel' = Top.before.otel
                         /\ Len(stack') = Top.before.depth
                         /\ \A p \in 1..Len(stack') : stack'[p] = stack[p]
<1>1. /\ Close({"span", "noop"}) /\ ids' = Top.prev /\ parted' = Top.before.parted
      /\ otel' = (IF Top.kind = "span" THEN Top.parent ELSE otel) /\ UNCHANGED <<log, stack>>
  BY DEF EndSpan
<1>2. /\ Top.kind \in {"span", "noop"} /\ Kept(Top)
      /\ Top.before.ids \in Ids /\ Top.before.otel \in Ids /\ Top.before.depth \in Nat
      /\ Top \in Bracket
      /\ ~strayed' => /\ Top.binds = 0 /\ Len(stack) = Top.before.depth + Own(Top)
                      /\ Sane(Top, stack, Len(stack), Mark, otel)
  BY <1>1, InBracket
<1>3. /\ ids' = Top.before.ids /\ Mark' = Saved(Top.before) /\ Top.parent = Top.before.otel
      /\ parted' \in BOOLEAN
  BY <1>1, <1>2 DEF Kept, Mark, Saved, Bracket
<1>4. ASSUME ~strayed' PROVE otel' = Top.before.otel /\ Len(stack) = Top.before.depth
  <2>1. Len(stack) = Top.before.depth /\ Bottom(Top, Len(stack)) = Len(stack)
    BY <1>2, <1>4 DEF Own, Bottom
  <2>2. CASE Top.kind = "span"
    BY <2>1, <2>2, <1>1, <1>3
  <2>3. CASE Top.kind = "noop"
    BY <2>1, <2>3, <1>1, <1>2, <1>4 DEF Sane, AtOtel
  <2> QED
    BY <2>2, <2>3, <1>2
<1> QED
  BY <1>1, <1>2, <1>3, <1>4 DEF IInv, TypeOK

LEMMA CloseInv ==
  ASSUME IInv, EndRequest \/ ClearWebsocket \/ EndSpan PROVE IInv'
<1>1. CASE EndRequest
  BY <1>1, EndRequestFacts, CloseStep DEF EndRequest
<1>2. CASE ClearWebsocket
  BY <1>2, ClearWebsocketFacts, CloseStep DEF ClearWebsocket
<1>3. CASE EndSpan
  BY <1>3, EndSpanFacts, CloseStep DEF EndSpan
<1> QED
  BY <1>1, <1>2, <1>3
-----------------------------------------------------------------------------
LEMMA BindPropagationInv ==
  ASSUME IInv, NEW h \in Headers, BindPropagation(h) PROVE IInv'
<1> DEFINE e == Pushed(log, h)
<1> DEFINE k == Top.binds + 1
<1> DEFINE c == [Top EXCEPT !.binds = k]
<1>1. /\ Call /\ Len(stack) < MaxStack
      /\ log' = Bound(log, h) /\ Mark' = <<Adopted(ids, h), Parted(h)>>
      /\ ids' = Adopted(ids, h) /\ parted' = Parted(h)
      /\ stack' = Append(stack, e) /\ otel' = Extracted(otel, h)
      /\ UNCHANGED <<real, strayed>>
  BY DEF BindPropagation, SetContext, Mark
<1>2. /\ e \in Entry /\ Saved(e) = Mark /\ e.was = otel
      /\ Sound(e, otel') /\ log' \in Log /\ ids' \in Ids /\ otel' \in Ids /\ parted' \in BOOLEAN
      /\ Agree(Mark, otel) => Agree(Mark', otel')
  BY <1>1, PushedType DEF IInv, TypeOK
<1> HIDE DEF e
<1>3. /\ stack' \in Seq(Entry) /\ Len(stack) \in Nat /\ Len(stack') = Len(stack) + 1
      /\ \A p \in 1..Len(stack) : stack'[p] = stack[p]
      /\ stack'[Len(stack) + 1] = e
  BY <1>1, <1>2, Types, AppendType DEF IInv
<1>4. Len(stack') <= MaxStack
  BY <1>1, <1>3, BoundAssumption
<1>5. /\ open \in Seq(Bracket) /\ Len(open) \in 1..Len(open)
      /\ Top = open[Len(open)] /\ Top \in Bracket /\ Top.binds \in Nat /\ Top.before.depth \in Nat
  BY Types DEF IInv
<1>6. k \in Nat /\ open' = [open EXCEPT ![Len(open)].binds = k]
  BY <1>5 DEF BindPropagation
<1>7. c.kind = Top.kind /\ c.before = Top.before /\ c.binds = Top.binds + 1
  BY <1>5 DEF Bracket
<1>8. ASSUME ~strayed PROVE /\ Sane(c, stack', Len(stack'), Mark', otel')
                            /\ Top.kind # "task" => Top.before.depth <= Len(stack')
  <2>1. Sane(Top, stack, Len(stack), Mark, otel) /\ Agree(Mark', otel')
    BY <1>2, <1>8, AgreeNow DEF IInv, Balanced
  <2> HIDE DEF c
  <2>2. Sane(c, stack', Len(stack) + 1, Mark', otel')
    BY <2>1, <1>2, <1>3, <1>5, <1>7, SanePush
  <2>3. Top.kind # "task" => Top.before.depth <= Len(stack)
    BY <2>1, <1>3, <1>5 DEF Sane, Bottom, Own
  <2> QED
    BY <2>2, <2>3, <1>3, <1>5
<1>9. strayed' \in BOOLEAN /\ strayed' = strayed
  BY <1>1 DEF IInv, TypeOK
<1>10. \A p \in 1..Len(stack) : p <= Len(stack') => stack'[p] = stack[p]
  BY <1>3
<1>11. ~strayed' => /\ Top.kind # "task" => Top.before.depth <= Len(stack')
                    /\ \A p \in 1..Len(stack) : p <= Len(stack') => stack'[p] = stack[p]
                    /\ Sane(c, stack', Len(stack'), Mark', otel')
  BY <1>8, <1>9, <1>10
<1>12. /\ Call /\ real' = real /\ (strayed => strayed')
       /\ log' \in Log /\ ids' \in Ids /\ otel' \in Ids /\ parted' \in BOOLEAN /\ stack' \in Seq(Entry)
  BY <1>1, <1>2, <1>3, <1>9
<1> HIDE DEF k
<1> QED
  BY <1>4, <1>6, <1>9, <1>11, <1>12, HandStep

LEMMA ClearPropagationInv ==
  ASSUME IInv, ClearPropagation PROVE IInv'
<1> DEFINE k == IF Top.binds > 0 THEN Top.binds - 1 ELSE Top.binds
<1> DEFINE c == [Top EXCEPT !.binds = k]
<1>1. /\ Call /\ log' = Cleared(log, Previous) /\ ids' = Previous.ids /\ parted' = Previous.parted
      /\ stack' = Popped /\ otel' = Detached(Previous)
      /\ strayed' = (strayed \/ Top.binds = 0) /\ real' = real
  BY DEF ClearPropagation, SetContext
<1>2. /\ Previous \in Entry /\ Detached(Previous) \in Ids /\ Previous.parted \in BOOLEAN
      /\ Popped \in Seq(Entry) /\ Len(Popped) <= Len(stack) /\ Len(Popped) \in Nat
      /\ stack # <<>> => /\ Len(stack) \in Nat \ {0} /\ Len(Popped) = Len(stack) - 1
                         /\ Previous = stack[Len(stack)]
                         /\ \A p \in 1..Len(stack) - 1 : Popped[p] = stack[p]
  BY PreviousType DEF IInv
<1>3. log' \in Log /\ ids' \in Ids /\ Len(stack') <= MaxStack
  <2>1. log' \in Log /\ ids' \in Ids
    BY <1>1, <1>2 DEF Cleared, Entry, Log, IInv, TypeOK
  <2>2. Len(stack) \in Nat /\ Len(stack) <= MaxStack
    BY Types DEF IInv, TypeOK
  <2> QED
    BY <2>1, <2>2, <1>1, <1>2, BoundAssumption
<1>4. /\ open \in Seq(Bracket) /\ Len(open) \in 1..Len(open) /\ Len(stack) \in Nat
      /\ Top = open[Len(open)] /\ Top \in Bracket /\ Top.binds \in Nat /\ Top.before.depth \in Nat
  BY Types DEF IInv
<1>5. k \in Nat /\ open' = [open EXCEPT ![Len(open)].binds = k]
  BY <1>4 DEF ClearPropagation
<1>6. c.kind = Top.kind /\ c.before = Top.before /\ c.binds = k
  BY <1>4 DEF Bracket
<1>7. ASSUME ~strayed'
      PROVE  /\ Top.kind # "task" => Top.before.depth <= Len(stack')
             /\ \A p \in 1..Len(stack) : p <= Len(stack') => stack'[p] = stack[p]
             /\ Sane(c, stack', Len(stack'), Mark', otel')
  <2>1. ~strayed /\ Top.binds \in Nat \ {0} /\ k = Top.binds - 1
    <3>1. ~strayed /\ Top.binds # 0
      BY <1>1, <1>7
    <3> QED
      BY <3>1, <1>4
  <2>2. Sane(Top, stack, Len(stack), Mark, otel)
    BY <2>1 DEF IInv, Balanced
  <2> HIDE DEF c, k
  <2>3. /\ Len(stack) \in Nat \ {0} /\ Sound(stack[Len(stack)], otel)
        /\ Top.kind # "task" => Top.before.depth < Len(stack)
        /\ Sane(c, stack, Len(stack) - 1, Saved(stack[Len(stack)]), stack[Len(stack)].was)
    BY <2>1, <2>2, <1>4, <1>6, SanePop
  <2>4. stack # <<>>
    BY <2>3
  <2>5. Previous = stack[Len(stack)] /\ Len(stack') = Len(stack) - 1
        /\ \A p \in 1..Len(stack) - 1 : stack'[p] = stack[p]
    BY <2>4, <1>1, <1>2
  <2>6. Mark' = Saved(stack[Len(stack)]) /\ otel' = stack[Len(stack)].was
    BY <2>3, <2>5, <1>1 DEF Sound, Detached, Mark, Saved
  <2>7. Sane(c, stack', Len(stack'), Mark', otel')
    <3>1. c.binds \in Nat /\ c.before.depth \in Nat /\ Len(stack) - 1 \in Nat
      BY <2>3, <1>4, <1>5, <1>6
    <3>2. Sane(c, stack', Len(stack) - 1, Saved(stack[Len(stack)]), stack[Len(stack)].was)
      BY <2>3, <2>5, <3>1, SaneAgree
    <3> QED
      BY <3>2, <2>5, <2>6
  <2>8. \A p \in 1..Len(stack) : p <= Len(stack') => stack'[p] = stack[p]
    BY <2>3, <2>5
  <2>9. Top.kind # "task" => Top.before.depth <= Len(stack')
    BY <2>3, <2>5, <1>4
  <2> QED
    BY <2>7, <2>8, <2>9
<1>8. strayed' \in BOOLEAN /\ (strayed => strayed')
  BY <1>1, <1>4 DEF IInv, TypeOK
<1> HIDE DEF k
<1> QED
  BY <1>1, <1>2, <1>3, <1>5, <1>7, <1>8, HandStep

LEMMA CreateTaskInv ==
  ASSUME IInv, CreateTask PROVE IInv'
<1> DEFINE e(n) == IF stack[n].token = Absent THEN stack[n] ELSE [stack[n] EXCEPT !.token.mine = FALSE]
<1>1. /\ Call /\ stack' = [n \in 1..Len(stack) |-> e(n)] /\ open' = <<Body>>
      /\ UNCHANGED <<log, ids, otel, parted, real, strayed>>
  BY DEF CreateTask
<1>2. Len(stack) \in Nat /\ \A n \in 1..Len(stack) : stack[n] \in Entry
  BY Types DEF IInv
<1>3. \A n \in 1..Len(stack) : e(n) \in Entry
  BY <1>2 DEF Entry, Token
<1> HIDE DEF e
<1>4. stack' \in Seq(Entry) /\ Len(stack') = Len(stack)
  <2> DEFINE r == SubSeq(stack', 1, Len(stack))
  <2>1. stack' \in [1..Len(stack) -> Entry]
    BY <1>1, <1>3
  <2>2. /\ r \in Seq(Entry)
        /\ Len(r) = IF 1 <= Len(stack) THEN Len(stack) - 1 + 1 ELSE 0
        /\ \A i \in 1..Len(stack) - 1 + 1 : r[i] = stack'[1 + i - 1]
    <3>1. 1 \in Int /\ Len(stack) \in Int /\ \A i \in 1..Len(stack) : stack'[i] \in Entry
      BY <2>1, <1>2
    <3> QED
      BY <3>1, SubSeqProperties
  <2> HIDE DEF r
  <2>3. Len(r) = Len(stack) /\ \A i \in 1..Len(stack) : r[i] = stack'[i]
    BY <2>2, <1>2
  <2>4. r \in [1..Len(stack) -> Entry]
    BY <2>2, <2>3, LenProperties
  <2>5. r = stack'
    BY <2>1, <2>3, <2>4
  <2> QED
    BY <2>2, <2>3, <2>5
<1>5. /\ open' \in Seq(Bracket) /\ Len(open') = 1 /\ open'[1] = Body /\ Top' = Body
  BY <1>1, BodyType DEF Top, Last
<1>6. TypeOK'
  BY <1>1, <1>4, <1>5, CallType, BoundAssumption DEF IInv, TypeOK
<1>7. Kinds' /\ Depths' /\ \A k \in 2..Len(open') : Kept(open'[k])
  BY <1>5 DEF Kinds, Depths, Body
<1>8. ASSUME ~strayed PROVE Balanced'
  <2>1. Agree(Mark, otel)
    BY <1>8, AgreeNow
  <2>2. Bottom(Body, Len(stack)) = Len(stack) /\ Body.kind = "task"
    BY <1>2 DEF Bottom, Body
  <2>3. \A p \in Len(stack)..Len(stack) : p = Len(stack)
    BY <1>2
  <2>4. Sane(Body, stack', Len(stack), Mark, otel)
    BY <2>1, <2>2, <2>3, <1>2 DEF Sane, AtMark, AtOtel
  <2> QED
    BY <2>4, <1>1, <1>4, <1>5 DEF Balanced, Mark
<1> QED
  BY <1>1, <1>6, <1>7, <1>8 DEF IInv

LEMMA FieldsInv ==
  ASSUME IInv, ClearFields \/ Provider \/ \E v \in Fields : BindField(v) PROVE IInv'
<1>1. CASE ClearFields
  BY <1>1, EmptyLogType, CallType, QuietStep DEF ClearFields, IInv, TypeOK
<1>2. CASE Provider
  <2>1. Call /\ real' = ~real /\ UNCHANGED <<log, ids, stack, otel, parted, open, strayed>>
    BY <1>2 DEF Provider, Provide
  <2>2. log' \in Log /\ real' \in BOOLEAN
    BY <2>1 DEF IInv, TypeOK
  <2> QED
    BY <2>1, <2>2, CallType, QuietStep
<1>3. ASSUME NEW v \in Fields, BindField(v) PROVE IInv'
  <2>1. Call /\ log' = [log EXCEPT !.bound = v] /\ UNCHANGED <<ids, stack, otel, parted, open, real, strayed>>
    BY <1>3 DEF BindField
  <2>2. log' \in Log /\ real' \in BOOLEAN
    BY <2>1 DEF IInv, TypeOK, Log
  <2> QED
    BY <2>1, <2>2, CallType, QuietStep
<1> QED
  BY <1>1, <1>2, <1>3

LEMMA HeaderType == ASSUME NEW scope \in Scopes PROVE GetHeader(scope) \in Headers
<1>1. CASE scope = <<>>
  BY <1>1 DEF GetHeader, Headers
<1>2. CASE scope \in {<<h>> : h \in Headers}
  BY <1>2 DEF GetHeader
<1>3. CASE scope \in {<<h, k>> : h \in Headers, k \in Headers}
  BY <1>3 DEF GetHeader
<1> QED
  BY <1>1, <1>2, <1>3 DEF Scopes

LEMMA NextInv == IInv /\ [Next]_vars => IInv'
<1> SUFFICES ASSUME IInv, [Next]_vars PROVE IInv'
  OBVIOUS
<1>1. ASSUME NEW v \in RequestFields, NEW scope \in Scopes, BeginRequest(v, GetHeader(scope)) PROVE IInv'
  BY <1>1, HeaderType, BeginRequestInv DEF RequestFields
<1>2. ASSUME NEW v \in Fields, BindWebsocket(v) PROVE IInv'
  BY <1>2, BindWebsocketInv
<1>3. ASSUME NEW i \in SpanIds, StartSpan(i) PROVE IInv'
  BY <1>3, StartSpanInv
<1>4. ASSUME NEW h \in Headers, BindPropagation(h) PROVE IInv'
  BY <1>4, BindPropagationInv
<1>5. CASE EndRequest \/ ClearWebsocket \/ EndSpan
  BY <1>5, CloseInv
<1>6. CASE ClearPropagation
  BY <1>6, ClearPropagationInv
<1>7. CASE CreateTask
  BY <1>7, CreateTaskInv
<1>8. CASE ClearFields \/ Provider \/ \E v \in Fields : BindField(v)
  BY <1>8, FieldsInv
<1>9. CASE UNCHANGED vars
  BY <1>9, QuietStep DEF vars, IInv, TypeOK
<1> QED
  BY <1>1, <1>2, <1>3, <1>4, <1>5, <1>6, <1>7, <1>8, <1>9 DEF Next

LEMMA Invariance == Spec => []IInv
BY InitInv, NextInv, PTL DEF Spec
-----------------------------------------------------------------------------
\* Type correctness: the contextvars of logger/context.py, tracing/context.py
\* and propagation.py through any nesting of brackets.
THEOREM TypeCorrect == Spec => []TypeOK
<1>1. IInv => TypeOK
  BY DEF IInv
<1> QED
  BY <1>1, Invariance, PTL

\* The ids that logs and exemplars carry (tracing/context.py) stay those of
\* OpenTelemetry's context, for any nesting of requests, spans and binds, and are
\* again after a span that a shutdown met as it started and after a bind of a
\* header that only one of the two parsers takes.
THEOREM StaysInStep == Spec => []InStep
<1>1. IInv => InStep
  BY AgreeNow DEF InStep, Agree, Mark
<1> QED
  BY <1>1, Invariance, PTL

\* A step that leaves a bracket is one of the three that do.
LEMMA ClosesBy ==
  ASSUME IInv, Next, Len(open') < Len(open), calls' = calls
  PROVE  EndRequest \/ ClearWebsocket \/ EndSpan
<1>1. Len(open) \in Nat /\ open \in Seq(Bracket) /\ calls \in Nat
  BY Types, BoundAssumption DEF IInv, TypeOK
<1>2. ASSUME NEW k \in {"request", "websocket", "span", "noop"}, Open(k, log) PROVE FALSE
  <2>1. Opened(k, log) \in Bracket /\ open' = Append(open, Opened(k, log))
    BY <1>2, OpenedType DEF IInv, Open
  <2>2. Len(open') = Len(open) + 1
    BY <2>1, <1>1, AppendType
  <2> QED
    BY <2>2, <1>1
<1>3. ~Call
  BY <1>1 DEF Call
<1> QED
  BY <1>2, <1>3
  DEF Next, BeginRequest, BindWebsocket, BindField, StartSpan, BindPropagation, ClearPropagation,
      ClearFields, CreateTask, Provider, Provide

\* The finally of the middleware and clear_websocket_context (asgi) restore the
\* logger's fields, whatever the application did with them.
THEOREM RestoresFields == Spec => RequestRestoresFields
<1> DEFINE A == \A k \in {"request", "websocket"} : Closes(k) => log' = Top.before.log
<1>1. IInv /\ [Next]_vars => [A]_vars
  <2> SUFFICES ASSUME IInv, Next, NEW k \in {"request", "websocket"}, Closes(k)
               PROVE  log' = Top.before.log
    OBVIOUS
  <2>1. EndRequest \/ ClearWebsocket \/ EndSpan
    BY ClosesBy DEF Closes
  <2>2. ~EndSpan
    BY EndSpanFacts DEF Closes
  <2> QED
    BY <2>1, <2>2, EndRequestFacts, ClearWebsocketFacts
<1> QED
  BY <1>1, Invariance, PTL DEF Spec, RequestRestoresFields

\* Requests, websockets and the trace decorator restore the ids, OpenTelemetry's
\* context and the propagation stack, as long as binds and clears are paired.
THEOREM RestoresTrace == Spec => BracketRestoresTrace
<1> DEFINE A == \A k \in {"request", "websocket", "span", "noop"} :
                   Closes(k) /\ ~strayed' =>
                     /\ ids' = Top.before.ids
                     /\ otel' = Top.before.otel
                     /\ Len(stack') = Top.before.depth
<1>1. IInv /\ [Next]_vars => [A]_vars
  <2> SUFFICES ASSUME IInv, Next, NEW k \in {"request", "websocket", "span", "noop"},
                      Closes(k), ~strayed'
               PROVE  /\ ids' = Top.before.ids
                      /\ otel' = Top.before.otel
                      /\ Len(stack') = Top.before.depth
    OBVIOUS
  <2>1. EndRequest \/ ClearWebsocket \/ EndSpan
    BY ClosesBy DEF Closes
  <2> QED
    BY <2>1, EndRequestFacts, ClearWebsocketFacts, EndSpanFacts DEF Mark, Saved
<1> QED
  BY <1>1, Invariance, PTL DEF Spec, BracketRestoresTrace
=============================================================================
