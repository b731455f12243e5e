--------------------------------- MODULE Pii ---------------------------------
(***************************************************************************)
(* The PII engines: sanitize_payload of pii.py and sanitizePayload of      *)
(* pii.ts.  A payload is a tree of dicts and lists, with leaves told apart *)
(* as the engines do: a text that is short, which truncation leaves alone, *)
(* a text that is a secret, long and like one of the secret patterns, or a *)
(* value that is not a text and whose text is short, a number.  A tree is  *)
(* the function from the places in it, sequences of keys and of items of   *)
(* lists, to what is there.  Truncation makes a text of whatever it is     *)
(* given; the beginning of a container's text tells values that were in    *)
(* the container, and the tree keeps their places below that of the text,  *)
(* where no engine goes.  The engines walk trees recursively; the          *)
(* operators below say what a walk does at each place, and PiiTrees has    *)
(* the walks themselves, shown to agree.                                   *)
(*                                                                         *)
(* Rules are applied one after the other, then the default redaction.  In  *)
(* Python another thread may register or replace rules between the steps;  *)
(* in TypeScript nothing can come in between.  The safety limit of 32      *)
(* levels is out of the payloads' reach.                                   *)
(***************************************************************************)
EXTENDS Integers, Sequences, SequencesExt

CONSTANTS
  DictKeys,   \* keys of dicts
  ListItems,  \* items of lists
  Lower,      \* the key in lower case
  Sensitive,  \* keys, in lower case, redacted by default
  Payloads,   \* trees the engine is given
  RuleLists,  \* lists of rules the application may install
  NewRules,   \* rules it may register besides
  MaxRules,   \* bound: rules in the list
  Depths      \* max_nesting_depth

VARIABLES
  lang,       \* "python" or "typescript"
  maxDepth,   \* max_depth
  rules,      \* _rules
  payload,    \* the payload of the call
  used,       \* the rules the call works with
  next,       \* the rule to apply next; beyond them, the default redaction
  cleaned,    \* what has become of the payload
  phase       \* "idle", "busy" or "done"

piiVars == <<lang, maxDepth, rules, payload, used, next, cleaned, phase>>

Modes == {"drop", "redact", "hash", "truncate"}
Rules == [path: Seq(DictKeys \cup {"*"}), mode: Modes]

Brief  == {"short", "number"}
Raw    == Brief \cup {"secret"}
Masked == "***"                 \* or a hash, or the beginning of a text
Nodes  == Raw \cup {"digits", Masked, "dict", "list"}

\* A number is told by its text, which is not equal to it.
AsText(leaf) == IF leaf = "number" THEN "digits" ELSE leaf

Place == Seq(DictKeys \cup ListItems)
Upto(place, j) == SubSeq(place, 1, j)
Empty == [p \in {<<>>} |-> "dict"]

\* Below a text are values it tells, and what was on the way to them.
IsTree(T) ==
  /\ DOMAIN T \subseteq Place
  /\ <<>> \in DOMAIN T /\ T[<<>>] = "dict"
  /\ \A p \in DOMAIN T :
       /\ T[p] \in Nodes
       /\ \A j \in 1..Len(p) :
            /\ Upto(p, j - 1) \in DOMAIN T
            /\ T[Upto(p, j - 1)] \in {Masked, IF p[j] \in DictKeys THEN "dict" ELSE "list"}
            /\ T[p] = "secret" => T[Upto(p, j - 1)] # Masked

ASSUME KeysAssumption     == DictKeys \cap ListItems = {} /\ Lower \in [DictKeys -> DictKeys]
ASSUME PayloadsAssumption ==
  \A T \in Payloads : IsTree(T) /\ \A p \in DOMAIN T : T[p] \notin {Masked, "digits"}
ASSUME RulesAssumption    == NewRules \subseteq Rules /\ RuleLists \subseteq Seq(Rules)
ASSUME DepthsAssumption   == Depths \subseteq Nat

\* A result has no key and no item that the payload has not, and no text made
\* of a container tells a secret.
PiiTypeOK ==
  /\ lang \in {"python", "typescript"} /\ maxDepth \in Depths
  /\ rules \in Seq(Rules) /\ used \in Seq(Rules)
  /\ next \in 1..Len(used) + 1
  /\ payload \in Payloads \cup {Empty}
  /\ IsTree(cleaned) /\ DOMAIN cleaned \subseteq DOMAIN payload
  /\ phase \in {"idle", "busy", "done"}
-----------------------------------------------------------------------------
\* Operators named Mut... are mutations of the operator they precede; nothing
\* in the model uses them.

\* _mask: truncation takes the text of what it is given.
Mask(mode, node) ==
  IF mode = "truncate" /\ node \in Brief \cup {"digits"} THEN AsText(node) ELSE Masked

\* _match: items of lists are "*" in paths.
Segment(step) == IF step \in DictKeys THEN step ELSE "*"
Matches(path, place) ==
  /\ Len(path) = Len(place)
  /\ \A i \in 1..Len(path) : path[i] \in {"*", Segment(place[i])}

\* A rule is for the value at a place: values of keys only, never items.
For(r, place) ==
  Len(place) > 0 /\ place[Len(place)] \in DictKeys /\ Matches(r.path, place)

\* The walk of a rule gets to it: no text is on the way.
Hits(r, T, place) ==
  /\ For(r, place)
  /\ \A j \in 1..Len(place) - 1 : T[Upto(place, j)] # Masked

\* What the beginning of the text of a container may tell.  In TypeScript a
\* dict has a text that tells nothing of it.
Tells(T, place, j) ==
  /\ T[place] \in Brief \cup {"digits"}
  /\ lang = "typescript" => \A i \in j + 1..Len(place) : place[i] \notin DictKeys
Tellable(r, T) ==
  {p \in DOMAIN T : /\ r.mode = "truncate"
                    /\ \E j \in 1..Len(p) - 1 : Hits(r, T, Upto(p, j)) /\ Tells(T, p, j)}

\* _apply_rule: what it is for is masked or dropped, and all below it goes but
\* the values told, those that are in what truncation leaves of a container.
MutApplyRule(r, T, told) ==
  [p \in {p \in DOMAIN T : \A j \in 1..Len(p) : Hits(r, T, Upto(p, j)) => r.mode # "drop"} |->
     IF Hits(r, T, p) THEN Mask(r.mode, T[p]) ELSE T[p]]
ApplyRule(r, T, told) ==
  [p \in {p \in DOMAIN T : \A j \in 1..Len(p) :
            Hits(r, T, Upto(p, j)) =>
              r.mode # "drop" /\ (j = Len(p) \/ \E q \in told : IsPrefix(p, q))} |->
     IF Hits(r, T, p) THEN Mask(r.mode, T[p]) ELSE T[p]]

\* _collect_rule_leaf_keys, and ruleTargets in TypeScript, where case is of no
\* account: a rule that ends in "token" targets "Token", which it never matches.
Targeting(r, key) ==
  LET n == Len(r.path) IN
  /\ n > 0
  /\ IF lang = "python" THEN r.path[n] = key
     ELSE r.path[n] \in DictKeys /\ Lower[r.path[n]] = Lower[key]
MutTargets(rs) == {key \in DictKeys : \E r \in ToSet(rules) : Targeting(r, key)}
Targets(rs) == {key \in DictKeys : \E r \in ToSet(rs) : Targeting(r, key)}

\* Whether a step on the way to a place is a key of the default list.
IsSensitive(step) == step \in DictKeys /\ Lower[step] \in Sensitive

\* value == original.get(key, value)
Same(T, original, place) ==
  place \in DOMAIN original =>
    \A p \in DOMAIN T \cup DOMAIN original : IsPrefix(place, p) =>
      p \in DOMAIN T /\ p \in DOMAIN original /\ T[p] = original[p]

\* _apply_default_sensitive_key_redaction replaces the value of a key.  It goes
\* no further than maxDepth levels nor below a sensitive key or a text; a key
\* that a rule targets anywhere, and a value that a rule has changed, if only to
\* the text of a number, are left to the rules.
Redacts(T, original, targets, place) ==
  LET n == Len(place) IN
  /\ n \in 1..maxDepth
  /\ place[n] \in DictKeys
  /\ \A i \in 1..n - 1 : ~IsSensitive(place[i]) /\ T[Upto(place, i)] # Masked
  /\ IF IsSensitive(place[n])
     THEN place[n] \notin targets /\ Same(T, original, place)
     ELSE T[place] = "secret"

RedactDefaults(T, original, targets) ==
  [p \in {p \in DOMAIN T : \A j \in 1..Len(p) - 1 : ~Redacts(T, original, targets, Upto(p, j))} |->
     IF Redacts(T, original, targets, p) THEN Masked ELSE T[p]]

\* The default redaction of TypeScript looks at the keys at the top only.
MutRedactTop(T, targets) ==
  [p \in {p \in DOMAIN T : Len(p) > 1 => ~IsSensitive(p[1])} |->
     IF Len(p) = 1 /\ IsSensitive(p[1]) /\ p[1] \notin targets THEN Masked ELSE T[p]]
RedactTop(T, targets) ==
  LET Tops == {key \in DictKeys : IsSensitive(key)} \ targets IN
  [p \in {p \in DOMAIN T : Len(p) > 1 => p[1] \notin Tops} |->
     IF Len(p) = 1 /\ p[1] \in Tops THEN Masked ELSE T[p]]

\* What the default redaction of the language makes of it.
Defaulted ==
  IF lang = "python" THEN RedactDefaults(cleaned, payload, Targets(used))
                     ELSE RedactTop(cleaned, Targets(used))

PiiInit ==
  /\ lang \in {"python", "typescript"} /\ maxDepth \in Depths
  /\ rules \in RuleLists
  /\ payload = Empty /\ cleaned = Empty
  /\ used = <<>> /\ next = 1 /\ phase = "idle"
-----------------------------------------------------------------------------
\* register_pii_rule and replace_pii_rules.
MayChangeRules == lang = "typescript" => phase # "busy"

Register(r) ==
  /\ MayChangeRules
  /\ Len(rules) < MaxRules
  /\ rules' = Append(rules, r)
  /\ UNCHANGED <<lang, maxDepth, payload, used, next, cleaned, phase>>

Replace(rs) ==
  /\ MayChangeRules
  /\ rules' = rs
  /\ UNCHANGED <<lang, maxDepth, payload, used, next, cleaned, phase>>

\* sanitize_payload takes the rules at its start.
Begin(p) ==
  /\ phase = "idle"
  /\ payload' = p /\ cleaned' = p
  /\ used' = rules /\ next' = 1 /\ phase' = "busy"
  /\ UNCHANGED <<lang, maxDepth, rules>>

ApplyNext ==
  /\ phase = "busy" /\ next <= Len(used)
  /\ \E told \in SUBSET Tellable(used[next], cleaned) :
       cleaned' = ApplyRule(used[next], cleaned, told)
  /\ next' = next + 1
  /\ UNCHANGED <<lang, maxDepth, rules, payload, used, phase>>

Finish ==
  /\ phase = "busy" /\ next > Len(used)
  /\ cleaned' = Defaulted
  /\ phase' = "done"
  /\ UNCHANGED <<lang, maxDepth, rules, payload, used, next>>

\* The caller takes the result.
Return ==
  /\ phase = "done"
  /\ phase' = "idle" /\ payload' = Empty /\ cleaned' = Empty
  /\ used' = <<>> /\ next' = 1
  /\ UNCHANGED <<lang, maxDepth, rules>>

PiiNext ==
  \/ \E rs \in RuleLists : Replace(rs)
  \/ \E r \in NewRules : Register(r)
  \/ \E p \in Payloads : Begin(p)
  \/ ApplyNext \/ Finish \/ Return

PiiSpec == PiiInit /\ [][PiiNext]_piiVars
-----------------------------------------------------------------------------
\* Truncation spares a leaf whose text is short.  A rule takes what is at a
\* place when it is for a value on the way and does not spare the leaf; it
\* changes it even then, when the leaf is a number.
Spares(r, place, j) == r.mode = "truncate" /\ j = Len(place) /\ payload[place] \in Brief
Takes(r, place) ==
  \E j \in 1..Len(place) : For(r, Upto(place, j)) /\ ~Spares(r, place, j)
Changes(r, place) ==
  \E j \in 1..Len(place) :
    For(r, Upto(place, j)) /\ ~(Spares(r, place, j) /\ payload[place] = "short")
Taken(place)   == \E i \in DOMAIN used : Takes(used[i], place)
Changed(place) == \E i \in DOMAIN used : Changes(used[i], place)

\* A rule hides what is at a place for certain, unless an earlier rule has made
\* a text of a container around the value it is for: then it does not find it.
Truncated(i, place, j) == used[i].mode = "truncate" /\ For(used[i], Upto(place, j))
Hides(i, place) ==
  \E j \in 1..Len(place) :
    /\ For(used[i], Upto(place, j))
    /\ \/ used[i].mode # "truncate"
       \/ payload[place] = "secret"
       \/ lang = "typescript" /\ \E l \in j + 1..Len(place) : place[l] \in DictKeys
    /\ \A k \in 1..i - 1, l \in 1..j - 1 : ~Truncated(k, place, l)
Hidden(place) == \E i \in DOMAIN used : Hides(i, place)

\* Rules left everything at and under a place alone.
Untouched(place) ==
  \A p \in DOMAIN payload : IsPrefix(place, p) => ~Changed(p)

\* The default redaction hides a place.  The first sensitive key on the way
\* decides for all below it.
Steps(place) == {j \in 1..Len(place) : IsSensitive(place[j])}
Targeted(key) == \E i \in DOMAIN used : Targeting(used[i], key)
ByDefault(place) ==
  IF lang = "typescript"
  THEN IsSensitive(place[1]) /\ ~Targeted(place[1])
  ELSE \/ \E j \in Steps(place) :
            /\ j <= maxDepth /\ \A i \in Steps(place) : j <= i
            /\ ~Targeted(place[j])
            /\ Untouched(Upto(place, j))
       \/ /\ Steps(place) = {} /\ Len(place) <= maxDepth
          /\ place[Len(place)] \in DictKeys /\ payload[place] = "secret"

Readable(place) ==
  place \in DOMAIN cleaned /\ cleaned[place] \in {payload[place], AsText(payload[place])}

\* What is readable in the result, as it was or in a text, is what the rules
\* the call began with and the default redaction, read as declarations about
\* places, leave readable; only of the values in a container that is truncated
\* the declarations do not say whether its text tells them.  Whatever rules are
\* installed meanwhile.
ReadableAsDeclared ==
  phase = "done" =>
    \A place \in DOMAIN payload :
      payload[place] \in Raw =>
        /\ Hidden(place) \/ ByDefault(place) => ~Readable(place)
        /\ ~Taken(place) /\ ~ByDefault(place) => Readable(place)
=============================================================================
