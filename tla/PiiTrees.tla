------------------------------ MODULE PiiTrees ------------------------------
(***************************************************************************)
(* The walks of the PII engines, _apply_rule, _applyRuleFull and           *)
(* _apply_default_sensitive_key_redaction, on trees as the engines have    *)
(* them: the node of a dict has its children by key, that of a list by     *)
(* item, a leaf has a value, and what can be read in it, when it is the    *)
(* text of a container, by place.  What Pii says of the places in a tree   *)
(* is what the walks make of it.                                           *)
(***************************************************************************)
EXTENDS Pii

Text(t, tells) == [text |-> t, tells |-> tells]
Leaf(t) == Text(t, {})
Dict(f) == [dict |-> f]
List(s) == [list |-> s]
IsLeaf(n) == "text" \in DOMAIN n
IsDict(n) == "dict" \in DOMAIN n
IsList(n) == "list" \in DOMAIN n

\* The tree whose places are those of T that are at or below a place.
Values(T, place) ==
  {[place |-> p, value |-> T[p]] :
     p \in {p \in DOMAIN T : /\ IsStrictPrefix(place, p)
                             /\ T[p] \in Brief \cup {"digits"}}}
RECURSIVE TreeAt(_, _)
TreeAt(T, place) ==
  LET Below(steps) == {s \in steps : Append(place, s) \in DOMAIN T}
      Children(steps) == [s \in Below(steps) |-> TreeAt(T, Append(place, s))]
  IN  CASE T[place] = "dict" -> Dict(Children(DictKeys))
        [] T[place] = "list" -> List(Children(ListItems))
        [] OTHER -> Text(T[place], Values(T, place))
Tree(T) == TreeAt(T, <<>>)

\* str: what there is to read in a node, and what is told of it.
RECURSIVE Contents(_, _)
Contents(n, place) ==
  CASE IsDict(n) -> UNION {Contents(n.dict[k], Append(place, k)) : k \in DOMAIN n.dict}
    [] IsList(n) -> UNION {Contents(n.list[i], Append(place, i)) : i \in DOMAIN n.list}
    [] n.text = Masked -> n.tells
    [] OTHER -> {[place |-> place, value |-> n.text]}

MaskNode(mode, n, place, told) ==
  CASE mode \in {"redact", "hash"} -> Leaf(Masked)
    [] IsLeaf(n) /\ n.text # Masked -> Leaf(Mask(mode, n.text))
    [] OTHER -> Text(Masked, {c \in Contents(n, place) : c.place \in told})

\* _apply_rule, on a node at a place.
RECURSIVE WalkRule(_, _, _, _)
WalkRule(r, n, place, told) ==
  LET Hit(k) == Matches(r.path, Append(place, k))
      Walk(child, k) == WalkRule(r, child, Append(place, k), told) IN
  CASE IsDict(n) ->
         Dict([k \in {k \in DOMAIN n.dict : Hit(k) => r.mode # "drop"} |->
                 IF Hit(k) THEN MaskNode(r.mode, n.dict[k], Append(place, k), told)
                 ELSE Walk(n.dict[k], k)])
    [] IsList(n) -> List([i \in DOMAIN n.list |-> Walk(n.list[i], i)])
    [] OTHER -> n

\* _apply_default_sensitive_key_redaction: a text like a secret is found where
\* it is the value of a key.
RECURSIVE WalkDefaults(_, _, _, _)
WalkDefaults(n, original, targets, depth) ==
  IF depth >= maxDepth THEN n
  ELSE IF IsDict(n) /\ IsDict(original) THEN
    Dict([k \in DOMAIN n.dict |->
            LET value == n.dict[k]
                was   == IF k \in DOMAIN original.dict THEN original.dict[k] ELSE value
            IN  CASE Lower[k] \in Sensitive ->
                       IF k \in targets \/ value # was THEN value ELSE Leaf(Masked)
                  [] value = Leaf("secret") -> Leaf(Masked)
                  [] OTHER -> WalkDefaults(value, was, targets, depth + 1)])
  ELSE IF IsList(n) /\ IsList(original) THEN
    List([i \in DOMAIN n.list |->
            WalkDefaults(n.list[i], original.list[i], targets, depth + 1)])
  ELSE n

\* The default fields of sanitizePayload, in TypeScript: keys, and the last
\* segments of paths, in lower case.
WalkTop(n, rs) ==
  LET segments    == {Last(r.path) : r \in ToSet(rs)}
      ruleTargets == {Lower[s] : s \in segments \cap DictKeys} IN
  Dict([k \in DOMAIN n.dict |->
          IF Lower[k] \in Sensitive \ ruleTargets THEN Leaf(Masked) ELSE n.dict[k]])

\* Each step of a call does to the places what the walk does to the tree.
WalksAgree ==
  phase = "busy" =>
    LET n == Tree(cleaned) IN
    IF next <= Len(used)
    THEN \A told \in SUBSET Tellable(used[next], cleaned) :
           Tree(ApplyRule(used[next], cleaned, told)) = WalkRule(used[next], n, <<>>, told)
    ELSE Tree(Defaulted) =
           IF lang = "python" THEN WalkDefaults(n, Tree(payload), Targets(used), 0)
                              ELSE WalkTop(n, used)
=============================================================================
