-------------------------------- MODULE MCPii --------------------------------
(***************************************************************************)
(* An instance of PiiTrees for TLC: payloads of two levels, with lists at  *)
(* the second, and some of three.                                          *)
(***************************************************************************)
EXTENDS PiiTrees

\* Trees from their parts: a leaf, and a container of trees by key or by item.
ALeaf(t) == [p \in {<<>>} |-> t]
Whole(kind, f) ==
  [p \in {<<>>} \cup UNION {{<<s>> \o q : q \in DOMAIN f[s]} : s \in DOMAIN f} |->
     IF p = <<>> THEN kind ELSE f[p[1]][Tail(p)]]
Dicts(nodes) == {Whole("dict", f) : f \in UNION {[K -> nodes] : K \in {{}, {"token"}, {"Token"}, {"token", "id"}}}}
Containing(s, n, kind) == Whole(kind, [x \in {s} |-> n])

Keys   == {"token", "id"}
TestLower == [k \in DictKeys |-> IF k = "Token" THEN "token" ELSE k]

Leaves == {ALeaf(t) : t \in Raw}
Items  == {Containing("#1", n, "list") : n \in Leaves}
Lists  == Items \cup {Containing("#1", Containing("token", ALeaf(t), "dict"), "list") : t \in Brief}
Inner  == Leaves \cup Dicts(Leaves) \cup Lists
Nested == {Containing(j, Containing(k, n, "dict"), "dict") : j, k \in Keys, n \in Dicts(Leaves)}
Beside(n) == {Whole("dict", [k \in Keys |-> IF k = j THEN n ELSE ALeaf("secret")]) : j \in Keys}
TestPayloads ==
  {Containing(j, n, "dict") : j \in DictKeys, n \in Inner}
    \cup UNION {Beside(n) : n \in Leaves \cup Lists} \cup Nested \cup {Empty}

Rule(p, m) == [path |-> p, mode |-> m]
TestRules ==
  {<<>>,
   <<Rule(<<"token", "id">>, "drop"), Rule(<<"*", "id">>, "hash")>>,
   <<Rule(<<"*">>, "truncate"), Rule(<<"id", "token">>, "hash")>>,
   <<Rule(<<"id", "*", "token">>, "redact"), Rule(<<"*", "*">>, "truncate")>>}
TestNewRules == {Rule(<<"token">>, "truncate"), Rule(<<"id", "*">>, "redact")}
=============================================================================
