----------------------------- MODULE MCFileSync -----------------------------
(* Contents "a", "ab" and "xy": "ab" grew out of "a", "xy" is as long as   *)
(* "ab".                                                                   *)
EXTENDS FileSync

MCSize == [c \in Contents |-> IF c = "a" THEN 1 ELSE 2]
MCEncSize == [c \in Contents |-> MCSize[c] + 10]
MCPrefixes == [c \in Contents |-> IF c = "ab" THEN {"a"} ELSE {}]
=============================================================================
