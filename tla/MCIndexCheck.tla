---------------------------- MODULE MCIndexCheck ----------------------------
(* Contents "a", "ab" and "xy": "ab" grew out of "a", "xy" is as long as   *)
(* "ab"; "p" is a pointer stub, as short as "a".                           *)
EXTENDS IndexCheck

MCSize == [c \in Contents |-> IF c \in {"a", "p"} THEN 1 ELSE 2]
MCEncSize == [c \in Contents |-> MCSize[c] + 10]
=============================================================================
