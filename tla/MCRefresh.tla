----------------------------- MODULE MCRefresh -----------------------------
(* A remote root with one subfolder and a file in each.                    *)
EXTENDS Refresh

MCDirs == {"top", "sub"}
MCChildren == [d \in MCDirs |-> IF d = "top" THEN {"sub"} ELSE {}]
MCBelow == [d \in MCDirs |-> IF d = "top" THEN MCDirs ELSE {"sub"}]
MCFiles == {"ft", "fs"}
MCFolderOf == [f \in MCFiles |-> IF f = "ft" THEN "top" ELSE "sub"]
=============================================================================
