--------------------------- MODULE MCOutputCache ---------------------------
(* Instances of OutputCache small enough for TLC. *)
EXTENDS OutputCache

\* A node feeding a process node with two outputs, a process node that produces one of
\* these contents too, a value that cannot be written to disk, and a node without
\* outputs.
WholeKeys == {"src", "fit", "twin", "any", "none"}
WholeContent == ("src" :> ("x" :> "d1")) @@ ("fit" :> ("x" :> "d2" @@ "y" :> "d3"))
                @@ ("twin" :> ("x" :> "d2")) @@ ("any" :> ("x" :> "d3")) @@ ("none" :> <<>>)
WholeAny == [k \in WholeKeys |-> IF k = "any" THEN {"x"} ELSE {}]
WholeNeeds == [k \in WholeKeys |-> IF k = "fit" THEN {"src"} ELSE {}]
WholeWeight == ("src" :> 2) @@ ("any" :> 3) @@ [k \in WholeKeys |-> 1]

=============================================================================
