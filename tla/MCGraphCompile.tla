--------------------------- MODULE MCGraphCompile ---------------------------
(* Documents small enough to enumerate: see README.md, run graph. *)
EXTENDS GraphCompile, FiniteSetsExt

In(name, type, required) == [name |-> name, type |-> type, required |-> required]
MCScalars == {"Num"}
MCCompatibleWith == [t \in {"Num", "Tab", "Spec"} |-> IF t = "Tab" THEN {"Spec"} ELSE {}]
MCRegistry ==
  "read" :> [inputs |-> <<>>, outputs |-> [o |-> "Tab"], params |-> <<>>]
  @@ "scale" :> [inputs |-> <<In("w", "Any", FALSE), In("i", "Spec", TRUE)>>,
                 outputs |-> [o |-> "Spec"],
                 params |-> [k |-> [required |-> FALSE, link_type |-> "Json"]]]
  @@ "count" :> [inputs |-> <<In("i", "Any", TRUE)>>, outputs |-> [o |-> "Num"],
                 params |-> [k |-> [required |-> TRUE, link_type |-> "Json"]]]
  @@ "mix" :> [inputs |-> <<In("i", "Any", FALSE), In("w", "Any", FALSE)>>,
               outputs |-> [o |-> "Spec"], params |-> <<>>]

Node(type, params, linked, disabled) ==
  [type |-> type, params |-> params, linked |-> linked, disabled |-> disabled]
Plain(type) == Node(type, <<>>, {}, FALSE)
Off(type) == Node(type, <<>>, {}, TRUE)
Edge(src, out, dst, in) == [src |-> src, src_port |-> out, dst |-> dst, dst_port |-> in]
Port(n, p) == [node |-> n, port |-> p]
Ref(n, p) == [node |-> n, param |-> p]

\* "add": one node; "outer": an instance of it and a disabled node behind it;
\* "loop": an instance of itself; "gone" is not defined.
MCSubgraphs ==
  "add" :> [nodes |-> [x |-> Plain("scale")], edges |-> <<>>,
            inputs |-> [p |-> Port("x", "i"), v |-> Port("x", "w")],
            outputs |-> [q |-> Port("x", "o")],
            promoted |-> ("x.k" :> Ref("x", "k") @@ "y.k" :> Ref("y", "k"))]
  @@ "outer" :> [nodes |-> [s |-> Plain("add"), d |-> Off("scale")],
                 edges |-> [e1 |-> Edge("s", "q", "d", "i")],
                 inputs |-> [p |-> Port("s", "p")], outputs |-> [q |-> Port("d", "o")],
                 promoted |-> ("s.x.k" :> Ref("s", "x.k"))]
  @@ "loop" :> [nodes |-> [s |-> Plain("loop"), x |-> Plain("mix")],
                edges |-> [e1 |-> Edge("x", "o", "s", "p"), e2 |-> Edge("s", "r", "x", "w")],
                inputs |-> [p |-> Port("s", "p")],
                outputs |-> [q |-> Port("x", "o"), r |-> Port("s", "r")],
                promoted |-> <<>>]
MCSubgraphTypes == {"add", "outer", "loop", "gone"}

AtMost(n, S) == UNION {kSubset(k, S) : k \in 0..n}
Documents3(A, B, C, E, n) ==
  {[nodes |-> [a |-> x[1], b |-> x[2], c |-> x[3]], edges |-> [e \in es |-> e]] :
     x \in A \X B \X C, es \in AtMost(n, E)}

\* Every way to wire three nodes with two inputs each by three edges.
Cyclic == LET N == {Plain("mix"), Off("mix")} IN
  Documents3(N, N, {Plain("mix")}, {Edge(m, "o", n, p) : m, n \in {"a", "b", "c"}, p \in {"i", "w"}}, 3)

\* Every fault a node or an edge can have, along a -> b -> c and a -> c.
Faulty == LET N == {Plain("read"), Plain("scale"), Off("scale"), Plain("count"), Plain("old"),
                    Node("scale", <<>>, {"k"}, FALSE), Node("count", [k |-> "v"], {}, FALSE),
                    Node("scale", [k |-> "bad"], {}, FALSE), Node("read", [k |-> "v"], {}, FALSE)}
          IN  Documents3({Plain("read"), Off("read"), Node("count", <<>>, {"k"}, TRUE),
                          Node("mix", <<>>, {}, FALSE)}, N, N,
                {Edge("a", "o", "b", "i"), Edge("a", "o", "b", "k"), Edge("b", "o", "c", "i"),
                 Edge("b", "z", "c", "i"), Edge("a", "o", "c", "k"), Edge("a", "o", "z", "i")}, 3)

\* Instances feeding each other, with boundary ports and refs that exist or not.
Nested ==
  LET M == {Plain(t) : t \in {"add", "outer", "mix"}}
           \cup {Node("add", <<>>, {"x.k"}, FALSE), Node("add", <<>>, {"y.k"}, FALSE)}
      N == M \cup {Plain("loop"), Plain("gone"), Off("add"),
                   Node("add", [v \in {"x.k"} |-> "v"], {}, FALSE),
                   Node("outer", <<>>, {"s.x.k"}, FALSE),
                   Node("outer", [v \in {"s.x.k"} |-> "bad"], {}, FALSE)}
  IN  Documents3({Plain("read"), Node("count", [k |-> "v"], {}, FALSE)}, N, M,
        {Edge("a", "o", "b", "p"), Edge("a", "o", "b", "x.k"), Edge("a", "o", "b", "s.x.k"),
         Edge("b", "q", "c", "p"), Edge("b", "q", "c", "v"), Edge("b", "z", "c", "v"),
         Edge("b", "r", "c", "i")}, 3)

MCDocuments == <<Cyclic, Faulty, Nested>>
MCQuarantines == {{}, {<<"c">>, <<"b", "x">>}}

Letter == [l \in {"a", "b", "c", "d", "s", "x", "y"} |->
             CHOOSE k \in 1..7 : l = <<"a", "b", "c", "d", "s", "x", "y">>[k]]
MCRank(id) == LET At(k) == IF k <= Len(id) THEN Letter[id[k]] ELSE 0
              IN  512 * At(1) + 64 * At(2) + 8 * At(3) + At(4)
=============================================================================
