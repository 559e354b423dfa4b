--------------------------- MODULE MCBuildPipeline ---------------------------
(* BuildPipeline with a tree of one directory and one file in it.                *)
EXTENDS BuildPipeline

CONSTANTS d, x, r

TheAbove == [k \in {x} |-> d]

Layer(there_d, there_x, hide, opaque) ==
  [put |-> [p \in {d, x} |-> IF p = d THEN there_d ELSE there_x], hide |-> hide, opaque |-> opaque,
   outer |-> FALSE]

\* A first layer holds the directory with its file, or the directory, or neither.
TheBases == {Layer("dir", "file", {}, {}), Layer("dir", "none", {}, {}), Layer("none", "none", {}, {})}

\* The others: all there are with markers strictly below usr/local; and with one of
\* usr/local, or one above it, an empty layer and one that holds a file.
Low  == {l \in Layers : WellFormed(l) /\ ~l.outer /\ Root \notin l.opaque}
High == UNION {{[l EXCEPT !.opaque = {Root}], [l EXCEPT !.outer = TRUE]} :
                 l \in {Layer("none", "none", {}, {}), Layer("dir", "file", {}, {})}}
TheUppers == Low \cup High

=============================================================================
