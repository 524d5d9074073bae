------------------------ MODULE MCCompositeResolution ------------------------
(* Model values and small repositories for TLC. *)
EXTENDS CompositeResolution, TLC

MCDir == 1 .. 3

Local(d)    == [kind |-> "local", dir |-> d]
Opaque(k)   == [kind |-> k, dir |-> 1]
Action(s)   == [lookup |-> "found", yml |-> "regular", yaml |-> "absent",
                parse |-> "composite", steps |-> s]
Missing     == [Action(<<>>) EXCEPT !.lookup = "not_exist"]
Outside     == [Action(<<>>) EXCEPT !.lookup = "error"]
Ambiguous   == [Action(<<>>) EXCEPT !.yaml = "regular"]
Unsafe      == [Action(<<>>) EXCEPT !.yaml = "unsafe"]
Empty       == [Action(<<>>) EXCEPT !.yml = "absent"]
Malformed   == [Action(<<>>) EXCEPT !.parse = "malformed"]
JavaScript  == [Action(<<>>) EXCEPT !.parse = "other"]
Leaf        == Action(<<>>)
Mixed       == Action(<<Opaque("none"), Opaque("docker"), Opaque("expression"),
                        Opaque("rejected"), Opaque("external"), Local(2)>>)
To(d)       == Action(<<Local(d)>>)
Both(d, e)  == Action(<<Local(d), Local(e)>>)

Layout(a, b, c) == (1 :> a) @@ (2 :> b) @@ (3 :> c)

MCLayouts ==
  { Layout(To(2), To(3), To(1)),                  \* a cycle
    Layout(To(1), To(1), To(3)),                  \* self references
    Layout(Both(2, 3), To(3), Leaf),              \* a shared child
    Layout(Both(2, 3), Both(3, 1), Both(1, 2)),   \* every edge
    Layout(Both(3, 2), To(3), Malformed),         \* a broken shared child
    Layout(Both(3, 2), Both(3, 3), JavaScript),
    Layout(Mixed, To(3), Ambiguous),
    Layout(Mixed, Both(3, 1), Unsafe),
    Layout(To(3), To(3), Outside),
    Layout(Both(2, 3), Missing, Empty) }

\* What another program may write over a directory.
Rewrites   == {Missing, Malformed, Leaf, To(2), Both(3, 1)}
MCContents == Rewrites \cup {l[d] : l \in MCLayouts, d \in MCDir}
=============================================================================
