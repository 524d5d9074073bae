----------------------------- MODULE MCInputFlow -----------------------------
(***************************************************************************)
(* Small programs for TLC.                                                 *)
(***************************************************************************)
EXTENDS InputFlow, TLC

MCDir  == 1 .. 3
MCName == 1 .. 2

Whole(n)   == [dynamic |-> FALSE, refs |-> {n}, whole |-> n]
Partial(n) == [Whole(n) EXCEPT !.whole = NoName]
Several    == [dynamic |-> FALSE, refs |-> MCName, whole |-> NoName]
Literal    == [Several EXCEPT !.refs = {}]
Dynamic    == [Literal EXCEPT !.dynamic = TRUE]

Bind(n, v)   == [name |-> n, value |-> v]
Use(d, with) == [call |-> d, with |-> with,
                 reads |-> UNION {with[i].value.refs : i \in 1 .. Len(with)}]
Reading(s, S) == [s EXCEPT !.reads = @ \cup S]
Act(in, dem, steps) == [inputs |-> in, demanded |-> dem, steps |-> steps]
Reader       == Reading(Use(NoCall, <<>>), {1})

Values == {Whole(1), Whole(2), Partial(1), Several, Dynamic}

\* Root step, then a call in each of the first two actions that varies.
MCPrograms ==
  { [steps |-> << Use(1, <<Bind(1, Whole(1)), Bind(2, r)>>), Use(c, <<Bind(1, v)>>),
                  Use(NoCall, <<>>) >>,
     actions |-> (1 :> Act({1, 2}, {}, << Use(2, <<Bind(1, v), Bind(2, Whole(1))>>),
                                         Reading(Use(3, <<Bind(1, w)>>), {1}) >>))
              @@ (2 :> Act({1, 2}, {2}, <<Reading(Use(c, <<Bind(2, w)>>), {1, 2}), Reader>>))
              @@ (3 :> Act({1}, {1}, <<Reader, Use(2, <<Bind(1, Whole(1))>>)>>)) ]
    : r \in {Whole(2), Literal, Partial(1)}, v \in Values, w \in Values, c \in MCDir }

(***************************************************************************)
(* The linkers end on actions that call one another in a cycle.            *)
(***************************************************************************)
LinkEnds == <>(pc \in {"done", "cancelled"})
=============================================================================
