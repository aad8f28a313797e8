------------------------------ MODULE MCKernel ------------------------------
(* Small instances of the kernel for TLC.  Two scopes, "win" and its child   *)
(* "win:tile"; a visible lane and an optional one; tasks told apart only by  *)
(* what the properties of a run look at.                                     *)
EXTENDS KernelProps, TLC

MCScopes == {"win", "win:tile"}
MCAncestors == [c \in MCScopes |-> IF c = "win" THEN {"win"} ELSE MCScopes]

\* A visible materialisation without dependencies, supersession or deadline.
Plain(k) == [key |-> k, lane |-> "visible", priority |-> 10, rank |-> 0, tile |-> 0,
             scope |-> "win:tile", deps |-> {}, family |-> NoFamily, value |-> 0,
             deadline |-> 0, worth |-> 0, reusable |-> FALSE]
Optional(k, w) == [Plain(k) EXCEPT !.lane = "optional", !.priority = 80, !.worth = w]

\* A chain of three rungs: c needs b, b needs a; d needs both and is
\* speculative, in the parent scope.  A dependency may be submitted after its
\* dependents, and again.
ChainA == Plain("a")
ChainB == [Plain("b") EXCEPT !.deps = {"a"}]
ChainC == [Plain("c") EXCEPT !.deps = {"b"}]
ChainD == [Optional("d", 0) EXCEPT !.deps = {"a", "b"}, !.scope = "win"]
ChainSpecs == {ChainA, ChainB, ChainC, ChainD}
ChainWorkload == (1 :> {ChainA, ChainB} @@ 2 :> {ChainA, ChainB, ChainC} @@ 3 :> {ChainA, ChainC, ChainD})

\* One tile's texture: two targets of one family under the same key, the
\* second reusable; the second again under another key and scope; a dependent.
TargetA1 == [Plain("a") EXCEPT !.family = "tex", !.value = 1]
TargetA2 == [Plain("a") EXCEPT !.family = "tex", !.value = 2, !.reusable = TRUE]
TargetB2 == [Plain("b") EXCEPT !.family = "tex", !.value = 2, !.scope = "win"]
TargetD == [Plain("d") EXCEPT !.deps = {"a"}]
TargetSpecs == {TargetA1, TargetA2, TargetB2, TargetD}
TargetWorkload == (1 :> {TargetA1, TargetA2} @@ 2 :> {TargetA2, TargetB2}
                   @@ 3 :> {TargetA1, TargetD})

\* A speculative task with a deadline, on another tile.
LaneQ == [Optional("q", 1) EXCEPT !.deadline = 5, !.tile = 1]
VisibleHints == {"visible"} \X {1, NoQuota}

\* For liveness: every kind of task, without the drops of a dependency that
\* strand its dependents (see DropReachesDependents), and with no lane quota
\* of 0, which parks a lane for good.  The tile's texture has a key of its own,
\* and the handle kept is that of a task nothing depends on.
LiveT1 == [TargetA1 EXCEPT !.key = "t"]
LiveT2 == [TargetA2 EXCEPT !.key = "t"]
LiveSpecs == ChainSpecs \cup {LaneQ, LiveT1, LiveT2}
LiveWorkload == (1 :> {ChainA, LiveT1} @@ 2 :> {ChainB, LaneQ} @@ 3 :> {ChainC, ChainD, LiveT2})
=============================================================================
