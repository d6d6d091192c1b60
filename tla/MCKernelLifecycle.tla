------------------------- MODULE MCKernelLifecycle -------------------------
(* Instances of KernelLifecycle for TLC: a ContextContributor, a model       *)
(* Adapter and two Skills, one of which can be replaced; two concurrent      *)
(* calls on one Session id.                                                  *)
EXTENDS KernelLifecycle, TLC

CONSTANTS c, m, s, t,           \* ids
          c1, m1, s1, t1, t2    \* registration objects

MCIds == {c, m, s, t}
MCRegs == {c1, m1, s1, t1, t2}
MCHolders == Objects \X MCIds
MCCapabilities == <<m, s, t>>
MCProvides == (c1 :> c) @@ (m1 :> m) @@ (s1 :> s) @@ (t1 :> t) @@ (t2 :> t)
MCPlugins == <<c1, m1, s1, t1>>
=============================================================================
