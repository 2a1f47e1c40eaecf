--------------------------- MODULE MCTaskScheduler ---------------------------
EXTENDS TaskScheduler, TLC

CONSTANTS a, b, c, w, r1, r2

MCNodes == {a, b, c}
MCDependsOn == (a :> {}) @@ (b :> {a}) @@ (c :> {})
MCSequence == (a :> 1) @@ (b :> 2) @@ (c :> 3)
MCLineage == (a :> NoWorkspace) @@ (b :> NoWorkspace) @@ (c :> w)
MCMaxAttempts == (a :> 2) @@ (b :> 1) @@ (c :> 2)
MCRetryMax == (a :> 1) @@ (b :> 1) @@ (c :> 2)
MCCounters == {"attempts", "units"}
MCGraphBudget == ("attempts" :> 4) @@ ("units" :> 3)
MCReservation == [n \in MCNodes |-> ("attempts" :> 1) @@ ("units" :> 1)]

\* One node that is retried automatically, for the temporal property.
MCOneNode == {c}
MCOneDependsOn == c :> {}
MCOneSequence == c :> 1
MCOneLineage == c :> w
MCOneMaxAttempts == c :> 2
MCOneReservation == c :> (("attempts" :> 1) @@ ("units" :> 1))

MCSymmetry == Permutations({r1, r2})
=============================================================================
