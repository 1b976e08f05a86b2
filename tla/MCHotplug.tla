----------------------------- MODULE MCHotplug -----------------------------
(***************************************************************************)
(* Instances of Hotplug, with Bandwidth and TickRemote, for TLC.           *)
(***************************************************************************)
EXTENDS Hotplug, TLC

CONSTANTS root, ga, gb, c1, c2, w1, w2

\* A chain of three groups.
TheParent == ga :> root @@ gb :> ga
TheAbove == root :> {} @@ ga :> {root} @@ gb :> {root, ga}
TheWalk == <<root, ga, gb>>

TheFiles == {<<w1, root>>, <<w1, ga>>, <<w1, gb>>, <<w2, gb>>}
TheThrottles == {<<gb, c2>>}

\* 2 is accepted, 1 and 16 are out of bounds; so are the periods 1 and 5, and 66 is the
\* period 2 to a file that lets it wrap.
TheQuotas == {-1, 1, 2, 16}

\* A node per CPU.
TheNode == c1 :> 1 @@ c2 :> 2

\* Bound: a behaviour is about writers of quotas, and the task only wakes and sleeps, or
\* about the task and its masks, and nobody writes.
VARIABLE about

MCInit == HotplugInit /\ about \in {"quotas", "task"}

\* Bound: the first writer writes no periods, and nothing on the default hierarchy.
FewWrites ==
    /\ arg'[w1].value.period = default_period
    /\ dfl => arg'[w1] = arg[w1]

MCNext ==
    /\ HotplugNext
    /\ about = "quotas" => FewWrites /\ cpus_mask' = cpus_mask /\ search' = search
    /\ about = "task" => pc' = pc
    /\ about' = about

MCSpec == MCInit /\ [][MCNext]_<<hpvars, about>> /\ HotplugFairness
=============================================================================
