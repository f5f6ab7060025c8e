--------------------------- MODULE ConfigHandoff ---------------------------
(***************************************************************************)
(* What the config-transition lifecycle promises, without pipes, tasks or  *)
(* request ids: the host's config and the child's either agree, or the     *)
(* host knows that it must replace the child.                              *)
(***************************************************************************)
CONSTANTS Configs, NoConfig

VARIABLES hostCfg,   \* config the next child is started with
          childCfg,  \* config the running child holds, NoConfig before initialize
          asked,     \* config of the transition the host awaits, or NoConfig
          fenced,    \* the host has decided to replace the child
          retired    \* the child has retired its resources

vars == <<hostCfg, childCfg, asked, fenced, retired>>

Init ==
    /\ hostCfg \in Configs
    /\ childCfg = NoConfig
    /\ asked = NoConfig
    /\ fenced = FALSE
    /\ retired = FALSE

Boot ==
    /\ childCfg = NoConfig
    /\ childCfg' = hostCfg
    /\ UNCHANGED <<hostCfg, asked, fenced, retired>>

Ask(config) ==
    /\ asked = NoConfig /\ ~fenced
    /\ asked' = config
    /\ UNCHANGED <<hostCfg, childCfg, fenced, retired>>

\* The child acts on the transition the host awaits, or on one it gave up on.
ChildApplies ==
    /\ ~retired
    /\ asked # NoConfig \/ fenced
    /\ childCfg' \in (IF fenced THEN Configs ELSE {asked})
    /\ UNCHANGED <<hostCfg, asked, fenced, retired>>

ChildRetires ==
    /\ asked # NoConfig \/ fenced
    /\ retired' = TRUE
    /\ UNCHANGED <<hostCfg, childCfg, asked, fenced>>

HostAccepts ==
    /\ asked # NoConfig /\ ~fenced /\ ~retired /\ childCfg = asked
    /\ hostCfg' = asked
    /\ asked' = NoConfig
    /\ UNCHANGED <<childCfg, fenced, retired>>

HostKeeps ==
    /\ asked # NoConfig /\ ~fenced /\ ~retired /\ childCfg = hostCfg
    /\ asked' = NoConfig
    /\ UNCHANGED <<hostCfg, childCfg, fenced, retired>>

HostFences ==
    /\ ~fenced
    /\ fenced' = TRUE
    /\ hostCfg' \in (IF asked = NoConfig THEN Configs ELSE {asked})
    /\ asked' = NoConfig
    /\ UNCHANGED <<childCfg, retired>>

Next ==
    \/ Boot \/ (\E config \in Configs : Ask(config))
    \/ ChildApplies \/ ChildRetires
    \/ HostAccepts \/ HostKeeps \/ HostFences

Spec == Init /\ [][Next]_vars

(***************************************************************************)
(* While the host neither awaits a transition nor intends to replace the   *)
(* child, the child is usable and holds exactly the host's config.         *)
(***************************************************************************)
Agreement ==
    ~fenced /\ asked = NoConfig => ~retired /\ childCfg \in {NoConfig, hostCfg}
=============================================================================
