---- MODULE Config ----
(***************************************************************************)
(* The configuration of the program as far as its start depends on it      *)
(* (pkg/config): the defaults, and what the environment makes of them.     *)
(* The other settings are loaded in the same way.                          *)
(***************************************************************************)
EXTENDS Integers

CONSTANTS
    Unset,       \* a variable that is not set, or empty
    Malformed    \* a value that Atoi, or ParseBool, refuses

GetDefaultConfig ==
    [ContainerRuntime |-> "auto", CgroupVersion |-> "auto", KubeConfigPath |-> Unset,
     SmartLimitEnabled |-> FALSE, SmartLimitUseKubeletAPI |-> TRUE, SmartLimitMonitorInterval |-> 60]

Config ==
    [ContainerRuntime: {"auto", "docker", "containerd", "none"}, CgroupVersion: {"auto", "v1", "v2"},
     KubeConfigPath: {Unset, "valid", "broken"},
     SmartLimitEnabled: BOOLEAN, SmartLimitUseKubeletAPI: BOOLEAN, SmartLimitMonitorInterval: Int]

\* Faulty: takes a value as it is.
LoadFromEnv_Raw(config, env) ==
    [s \in DOMAIN config |-> IF env[s] = Unset THEN config[s] ELSE env[s]]

\* A value that cannot be parsed counts as not set.
LoadFromEnv(config, env) ==
    [s \in DOMAIN config |-> IF env[s] \in {Unset, Malformed} THEN config[s] ELSE env[s]]
====
