------------------------------ MODULE Settings ------------------------------
(***************************************************************************)
(* validate_container_settings of src/src/target_modules/intent.rs: what   *)
(* TargetIntent refuses among one container's settings.  Bytes are model   *)
(* values; where only a grammar is asked of them, the answer is a field.   *)
(***************************************************************************)
EXTENDS Integers, Sequences, Functions

CONSTANTS MaxI64   \* i64::MAX

ASSUME MaxI64Assumption == MaxI64 \in Nat

Unlimited == -1

DefaultSettings ==
  [memory |-> 0, pids |-> 0, shm |-> 0, ulimits |-> <<>>, devices |-> <<>>,
   cap_add |-> <<>>, cap_drop |-> <<>>, security |-> <<>>, sysctls |-> <<>>,
   group_add |-> <<>>, extra_hosts |-> <<>>, log |-> [driver |-> "unset", options |-> <<>>]]

Keys(entries) == [i \in DOMAIN entries |-> entries[i].key]

\* A limit may not promise more than it may ever grow to: an unlimited soft
\* value under a finite hard one, or a soft value above the hard one.
UlimitInvalid(limit) ==
  \/ limit.name # "nofile"
  \/ limit.soft > MaxI64 \/ limit.hard > MaxI64
  \/ limit.soft = Unlimited /\ limit.hard # Unlimited
  \/ /\ limit.soft # Unlimited
     /\ limit.hard # Unlimited
     /\ limit.soft > limit.hard

UlimitsInvalid(limits) ==
  \/ \E i \in DOMAIN limits : UlimitInvalid(limits[i])
  \/ ~IsInjective([i \in DOMAIN limits |-> limits[i].name])

DevicesInvalid(devices) ==
  \/ ~IsInjective([i \in DOMAIN devices |-> devices[i].container_path])
  \/ \E i \in DOMAIN devices : devices[i].permissions = {}

\* Adding and dropping are one list of capabilities, none of them twice.
CapabilitiesInvalid(add, drop) ==
  \/ ~IsInjective(add \o drop)
  \/ ~Range(add) \subseteq {"NET_BIND_SERVICE"}
  \/ ~Range(drop) \subseteq {"SYS_ADMIN"}

SysctlsInvalid(sysctls) ==
  \/ ~IsInjective(Keys(sysctls))
  \/ \E i \in DOMAIN sysctls : ~sysctls[i].reviewed

\* Each supplementary group is one principal (valid_user_principal), never a
\* user:group pair.
GroupsInvalid(groups) ==
  \/ ~IsInjective([i \in DOMAIN groups |-> groups[i].principal])
  \/ \E i \in DOMAIN groups : groups[i].pair

\* Only json-file takes options, and of them only a positive max-size.
LogInvalid(log) ==
  \/ log.driver # "json-file" /\ log.options # <<>>
  \/ ~IsInjective(Keys(log.options))
  \/ \E i \in DOMAIN log.options : log.options[i].key # "max-size" \/ ~log.options[i].sized

SettingsInvalid(s) ==
  \/ s.memory > MaxI64 \/ s.pids > MaxI64 \/ s.shm > MaxI64
  \/ UlimitsInvalid(s.ulimits)
  \/ DevicesInvalid(s.devices)
  \/ CapabilitiesInvalid(s.cap_add, s.cap_drop)
  \/ ~IsInjective(s.security)
  \/ SysctlsInvalid(s.sysctls)
  \/ GroupsInvalid(s.group_add)
  \/ ~IsInjective(s.extra_hosts)
  \/ LogInvalid(s.log)
=============================================================================
