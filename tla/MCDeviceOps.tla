----------------------------- MODULE MCDeviceOps -----------------------------
(* Requests for DeviceOps. *)
EXTENDS DeviceOps, TLC

LockOps == {[name |-> "lock", lte |-> l, nr |-> n] :
               l \in {"none", "some", "all"}, n \in {"none", "some", "all"}}

ConnectOps == {[name |-> "connect", apn |-> a] : a \in BOOLEAN}

Ops(names) == {[name |-> n] : n \in names}

\* All operations.
AllOps == LockOps \cup ConnectOps \cup Ops(DOMAIN Questions)
              \cup Ops({"slot", "pref", "isp", "sysinfo", "getlock"})

\* The operations that switch the radio off, and one that does not.
RadioOps == Ops({"pref", "gmi"})
              \cup {o \in LockOps : o.lte = "none" /\ o.nr = "some"}

Perms == Permutations(Workers)
=============================================================================
