------------------------------ MODULE Upgrade ------------------------------
(***************************************************************************)
(* Version upgrade of one Jaeger instance (pkg/upgrade).                   *)
(*                                                                         *)
(* A version is a natural number: its position in the semver order.  0 is  *)
(* the empty Status.Version of an instance no operator has processed yet.  *)
(* The spec of an instance is abstracted to how often each upgrade routine *)
(* has rewritten it: 0 (the old format), 1 (the format of that version),   *)
(* 2 (a routine ran again on a spec it had already rewritten; saturates).  *)
(***************************************************************************)
EXTENDS Integers

CONSTANTS
    MaxVersion,    \* the newest Jaeger version an operator binary carries
    StartUpdates,  \* 1.11.0, the oldest version an upgrade starts from
    Steps          \* the versions that have an upgrade routine

ASSUME UpgradeAssumption ==
    /\ MaxVersion \in Nat \ {0}
    /\ StartUpdates \in 1..MaxVersion
    /\ Steps \subseteq 1..MaxVersion

Versions == 1..MaxVersion
Migrations == [Steps -> 0..2]

(* The spec of an instance written for version v: every routine up to v    *)
(* has nothing left to do on it.                                           *)
FormatOf(v) == [s \in Steps |-> IF s <= v THEN 1 ELSE 0]

(* The routines that ManagedInstance runs, in the order of semanticVersions*)
(* (the order does not matter to the abstraction: each rewrites its own    *)
(* flags).                                                                 *)
StepsBetween(current, latest) == {s \in Steps : current < s /\ s <= latest}

(* One pass of the routines over a spec.                                   *)
RunUpgrades(mig, todo) ==
    [s \in Steps |-> IF s \in todo /\ mig[s] < 2 THEN mig[s] + 1 ELSE mig[s]]

(* Mutant of ManagedInstance: the version is recorded but the last routine *)
(* is missed (LessThan without Equal).                                     *)
ManagedInstanceSkipsLast(version, mig, latest) ==
    IF version < StartUpdates \/ version > latest
    THEN [ver |-> version, mig |-> mig]
    ELSE [ver |-> latest,
          mig |-> RunUpgrades(mig, StepsBetween(version, latest - 1))]

(* ManagedInstance: an instance older than 1.11.0 or newer than the        *)
(* operator is returned as it is; otherwise every routine after its        *)
(* version, up to the operator's, runs and the version becomes latest.     *)
ManagedInstance(version, mig, latest) ==
    IF version < StartUpdates \/ version > latest
    THEN [ver |-> version, mig |-> mig]
    ELSE [ver |-> latest,
          mig |-> RunUpgrades(mig, StepsBetween(version, latest))]

(* applyUpgrades of the reconciler: a new instance (empty version) is not  *)
(* upgraded; whatever ManagedInstance decided, the version recorded is the *)
(* operator's own.                                                         *)
ApplyUpgrades(version, mig, latest) ==
    [ver |-> latest,
     mig |-> IF version # 0 /\ version # latest
             THEN ManagedInstance(version, mig, latest).mig
             ELSE mig]
=============================================================================
