------------------------- MODULE FeaturePolicyRules -------------------------
(***************************************************************************)
(* What a feature policy means (apps/worker/src/policy/feature-policy.ts): *)
(* the effective capability and limit of one university under a policy.    *)
(* A policy is reduced to one capability that a limit depends on           *)
(* (crossLookup and bulkMaxTargets): a switch and a limit of the global    *)
(* scope, and an override of each of one university.                       *)
(***************************************************************************)
EXTENDS Integers

CONSTANTS
    None,            \* An absent limit: undefined, or null in the global scope.
    NativeSupport,   \* Whether the adapter implements the capability.
    NativeLimit,     \* The limit of the adapter, a ceiling.
    HardLimit,       \* The ceiling of the deployment (effectiveHardLimits).
    Limit            \* The values administrators write for a limit.

ASSUME RulesAssumption ==
    /\ NativeSupport \in BOOLEAN
    /\ NativeLimit \in Nat
    /\ HardLimit \in Nat
    /\ Limit \subseteq Nat \ {0}
    /\ None \notin Int

(* featurePolicyContentSchema: a university override can only disable, and *)
(* limits are positive.                                                    *)
FeaturePolicyContent ==
    [globalOff: BOOLEAN, universityOff: BOOLEAN,
     globalLimit: Limit \cup {None}, universityLimit: Limit \cup {None}]

emptyPolicy ==
    [globalOff |-> FALSE, universityOff |-> FALSE,
     globalLimit |-> None, universityLimit |-> None]

least(a, b) == IF a <= b THEN a ELSE b

\* The ceiling effectiveUniversity passes to resolveLimit.
ceiling == least(NativeLimit, HardLimit)

resolveCapability(p) == NativeSupport /\ ~p.globalOff /\ ~p.universityOff

configured(p) ==
    IF p.universityLimit # None THEN p.universityLimit ELSE p.globalLimit

\* Mutant: a configured limit is not capped by the ceiling.
resolveLimitUncapped(p) == IF configured(p) = None THEN ceiling ELSE configured(p)

resolveLimit(p) ==
    IF configured(p) = None THEN ceiling ELSE least(configured(p), ceiling)

(* A zero ceiling projects no limit, and a university without a bulk limit *)
(* has no cross look-up.                                                   *)
effectiveUniversity(p) ==
    LET enabled == resolveCapability(p) /\ ceiling # 0 IN
    [enabled |-> enabled, limit |-> IF enabled THEN resolveLimit(p) ELSE None]

=============================================================================
