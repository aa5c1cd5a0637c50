---------------------------- MODULE ShadowSchedule ----------------------------
(***************************************************************************)
(* The height schedule of the Quantum Quasar lifecycle and the amounts and *)
(* targets derived from it (shadow_schedule.cpp, consensus/params.h and    *)
(* the schedule functions of shadow.cpp).                                  *)
(*                                                                         *)
(* Heights are counted from the block of the legacy whitelist snapshot:    *)
(* the snapshot block has height 0, SHADOW_WHITELIST_HEIGHT.  Amounts are  *)
(* in an arbitrary unit; only their order and their halving matter.        *)
(***************************************************************************)
EXTENDS Integers

CONSTANTS
    REWARD_START,       \* SHADOW_REWARD_START_HEIGHT
    PHASE1_END,         \* SHADOW_PHASE1_END_HEIGHT
    REWARD_END,         \* SHADOW_REWARD_END_HEIGHT
    HALVING_INTERVAL,   \* SHADOW_HALVING_INTERVAL_BLOCKS
    LIFECYCLE_START,    \* nQuantumLifecycleStartHeight
    GOLD_RUSH_END,      \* nGoldRushEndHeight
    MIGRATION_END,      \* nQuantumMigrationEndHeight
    COMPETING_CLAIMS_HEIGHT,    \* nShadowCompetingClaimsActivationHeight
    QQP4_HEIGHT,        \* nShadowQQP4ActivationHeight
    PHASE1_REWARD,      \* 580 * COIN
    PHASE2_REWARD,      \* 463 * COIN
    CENT,               \* the cap on one fee reimbursement
    MAX_EMISSION,       \* SHADOW_MAX_EMISSION
    MAX_POW_EVALS,      \* MAX_SHADOW_POW_EVALS_PER_BLOCK
    LATE_ORIGIN_WINDOW, \* SHADOW_POW_LATE_ORIGIN_WINDOW
    SOLVER_ACTIVITY_WINDOW,     \* SHADOW_SOLVER_ACTIVITY_WINDOW
    BASE_BITS,          \* BASE_SHADOW_TARGET_BITS
    MIN_BITS,           \* MIN_SHADOW_TARGET_BITS
    MAX_BITS,           \* MAX_SHADOW_TARGET_BITS
    ASERT_HALF_LIFE     \* SHADOW_POW_ASERT_HALF_LIFE_BLOCKS

(***************************************************************************)
(* The order of the heights: SetShadowTestSchedule places the rewards      *)
(* after the snapshot, chainparams.cpp refuses an activation height        *)
(* outside the reward window, and every lifecycle it configures covers the *)
(* reward window (on mainnet the two coincide).                            *)
(***************************************************************************)
ASSUME ScheduleAssumption ==
    /\ {REWARD_START, PHASE1_END, REWARD_END, LIFECYCLE_START, GOLD_RUSH_END,
        MIGRATION_END, COMPETING_CLAIMS_HEIGHT, QQP4_HEIGHT} \subseteq Nat
    /\ 1 <= REWARD_START
    /\ REWARD_START <= PHASE1_END /\ PHASE1_END <= REWARD_END
    /\ LIFECYCLE_START <= REWARD_START
    /\ REWARD_END <= GOLD_RUSH_END /\ GOLD_RUSH_END < MIGRATION_END
    /\ REWARD_START <= COMPETING_CLAIMS_HEIGHT
    /\ COMPETING_CLAIMS_HEIGHT <= REWARD_END
    /\ COMPETING_CLAIMS_HEIGHT <= QQP4_HEIGHT
    /\ HALVING_INTERVAL \in Nat \ {0}

(***************************************************************************)
(* The amounts.                                                            *)
(***************************************************************************)
ASSUME AmountAssumption ==
    /\ {PHASE1_REWARD, PHASE2_REWARD, CENT, MAX_EMISSION} \subseteq Nat

(***************************************************************************)
(* The windows and the bounds on the proof-of-work target.                 *)
(***************************************************************************)
ASSUME BoundAssumption ==
    /\ {MAX_POW_EVALS, LATE_ORIGIN_WINDOW, ASERT_HALF_LIFE} \subseteq Nat \ {0}
    /\ {SOLVER_ACTIVITY_WINDOW, MIN_BITS, BASE_BITS, MAX_BITS} \subseteq Nat
    /\ MIN_BITS <= BASE_BITS /\ BASE_BITS <= MAX_BITS

-----------------------------------------------------------------------------
\* The phase of the block at a height, on a chain with a height schedule.
GetQuantumLifecycleState(height) ==
    CASE height < LIFECYCLE_START -> "LEGACY"
      [] height >= LIFECYCLE_START /\ height <= GOLD_RUSH_END -> "GOLD_RUSH"
      [] height > GOLD_RUSH_END /\ height <= MIGRATION_END -> "MIGRATION"
      [] OTHER -> "FINAL_LOCKOUT"

IsShadowGoldRushRewardHeight(height) ==
    height >= REWARD_START /\ height <= REWARD_END

IsShadowGoldRushRewardActive(height) ==
    /\ IsShadowGoldRushRewardHeight(height)
    /\ GetQuantumLifecycleState(height) = "GOLD_RUSH"

\* A block at this height may spend quantum outputs, the payouts included.
IsQuantumWitnessSpendActive(height) ==
    /\ height > REWARD_END
    /\ GetQuantumLifecycleState(height) \in {"MIGRATION", "FINAL_LOCKOUT"}

IsShadowCompetingClaimsActive(height) == height >= COMPETING_CLAIMS_HEIGHT

IsShadowQQP4Active(height) == height >= QQP4_HEIGHT

\* Some block up to this height has applied a reward, so the pool and the
\* active-signal markers exist.
HasAppliedShadowRewardTransition(height) ==
    /\ height >= REWARD_START
    /\ LET first == IF REWARD_START > LIFECYCLE_START
                       THEN REWARD_START ELSE LIFECYCLE_START
           end   == IF height < REWARD_END THEN height ELSE REWARD_END
       IN first <= (IF end < GOLD_RUSH_END THEN end ELSE GOLD_RUSH_END)

-----------------------------------------------------------------------------
\* (580 * COIN) >> halvings
HalvedReward[halvings \in Nat] ==
    IF halvings = 0 THEN PHASE1_REWARD ELSE HalvedReward[halvings - 1] \div 2

ShadowBaseReward(height) ==
    IF ~IsShadowGoldRushRewardHeight(height) THEN 0
    ELSE IF height <= PHASE1_END
         THEN HalvedReward[(height - REWARD_START) \div HALVING_INTERVAL]
         ELSE PHASE2_REWARD

\* The sum of the rewards up to a height.
GetScheduledShadowEmissionThrough[height \in Nat] ==
    IF height = 0 THEN 0
    ELSE GetScheduledShadowEmissionThrough[height - 1] + ShadowBaseReward(height)

\* The leading zero bits a claim needs at a height.  lastPow is the height of
\* the last winning claim, 0 before the first: the target relaxes by one bit
\* for each half-life without a winner.  C++ division truncates towards zero,
\* but a negative dividend is clamped to 0 half-lives either way.
RetargetedBits(lastPow, height) ==
    IF height <= REWARD_START THEN BASE_BITS
    ELSE LET anchor  == IF lastPow # 0 THEN lastPow ELSE REWARD_START - 1
             spacing == IF height > anchor THEN height - anchor ELSE 0
             lives   == (spacing - 1 + ASERT_HALF_LIFE \div 2) \div ASERT_HALF_LIFE
             bits    == BASE_BITS - (IF lives > 0 THEN lives ELSE 0)
         IN IF bits < MIN_BITS THEN MIN_BITS
            ELSE IF bits > MAX_BITS THEN MAX_BITS ELSE bits
=============================================================================
