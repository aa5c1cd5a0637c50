----------------------------- MODULE ActiveSignals -----------------------------
(***************************************************************************)
(* The active-signal state of the shadow ledger (shadow.cpp): which        *)
(* whitelisted stakers have recently announced a payout script, the delta  *)
(* undo record each change leaves, and the division of the proof-of-stake  *)
(* pool among the active stakers.                                          *)
(*                                                                         *)
(* A block is identified with the sequence of the block contents from the  *)
(* snapshot block up to it, so that equal hashes mean equal histories, its *)
(* height is its length and its ancestors are its prefixes.  Targets and   *)
(* payout scripts are numbers: only their order is used.                   *)
(***************************************************************************)
EXTENDS ShadowSchedule, LedgerSequences

CONSTANT Whitelist      \* the legacy scripts of the snapshot

\* The fixed marker ActiveSignalSetOutpoint: absent, or the block that wrote it
\* and, for every active target, the payout script and the height announced.
NoSignalState == [present |-> FALSE, marker |-> <<>>, entries |-> <<>>]

\* The ancestor of a block at a height (SafeGetAncestor).
Ancestor(block, height) == SubSeq(block, 1, height)

\* The staker of the block, when its kernel spends a whitelisted legacy script.
\* A solver is a sequence of length at most one.
GetCurrentSolverScript(pos, staker) ==
    IF pos /\ staker \in Whitelist THEN <<staker>> ELSE <<>>

\* A signal names the block its target solved: an ancestor, not too old, whose
\* solver marker is still there.  solvers is the set of solver markers.
SignalReferencesRecentSolve(solvers, block, target, solve) ==
    /\ Len(solve) < Len(block)
    /\ Len(block) - Len(solve) <= SOLVER_ACTIVITY_WINDOW
    /\ solve = Ancestor(block, Len(solve))
    /\ target \in Whitelist
    /\ [block |-> solve, target |-> target] \in solvers

\* The signals of a block's transactions that count.  A signal has a target, a
\* payout script, the block solved, and whether its transaction both spends
\* from and pays to the target.  Two signals of one target with different
\* payout scripts cancel each other for this block.
FindValidShadowSignalsInBlock(solvers, block, signals) ==
    LET valid == {s \in Range(signals) :
                    /\ s.authorized
                    /\ SignalReferencesRecentSolve(solvers, block, s.target, s.solve)}
        payouts(t) == {s.payout : s \in {v \in valid : v.target = t}}
        targets == {t \in {s.target : s \in valid} : Cardinality(payouts(t)) = 1}
    IN [t \in targets |-> CHOOSE p \in payouts(t) : TRUE]

\* Mutant: an announcement stays active for one block too many.
FilterActiveSignals_OneMore(entries, height) ==
    RestrictDomain(entries, LAMBDA t : height - entries[t].height <= SOLVER_ACTIVITY_WINDOW + 1)

FilterActiveSignals(entries, height) ==
    RestrictDomain(entries, LAMBDA t :
        /\ entries[t].height <= height
        /\ height - entries[t].height <= SOLVER_ACTIVITY_WINDOW)

UpsertActiveSignals(entries, signals, height) ==
    [t \in DOMAIN entries \cup DOMAIN signals |->
        IF t \in DOMAIN signals THEN [payout |-> signals[t], height |-> height]
        ELSE entries[t]]

-----------------------------------------------------------------------------
\* The delta that leads back from one map of entries to another: for each target
\* that differs, << the old entry >>, or <<>> where there was none.
SignalDelta(prior, next) ==
    LET changed == {t \in DOMAIN prior \cup DOMAIN next :
                      ~(/\ t \in DOMAIN prior /\ t \in DOMAIN next
                        /\ prior[t] = next[t])}
    IN [t \in changed |-> IF t \in DOMAIN prior THEN <<prior[t]>> ELSE <<>>]

ApplySignalDelta(current, delta) ==
    LET removed == {t \in DOMAIN delta : delta[t] = <<>>}
    IN [t \in (DOMAIN current \cup DOMAIN delta) \ removed |->
            IF t \in DOMAIN delta THEN delta[t][1] ELSE current[t]]

\* The undo record of a change of the state in a block.  The state hashes it
\* carries are modelled by the states themselves.
ActiveSignalUndo(prior, block, next) ==
    [block |-> block, wasPresent |-> prior.present, previousMarker |-> prior.marker,
     delta |-> SignalDelta(prior.entries, next),
     pre |-> prior, post |-> [present |-> TRUE, marker |-> block, entries |-> next]]

\* The state marker as ReadActiveSignalStateMarker authenticates it at a block.
SignalStateReadable(state, block) ==
    state.present =>
        /\ REWARD_START <= Len(state.marker) /\ Len(state.marker) <= Len(block)
        /\ state.marker = Ancestor(block, Len(state.marker))
        /\ Cardinality(DOMAIN state.entries) <= Cardinality(Whitelist)
        /\ \A t \in DOMAIN state.entries :
              t \in Whitelist /\ state.entries[t].height <= Len(state.marker)

\* UndoActiveSignalMarkers: undo is <<>> when the block left no record, and else
\* << the record >>.  ok says whether every check passes.
UndoActiveSignalMarkers(state, undo, block, previousPresent) ==
    IF undo = <<>>
    THEN [ok |-> previousPresent /\ state.present /\ Len(state.marker) < Len(block),
          state |-> state]
    ELSE LET u == undo[1]
             restored == [present |-> u.wasPresent, marker |-> u.previousMarker,
                          entries |-> ApplySignalDelta(state.entries, u.delta)]
             parent == Front(block)
         IN [ok |-> /\ u.block = block
                    /\ u.wasPresent = previousPresent
                    /\ DOMAIN u.delta \subseteq Whitelist
                    /\ state.present /\ state.marker = block
                    /\ SignalStateReadable(state, block)
                    /\ state = u.post
                    /\ restored = u.pre
                    /\ IF u.wasPresent
                       THEN u.previousMarker = Ancestor(parent, Len(u.previousMarker))
                       ELSE restored.entries = <<>>,
             state |-> restored]

-----------------------------------------------------------------------------
\* The pool marker and the signal marker come and go together.
ActiveSignalPoolPairValid(poolPresent, state, block) ==
    /\ SignalStateReadable(state, block)
    /\ poolPresent = state.present
    /\ poolPresent = HasAppliedShadowRewardTransition(Len(block))

\* The share of an active target: the pool divided evenly, the remainder given
\* one unit each to the first targets in script order.
PosShare(amount, targets, t) ==
    LET share     == amount \div Cardinality(targets)
        remainder == amount - share * Cardinality(targets)
    IN share + (IF Cardinality({u \in targets : u <= t}) <= remainder THEN 1 ELSE 0)

\* The payouts of the proof-of-stake pool in payout-script order: nothing unless
\* the block's solver is itself active.  One payout per script, also when
\* several targets chose the same one.
BuildPosPayouts(amount, solver, entries) ==
    LET targets == DOMAIN entries
        scripts == {entries[t].payout : t \in targets}
        due(p)  == MapThenSumSet(LAMBDA t : PosShare(amount, targets, t),
                                 {t \in targets : entries[t].payout = p})
        paid    == {p \in scripts : due(p) > 0}
        ordered == CHOOSE o \in Injection(1..Cardinality(paid), paid) :
                      \A i, j \in DOMAIN o : i < j => o[i] < o[j]
    IN IF solver = <<>> \/ amount <= 0 THEN <<>>
       ELSE IF solver[1] \notin targets THEN <<>>
       ELSE [i \in DOMAIN ordered |-> [payout |-> ordered[i], amount |-> due(ordered[i])]]
=============================================================================
