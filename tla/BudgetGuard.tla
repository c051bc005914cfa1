---------------------------- MODULE BudgetGuard -----------------------------
(***************************************************************************)
(* apps/server/src/budget.ts: what an installation has spent this month,   *)
(* and the limit it was last told.  This module holds one installation's   *)
(* entry and what each method makes of it; an entry of an earlier month    *)
(* counts as none.  Amounts are cents.                                     *)
(***************************************************************************)
EXTENDS Naturals

\* The entry of an installation that has none, reset() included.
NoEntry == [known |-> FALSE, spent |-> 0, limit |-> 0]

\* snapshot(): an entry answers with its own limit, not with the caller's.
Snapshot(entry, limit) ==
    IF entry.known THEN entry ELSE [known |-> FALSE, spent |-> 0, limit |-> limit]

\* wouldExceed() of nothing more: is the limit passed already?
WouldExceed(entry, limit) == Snapshot(entry, limit).spent > Snapshot(entry, limit).limit

\* spent(): the cost is added, the limit replaced.  PUT /api/budget calls it
\* with a cost of 0.
Spent(entry, cost, limit) == [known |-> TRUE, spent |-> entry.spent + cost, limit |-> limit]

\* preflightBudget(): estimate and spending so far against the limit of the
\* repository's own configuration.
PreflightBlocks(spent, estimate, limit) == limit > 0 /\ spent + estimate > limit
=============================================================================
