--------------------------- MODULE RecoveryBudget ---------------------------
(***************************************************************************)
(* What the session reconciler promises a charger and its car, whatever    *)
(* they do: corrective actions are rationed.  An episode allows MaxActions *)
(* of them, the first no sooner than Grace after the episode began, and    *)
(* each of the others no sooner than Cooldown after the one before.        *)
(* "Guarded" in the header comment of core/session-reconciler.ts.          *)
(***************************************************************************)
EXTENDS Integers

CONSTANTS Grace, Cooldown, MaxActions

VARIABLES spent,   \* actions taken in this episode
          rest     \* time units before the next one is allowed

budgetVars == <<spent, rest>>

BudgetInit == spent = 0 /\ rest = Grace

Act ==
    /\ rest = 0 /\ spent < MaxActions
    /\ spent' = spent + 1
    /\ rest' = Cooldown

Wait ==
    /\ rest > 0
    /\ rest' = rest - 1
    /\ UNCHANGED spent

(* The episode is over: the next one starts with its full grace. *)
Renew == spent' = 0 /\ rest' = Grace

BudgetNext == Act \/ Wait \/ Renew

BudgetSpec == BudgetInit /\ [][BudgetNext]_budgetVars
=============================================================================
