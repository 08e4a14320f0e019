---------------------------- MODULE MCExpenseEdit ----------------------------
(* Instances of ExpenseEdit for TLC. *)
EXTENDS ExpenseEdit, TLC

CONSTANTS e1, e2, ruled, unruled, food, travel

\* One merchant is known to the static rules, one is not.
MCMerchants == {ruled, unruled}
MCCategories == {food, travel}
MCRule == (ruled :> food) @@ (unruled :> Unset)

\* The user disagrees with the rule and has said so.
MCCorrected == (ruled :> travel) @@ (unruled :> Unset)

\* One expense is there already, one is still to be created or booked.
MCExpenses == {e1, e2}
MCStored == (e1 :> [merchant |-> ruled, category |-> travel, stamp |-> 0]) @@ (e2 :> NoRow)

\* Recategorise, rename, and both at once.
MCPatches ==
  {[merchant |-> Unset, category |-> food], [merchant |-> Unset, category |-> travel],
   [merchant |-> unruled, category |-> Unset], [merchant |-> unruled, category |-> food]}

\* Clients are interchangeable.
ClientSymmetry == Permutations(Clients)
=============================================================================
