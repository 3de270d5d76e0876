------------------------------- MODULE Registry -------------------------------
(***************************************************************************)
(* The data structures in which the server keeps its sessions: the uuid    *)
(* tree, and the accounts with their sessions (Accounts).  Only the main   *)
(* loop touches them.                                                      *)
(***************************************************************************)
EXTENDS RbTree, Accounts

ASSUME UuidsAssumption == Uuids = Nodes

VARIABLE tree    \* srvopt.uuid_tree

vars == <<tree, accts, acct, opened>>

Init == tree = Empty /\ AcctInit

\* ss_main_handle_init, DAEMON_USR.  The account is made first, and stays if
\* the session exists already.
DaemonInit(u, x) ==
    /\ accts' = AddAcct(x)
    /\ IF Found(tree, u) THEN UNCHANGED <<tree, acct, opened>>
       ELSE Enter(u, x) /\ tree' = Insert(tree, u)

\* ss_main_handle_init, USR_DAEMON: any account will do.
UsrAdmitted(u, x) == FindAcct(accts, x) # None /\ Found(tree, u)

\* Faulty: the account is kept when its last session goes.
ActivItemRemoveKeepsAcct(u) ==
    /\ acct[u] # None /\ Found(tree, u)
    /\ tree' = Erase(tree, u)
    /\ acct' = [acct EXCEPT ![u] = None]
    /\ opened' = [opened EXCEPT ![u] = None]
    /\ UNCHANGED accts

\* ss_activ_item_remove, with ss_acct_remove for the last session.  That the
\* tree has the item, which the code does not survive without, is Listed.
ActivItemRemove(u) ==
    /\ acct[u] # None /\ Found(tree, u)
    /\ tree' = Erase(tree, u)
    /\ Leave(u)

Next == \E u \in Uuids : ActivItemRemove(u) \/ \E x \in UsersOf[u] : DaemonInit(u, x)

Spec == Init /\ [][Next]_vars

-----------------------------------------------------------------------------
(* Properties.                                                             *)

\* After any sequence of logins and departures the uuid tree is a red-black
\* tree (rules 2, 4 and 5 of rbtree.c) in order, with right parent pointers.
RedBlack == tree \in Trees /\ IsRedBlack(tree) /\ IsOrdered(tree)

\* ss_uuid_search finds the sessions that live, and no others: rebalancing
\* loses none and brings none back, and ss_activ_item_remove finds its item.
\* So a USR client with the settings of the DAEMON is let in while they live.
Listed ==
    \A u \in Uuids : /\ Found(tree, u) <=> acct[u] # None
                     /\ acct[u] # None => UsrAdmitted(u, opened[u])

\* For the accounts the sessions of the tree are the set of those that live.
ImplementsAccounts == AcctSpec
=============================================================================
