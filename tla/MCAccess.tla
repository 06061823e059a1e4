------------------------------ MODULE MCAccess ------------------------------
(* Who may do what: leases on the tasks runs execute, accounts with their       *)
(* sessions, and members of a workspace.  The three write different tables, and *)
(* what a handler of one reads of another (that a claim is made by a member) is *)
(* left out, so a run of the whole is an interleaving of runs of the parts:     *)
(* each behaviour here takes the steps of one of them.                          *)
EXTENDS MCTaskLease, Accounts, Membership

VARIABLE part
accessVars == <<vars, authVars, memberVars, part>>

AccessInit ==
    /\ part \in {"lease", "accounts", "membership"}
    /\ Init /\ AccountsInit /\ MembershipInit

AccessNext ==
    /\ UNCHANGED part
    /\ \/ part = "lease" /\ Next /\ UNCHANGED <<authVars, memberVars>>
       \/ part = "accounts" /\ AccountsNext /\ UNCHANGED <<vars, memberVars>>
       \/ part = "membership" /\ MembershipNext /\ UNCHANGED <<vars, authVars>>

AccessSpec == AccessInit /\ [][AccessNext]_accessVars

(* The fields of the tables, of requests in progress and of what is recorded    *)
(* for the properties have the values the three components give them.           *)
AccessTypeOK == TypeOK /\ AccountsTypeOK /\ MembershipTypeOK
=============================================================================
