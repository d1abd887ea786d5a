----------------------------- MODULE MCAccounts -----------------------------
(* Accounts with two tabs, two requests at a time and two admins.          *)
EXTENDS Accounts

MCStart == <<[name |-> "admin", role |-> "admin", pw |-> "secret-a"],
             [name |-> "carla", role |-> "admin", pw |-> "secret-a"]>>

MCOpened == {[t1 |-> 1, t2 |-> 2], [t1 |-> 1, t2 |-> 0], [t1 |-> 0, t2 |-> 0]}

MCLogins == {[name |-> "admin", pw |-> "secret-a"], [name |-> "carla", pw |-> "secret-b"]}

MCNew == {[name |-> "bea", role |-> "csv", pw |-> "secret-a"]}

(* Each admin demoted; a rename; a rename to a name that is taken; a save  *)
(* without a password.                                                     *)
MCEdits ==
    {[id |-> 1, name |-> "admin", role |-> "csv", pw |-> "secret-b"],
     [id |-> 2, name |-> "carla", role |-> "csv", pw |-> "secret-a"],
     [id |-> 1, name |-> "dorothy", role |-> "admin", pw |-> "secret-a"],
     [id |-> 2, name |-> "admin", role |-> "admin", pw |-> "secret-b"],
     [id |-> 1, name |-> "admin", role |-> "csv", pw |-> "empty"]}
=============================================================================
