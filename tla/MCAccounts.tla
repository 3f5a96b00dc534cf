----------------------------- MODULE MCAccounts -----------------------------
(***************************************************************************)
(* Three kinds of behaviours, told apart by what is used up when they      *)
(* begin: people sign up (and one account may be deleted meanwhile), two   *)
(* administrators change one account, three names are saved.               *)
(***************************************************************************)
EXTENDS Accounts, TLC

CONSTANTS u1, u2

MCUsers == {u1, u2}
MCNames == {"x", "y"}
MCLogins == {"n"}
MCInvites == {"i"}
MCSignups == {"s", "t"}
MCEdits == {1, 2}
MCSaves == {1, 2, 3}
MCRemovals == {1}

NoChange == [user |-> u1, enabled |-> Keep, badge |-> Keep, name |-> Keep, top |-> Keep,
             set |-> Keep, add |-> {}, remove |-> {}]

MCRequests == {
    [NoChange EXCEPT !.enabled = FALSE, !.top = "creator"],
    [NoChange EXCEPT !.enabled = TRUE, !.badge = TRUE, !.top = "user"],
    [NoChange EXCEPT !.badge = FALSE, !.name = "x", !.remove = {"member"}],
    [NoChange EXCEPT !.set = {"user", "moderator"}, !.add = {"extra"}]}

Spent(S) == [x \in S |-> [at |-> "failed", save |-> None, q |-> [user |-> None]]]
Fresh(S) == [x \in S |-> [at |-> "idle", save |-> None]]
Account(roles) == [login |-> "n", enabled |-> TRUE, password |-> "s", roles |-> roles]

SigningUp ==
    /\ accounts = <<>> /\ made = <<>> /\ issued = {}
    /\ signing = Fresh(Signups) /\ editing = Spent(Edits) /\ removing = Fresh(Removals)
    /\ saving = [s \in Saves |-> [at |-> "refused"]]

Editing ==
    /\ accounts = u1 :> Account({"user", "member", "extra"}) /\ made = u1 :> "n"
    /\ issued = Invites
    /\ signing = Spent(Signups) /\ editing = Fresh(Edits) /\ removing = Fresh(Removals)
    /\ saving = [s \in Saves |-> [at |-> IF s = 1 THEN "idle" ELSE "refused"]]

Renaming ==
    /\ accounts = u1 :> Account({"user"}) /\ made = (u1 :> "n" @@ u2 :> "n")
    /\ issued = Invites
    /\ signing = Spent(Signups) /\ editing = Spent(Edits) /\ removing = Spent(Removals)
    /\ saving = [s \in Saves |-> [at |-> "idle"]]

MCInit ==
    /\ SigningUp \/ Editing \/ Renaming
    /\ names = <<>> /\ cooling = {} /\ aliases = <<>> /\ outraced = {}
    /\ open = (issued = Invites) /\ invites = <<>> /\ badges = {} /\ ghosts = {}

MCSpec == MCInit /\ [][Next]_vars
=============================================================================
