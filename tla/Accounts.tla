------------------------------ MODULE Accounts ------------------------------
(***************************************************************************)
(* Registration and the administration of users in                         *)
(* internal/httpapi/server.go.  The accounts are kept by Keycloak, outside *)
(* the program; invites and profiles are in the database.  A handler calls *)
(* Keycloak and the database one after the other and no transaction spans  *)
(* the two: every call is a step of its own, may fail, and may have had    *)
(* its effect although the answer is lost.                                 *)
(***************************************************************************)
EXTENDS Profiles

CONSTANTS Logins,     \* user names
          Invites,    \* invite tokens
          Signups,    \* the calls of signup in a behaviour
          Edits,      \* the calls of adminUpdateUser
          Requests,   \* the bodies they can have
          Removals,   \* the calls of adminDeleteUser
          None,       \* no invite, no user
          Keep        \* a JSON field that is absent

Hierarchy == {"user", "member", "creator", "moderator", "admin"}

\* managedRolesForTop, which refuses any other top role, "member" as well
Tops == {"user", "creator", "moderator", "admin"}
ManagedRoles(top) ==
    CASE top = "user" -> {"user"}
      [] top = "creator" -> {"user", "creator"}
      [] top = "moderator" -> {"user", "creator", "moderator"}
      [] top = "admin" -> {"user", "creator", "moderator", "admin"}

\* add and remove hold one role at most, so that their order is no matter.
RequestType ==
    [user : Users, enabled : BOOLEAN \cup {Keep}, badge : BOOLEAN \cup {Keep},
     name : Names \cup {Blank, Keep}, top : Hierarchy \cup {Keep},
     set : {Keep} \cup SUBSET (Hierarchy \cup {"extra"}),
     add : SUBSET (Hierarchy \cup {"extra"}), remove : SUBSET (Hierarchy \cup {"extra"})]

ASSUME AccountsAssumption ==
    /\ Requests \subseteq RequestType
    /\ None \notin Users \cup Invites \cup Signups
    /\ Keep \notin Names \cup {Blank}

VARIABLES open,       \* app_settings: registration_enabled
          invites,    \* token -> row, for the rows there are
          issued,     \* the tokens made so far
          accounts,   \* Keycloak: user -> account, for the accounts there are
          made,       \* Keycloak: id -> login, for the ids given out so far
          badges,     \* the users with the creator badge
          ghosts,     \* deleted_user_refs: users whose rows a placeholder owns
          signing,    \* where each signup is
          editing,    \* where each call of adminUpdateUser is
          removing    \* where each call of adminDeleteUser is

inviteVars == <<open, invites, issued>>
keycloakVars == <<accounts, made>>
callVars == <<signing, editing, removing>>
accountVars == <<inviteVars, keycloakVars, badges, ghosts, callVars>>
vars == <<names, cooling, aliases, saving, outraced, open, invites, issued, accounts,
          made, badges, ghosts, signing, editing, removing>>

\* The answer to a call that had its effect, or had none: the handler goes on to
\* the next stage, or gives up because the answer was lost.
Answered(next) == {next, "failed"}

-----------------------------------------------------------------------------
(* Settings and invites.                                                   *)

KeepAccounts == UNCHANGED <<profileVars, keycloakVars, badges, ghosts, callVars>>

SetRegistration(b) == open' = b /\ UNCHANGED <<invites, issued>> /\ KeepAccounts

CreateInvite(i) ==
    /\ i \notin issued
    /\ invites' = Put(invites, i, [usedBy |-> None, expired |-> FALSE])
    /\ issued' = issued \cup {i}
    /\ UNCHANGED open /\ KeepAccounts

ExpireInvite(i) ==
    /\ i \in DOMAIN invites
    /\ invites' = [invites EXCEPT ![i].expired = TRUE]
    /\ UNCHANGED <<open, issued>> /\ KeepAccounts

DeleteInvite(i) ==
    /\ i \in DOMAIN invites
    /\ invites' = [x \in DOMAIN invites \ {i} |-> invites[x]]
    /\ UNCHANGED <<open, issued>> /\ KeepAccounts

\* Mutant: a used invite can be used again until it expires.
InviteUsableTwice(i) == i \in DOMAIN invites /\ ~invites[i].expired

\* registrationInviteUsable
InviteUsable(i) ==
    i \in DOMAIN invites /\ invites[i].usedBy = None /\ ~invites[i].expired

-----------------------------------------------------------------------------
(* Signup.                                                                 *)

KeepForSignup == UNCHANGED <<profileVars, open, issued, badges, ghosts, editing, removing>>

Go(s, stage) == signing' = [signing EXCEPT ![s].at = stage]

\* seen (history): the signups that were over when this one came.
BeginSignup(s, n, i) ==
    /\ signing[s].at = "idle"
    /\ i # None => InviteUsable(i)
    /\ i = None => open
    /\ signing' = [signing EXCEPT ![s] =
          [at |-> "create", login |-> n, invite |-> i, made |-> None, user |-> None,
           seen |-> {r \in Signups : signing[r].at = "done"}]]
    /\ UNCHANGED <<invites, keycloakVars>> /\ KeepForSignup

NewAccount(n) == [login |-> n, enabled |-> TRUE, password |-> None, roles |-> {}]

TakenBy(n) == {u \in DOMAIN accounts : accounts[u].login = n}

\* Mutant: a conflict is taken for a repetition of this signup.
CreateAccountRepeated(s) ==
    /\ signing[s].at = "create"
    /\ \/ /\ TakenBy(signing[s].login) # {}
          /\ Go(s, "find")
          /\ UNCHANGED keycloakVars
       \/ /\ TakenBy(signing[s].login) = {}
          /\ \E u \in Users \ DOMAIN made :
                /\ made' = Put(made, u, signing[s].login)
                /\ accounts' = Put(accounts, u, NewAccount(signing[s].login))
                /\ signing' = [signing EXCEPT ![s].at = "find", ![s].made = u]
    /\ UNCHANGED invites /\ KeepForSignup

\* keycloakCreateUser: a login that is taken is a conflict.
CreateAccount(s) ==
    /\ signing[s].at = "create"
    /\ TakenBy(signing[s].login) = {}
    /\ \E u \in Users \ DOMAIN made, at \in Answered("find") :
          /\ made' = Put(made, u, signing[s].login)
          /\ accounts' = Put(accounts, u, NewAccount(signing[s].login))
          /\ signing' = [signing EXCEPT ![s].at = at, ![s].made = u]
    /\ UNCHANGED invites /\ KeepForSignup

RefuseLogin(s) ==
    /\ signing[s].at = "create" /\ TakenBy(signing[s].login) # {}
    /\ Go(s, "refused")
    /\ UNCHANGED <<invites, keycloakVars>> /\ KeepForSignup

\* keycloakFindUserID: the id of whoever has the login now.
FindAccount(s) ==
    /\ signing[s].at = "find"
    /\ \E u \in TakenBy(signing[s].login) :
          signing' = [signing EXCEPT ![s].at = "password", ![s].user = u]
    /\ UNCHANGED <<invites, keycloakVars>> /\ KeepForSignup

\* keycloakSetPassword; password names the signup that set it.
SetPassword(s) ==
    LET u == signing[s].user IN
    /\ signing[s].at = "password" /\ u \in DOMAIN accounts
    /\ accounts' = [accounts EXCEPT ![u].password = s]
    /\ \E at \in Answered("role") : Go(s, at)
    /\ UNCHANGED <<invites, made>> /\ KeepForSignup

\* Mutant: the result of the assignment is ignored.
GiveRoleIgnored(s) ==
    LET u == signing[s].user IN
    /\ signing[s].at = "role"
    /\ accounts' \in {accounts} \cup (IF u \in DOMAIN accounts
                        THEN {[accounts EXCEPT ![u].roles = @ \cup {"user"}]} ELSE {})
    /\ Go(s, "consume")
    /\ UNCHANGED <<invites, made>> /\ KeepForSignup

\* keycloakAssignRealmRole
GiveRole(s) ==
    LET u == signing[s].user IN
    /\ signing[s].at = "role" /\ u \in DOMAIN accounts
    /\ accounts' = [accounts EXCEPT ![u].roles = @ \cup {"user"}]
    /\ \E at \in Answered("consume") : Go(s, at)
    /\ UNCHANGED <<invites, made>> /\ KeepForSignup

\* consumeRegistrationInvite, whose result is ignored: the invite may have been
\* used, deleted or expired since, or the database may refuse.
ConsumeInvite(s) ==
    LET i == signing[s].invite IN
    /\ signing[s].at = "consume"
    /\ Go(s, "done")
    /\ \/ /\ i # None /\ InviteUsable(i)
          /\ invites' = [invites EXCEPT ![i].usedBy = signing[s].user]
       \/ UNCHANGED invites
    /\ UNCHANGED keycloakVars /\ KeepForSignup

\* Keycloak cannot be reached, or does not know the account (any more).
FailSignup(s) ==
    /\ signing[s].at \in {"create", "find", "password", "role"}
    /\ Go(s, "failed")
    /\ UNCHANGED <<invites, keycloakVars>> /\ KeepForSignup

SignupStep ==
    \E s \in Signups :
       \/ \E n \in Logins, i \in Invites \cup {None} : BeginSignup(s, n, i)
       \/ CreateAccount(s) \/ RefuseLogin(s) \/ FindAccount(s) \/ SetPassword(s)
       \/ GiveRole(s) \/ ConsumeInvite(s) \/ FailSignup(s)

-----------------------------------------------------------------------------
(* Profiles: meProfileUpdate.                                              *)

KeepForProfile == UNCHANGED <<inviteVars, badges, ghosts, callVars>>

\* The role is that of the token, which may be older than the account.
SaveOwnProfile(s, u, n) ==
    /\ u \in DOMAIN made
    /\ \E admin \in BOOLEAN : BeginSave(s, u, n, admin)
    /\ UNCHANGED keycloakVars /\ KeepForProfile

OwnSaves == Saves \ {editing[e].save : e \in Edits}

\* updateKeycloakEmailByUsername loads the account that has the login now ...
LoadForEmail(s) ==
    /\ s \in OwnSaves /\ saving[s].at = "saved"
    /\ \E u \in TakenBy(made[saving[s].user]) :
          saving' = [saving EXCEPT ![s] =
             [at |-> "email", user |-> u, enabled |-> accounts[u].enabled]]
    /\ UNCHANGED <<names, cooling, aliases, outraced, keycloakVars>> /\ KeepForProfile

\* ... and writes all of it back with the new address.
WriteEmail(s) ==
    /\ saving[s].at = "email"
    /\ saving' = [saving EXCEPT ![s] = [at |-> "done", user |-> saving[s].user]]
    /\ LET u == saving[s].user IN
       accounts' = IF u \in DOMAIN accounts
                   THEN [accounts EXCEPT ![u].enabled = saving[s].enabled] ELSE accounts
    /\ UNCHANGED <<names, cooling, aliases, outraced, made>> /\ KeepForProfile

ProfileStep ==
    \/ SaveStep /\ UNCHANGED keycloakVars /\ KeepForProfile
    \/ \E s \in Saves :
          \/ LoadForEmail(s) \/ WriteEmail(s)
          \/ \E u \in Users, n \in Names \cup {Blank} : SaveOwnProfile(s, u, n)

-----------------------------------------------------------------------------
(* adminUpdateUser: the parts of a request are done in a fixed order, and  *)
(* the first that fails leaves the ones before it done.                    *)

StageNames == <<"enabled", "badge", "name", "top", "set", "add", "remove">>

Asked(q) ==
    {k \in 1 .. 7 : LET stage == StageNames[k]
                    IN  q[stage] # (IF stage \in {"add", "remove"} THEN {} ELSE Keep)}

\* The stage after stage k
StageAfter(q, k) ==
    LET later == {j \in Asked(q) : j > k}
    IN  IF later = {} THEN "done"
        ELSE StageNames[CHOOSE j \in later : \A i \in later : j <= i]

KeepForEdit == UNCHANGED <<inviteVars, ghosts, made, signing, removing>>

Proceed(e, at) == editing' = [editing EXCEPT ![e].at = at]

BeginEdit(e, q) ==
    /\ editing[e].at = "idle"
    /\ editing' = [editing EXCEPT ![e] =
          [at |-> StageAfter(q, 0), q |-> q, save |-> None, then |-> None,
           adds |-> {}, drops |-> {}]]
    /\ UNCHANGED <<profileVars, accounts, badges>> /\ KeepForEdit

\* keycloakSetUserEnabled
SetEnabled(e) ==
    LET q == editing[e].q IN
    /\ editing[e].at = "enabled" /\ q.user \in DOMAIN accounts
    /\ accounts' = [accounts EXCEPT ![q.user].enabled = q.enabled]
    /\ \E at \in Answered(StageAfter(q, 1)) : Proceed(e, at)
    /\ UNCHANGED <<profileVars, badges>> /\ KeepForEdit

SetBadge(e) ==
    LET q == editing[e].q IN
    /\ editing[e].at = "badge"
    /\ badges' = IF q.badge THEN badges \cup {q.user} ELSE badges \ {q.user}
    /\ TouchProfile(q.user)
    /\ Proceed(e, StageAfter(q, 2))
    /\ UNCHANGED accounts /\ KeepForEdit

\* The cooldown is not asked for.
SetName(e, s) ==
    LET q == editing[e].q IN
    /\ editing[e].at = "name"
    /\ BeginSave(s, q.user, q.name, TRUE)
    /\ editing' = [editing EXCEPT ![e].at = "naming", ![e].save = s]
    /\ UNCHANGED <<accounts, badges>> /\ KeepForEdit

NameSet(e) ==
    /\ editing[e].at = "naming"
    /\ \/ saving[editing[e].save].at = "saved" /\ Proceed(e, StageAfter(editing[e].q, 3))
       \/ saving[editing[e].save].at = "refused" /\ Proceed(e, "failed")
    /\ UNCHANGED <<profileVars, accounts, badges>> /\ KeepForEdit

\* Mutant: the roles outside the hierarchy are not kept.
TopTargetBare(top, current) == ManagedRoles(top)

\* The roles an account with these roles shall have under a new top role.
TopTarget(top, current) == ManagedRoles(top) \cup (current \ Hierarchy)

PlanRoles(e, stage, adds, drops) ==
    editing' = [editing EXCEPT ![e].at = "roles", ![e].then = StageAfter(editing[e].q, stage),
                               ![e].adds = adds, ![e].drops = drops]

\* The roles are read, and what they lack and have too much is noted.
ReadRoles(e) ==
    LET q == editing[e].q
        current == accounts[q.user].roles
        target == IF editing[e].at = "top" THEN TopTarget(q.top, current) ELSE q.set IN
    /\ editing[e].at \in {"top", "set"} /\ q.user \in DOMAIN accounts
    /\ editing[e].at = "top" => q.top \in Tops
    /\ PlanRoles(e, IF editing[e].at = "top" THEN 4 ELSE 5,
                 target \ current, current \ target)
    /\ UNCHANGED <<profileVars, accounts, badges>> /\ KeepForEdit

NameRoles(e) ==
    LET q == editing[e].q IN
    /\ \/ editing[e].at = "add" /\ PlanRoles(e, 6, q.add, {})
       \/ editing[e].at = "remove" /\ PlanRoles(e, 7, {}, q.remove)
    /\ UNCHANGED <<profileVars, accounts, badges>> /\ KeepForEdit

\* One role is assigned, the map is ranged over in any order.
AssignRole(e, r) ==
    LET u == editing[e].q.user IN
    /\ editing[e].at = "roles" /\ r \in editing[e].adds /\ u \in DOMAIN accounts
    /\ accounts' = [accounts EXCEPT ![u].roles = @ \cup {r}]
    /\ \E at \in Answered("roles") :
          editing' = [editing EXCEPT ![e].adds = @ \ {r}, ![e].at = at]
    /\ UNCHANGED <<profileVars, badges>> /\ KeepForEdit

\* Roles are removed after all are assigned.
RemoveRole(e, r) ==
    LET u == editing[e].q.user IN
    /\ editing[e].at = "roles" /\ editing[e].adds = {}
    /\ r \in editing[e].drops /\ u \in DOMAIN accounts
    /\ accounts' = [accounts EXCEPT ![u].roles = @ \ {r}]
    /\ \E at \in Answered("roles") :
          editing' = [editing EXCEPT ![e].drops = @ \ {r}, ![e].at = at]
    /\ UNCHANGED <<profileVars, badges>> /\ KeepForEdit

RolesSet(e) ==
    /\ editing[e].at = "roles" /\ editing[e].adds = {} /\ editing[e].drops = {}
    /\ Proceed(e, editing[e].then)
    /\ UNCHANGED <<profileVars, accounts, badges>> /\ KeepForEdit

FailEdit(e) ==
    /\ editing[e].at \in {"enabled", "badge", "name", "top", "set", "roles"}
    /\ Proceed(e, "failed")
    /\ UNCHANGED <<profileVars, accounts, badges>> /\ KeepForEdit

EditStep ==
    \E e \in Edits :
       \/ \E q \in Requests : q.user \in DOMAIN made /\ BeginEdit(e, q)
       \/ SetEnabled(e) \/ SetBadge(e) \/ NameSet(e) \/ ReadRoles(e) \/ NameRoles(e)
       \/ RolesSet(e) \/ FailEdit(e)
       \/ \E s \in Saves : SetName(e, s)
       \/ \E r \in Hierarchy \cup {"extra"} : AssignRole(e, r) \/ RemoveRole(e, r)

-----------------------------------------------------------------------------
(* adminDeleteUser: Keycloak first, then the rows.                         *)

KeepForRemoval == UNCHANGED <<inviteVars, made, signing, editing>>

WithoutAccount(u) == [x \in DOMAIN accounts \ {u} |-> accounts[x]]

\* Mutant: the rows are reassigned whether Keycloak has deleted or not.
DeleteAccountAnyway(d, u) ==
    /\ removing[d].at = "idle" /\ u \in DOMAIN made
    /\ accounts' \in {accounts, WithoutAccount(u)}
    /\ removing' = [removing EXCEPT ![d] = [at |-> "cleanup", user |-> u]]
    /\ UNCHANGED <<profileVars, badges, ghosts>> /\ KeepForRemoval

\* keycloakDeleteUser: an account that is gone is an error.
DeleteAccount(d, u) ==
    /\ removing[d].at = "idle" /\ u \in DOMAIN made
    /\ \/ /\ u \in DOMAIN accounts
          /\ accounts' = WithoutAccount(u)
          /\ \E at \in Answered("cleanup") :
                removing' = [removing EXCEPT ![d] = [at |-> at, user |-> u]]
       \/ /\ UNCHANGED accounts
          /\ removing' = [removing EXCEPT ![d] = [at |-> "failed", user |-> u]]
    /\ UNCHANGED <<profileVars, badges, ghosts>> /\ KeepForRemoval

\* reassignDeletedUserReferences: one transaction
CleanUp(d) ==
    LET u == removing[d].user IN
    /\ removing[d].at = "cleanup"
    /\ \/ /\ RemoveProfile(u)
          /\ badges' = badges \ {u} /\ ghosts' = ghosts \cup {u}
          /\ removing' = [removing EXCEPT ![d].at = "done"]
       \/ /\ removing' = [removing EXCEPT ![d].at = "failed"]
          /\ UNCHANGED <<profileVars, badges, ghosts>>
    /\ UNCHANGED accounts /\ KeepForRemoval

RemovalStep ==
    \E d \in Removals : CleanUp(d) \/ \E u \in Users : DeleteAccount(d, u)

-----------------------------------------------------------------------------

Init ==
    /\ ProfilesInit
    /\ open = TRUE /\ invites = <<>> /\ issued = {}
    /\ accounts = <<>> /\ made = <<>> /\ badges = {} /\ ghosts = {}
    /\ signing = [s \in Signups |-> [at |-> "idle"]]
    /\ editing = [e \in Edits |-> [at |-> "idle", save |-> None]]
    /\ removing = [d \in Removals |-> [at |-> "idle"]]

SettingStep ==
    \/ \E b \in BOOLEAN : SetRegistration(b)
    \/ \E i \in Invites : CreateInvite(i) \/ ExpireInvite(i) \/ DeleteInvite(i)

Next == SettingStep \/ SignupStep \/ ProfileStep \/ EditStep \/ RemovalStep

Spec == Init /\ [][Next]_vars

-----------------------------------------------------------------------------
(* Properties.                                                             *)

AccountType == [login : Logins, enabled : BOOLEAN, password : Signups \cup {None},
                roles : SUBSET (Hierarchy \cup {"extra"})]

\* The variables have their types: the stages of the calls are those of the
\* handlers, and every account has an id that was given out for its login.
TypeOK ==
    /\ \A s \in Saves : saving[s].at \in SaveStages \cup {"email", "done"}
    /\ NamesTyped
    /\ open \in BOOLEAN /\ issued \subseteq Invites
    /\ DOMAIN invites \subseteq issued
    /\ \A i \in DOMAIN invites :
           invites[i] \in [usedBy : Users \cup {None}, expired : BOOLEAN]
    /\ DOMAIN made \subseteq Users /\ DOMAIN accounts \subseteq DOMAIN made
    /\ \A u \in DOMAIN accounts :
           accounts[u] \in AccountType /\ accounts[u].login = made[u]
    /\ badges \subseteq Users /\ ghosts \subseteq Users
    /\ \A s \in Signups : signing[s].at \in
           {"idle", "create", "find", "password", "role", "consume", "done", "refused", "failed"}
    /\ \A e \in Edits : editing[e].at \in {StageNames[k] : k \in 1 .. 7}
           \cup {"idle", "naming", "roles", "done", "failed"}
    /\ \A d \in Removals : removing[d].at \in {"idle", "cleanup", "done", "failed"}

\* A signup never works on an account that it has not made, although it looks its
\* account up again by name: only when an administrator has deleted the account
\* in between, and the name was taken again, does it find another.
SignupOwnsAccount ==
    \A s \in Signups :
        signing[s].at \in {"password", "role", "consume", "done"} =>
            \/ signing[s].user = signing[s].made
            \/ signing[s].made # None /\ signing[s].made \notin DOMAIN accounts

\* An account whose signup was answered with "created" can be used: it has the
\* password and the role, unless an administrator has a hand in it.
SignedUpIsComplete ==
    \A s \in Signups :
        LET u == signing[s].user IN
        /\ signing[s].at = "done" /\ u \in DOMAIN accounts
        /\ \A e \in Edits : editing[e].at # "idle" => editing[e].q.user # u
        => "user" \in accounts[u].roles /\ accounts[u].password # None

\* An invite that a finished signup has used up for its user (and for whom no
\* other signup works) admits nobody who comes later; only signups that had been
\* let in before may still share it.
InviteAdmitsOnce ==
    \A s, r \in Signups :
        /\ signing[r].at # "idle" /\ signing[s].at = "done" /\ s \in signing[r].seen
        /\ signing[s].invite \in DOMAIN invites
        /\ invites[signing[s].invite].usedBy = signing[s].user
        /\ \A q \in Signups \ {s} :
               signing[q].at # "idle" => signing[q].user # signing[s].user
        => signing[r].invite # signing[s].invite

\* Whose rows belong to the placeholder has no account any more: the two systems
\* are changed one after the other, whatever fails in between.
GhostsAreGone == ghosts \cap DOMAIN accounts = {}

\* What a request in progress asks to take from an account
AsksToTake(e, u, r) ==
    LET q == editing[e].q IN
    /\ editing[e].at = "roles" /\ q.user = u
    /\ \/ q.top # Keep /\ r \in Hierarchy \ ManagedRoles(q.top)
       \/ q.set # Keep /\ r \notin q.set
       \/ r \in q.remove

\* An account loses a role only if a request in progress asks for it, and is
\* enabled again only by a request that asks for it or by a change of address
\* that had loaded it when it was still enabled, however the requests overlap.
ChangesAreAsked ==
    [][\A u \in DOMAIN accounts \cap DOMAIN accounts' :
          /\ \A r \in accounts[u].roles \ accounts'[u].roles :
                \E e \in Edits : AsksToTake(e, u, r)
          /\ accounts'[u].enabled /\ ~accounts[u].enabled =>
                \/ \E e \in Edits : editing[e].at = "enabled" /\ editing[e].q.user = u
                                        /\ editing[e].q.enabled = TRUE
                \/ \E s \in Saves : saving[s].at = "email" /\ saving[s].user = u
                                        /\ saving[s].enabled = TRUE]_accounts
=============================================================================
