---------------------------- MODULE AccountsProofs ----------------------------
(***************************************************************************)
(* Proofs about Accounts and Profiles: names and aliases, sign-ups and     *)
(* their invites, what edits change, and the order in which an account and *)
(* its rows disappear.                                                     *)
(***************************************************************************)
EXTENDS Accounts, TLAPS

-----------------------------------------------------------------------------
(* What the requests of administrators leave alone.                        *)

LEMMA EditFrame ==
    ASSUME EditStep
    PROVE  /\ KeepForEdit
           /\ \/ UNCHANGED profileVars
              \/ \E e \in Edits : SetBadge(e) \/ \E s \in Saves : SetName(e, s)
           /\ UNCHANGED badges \/ \E e \in Edits : SetBadge(e)
<1>1. PICK e \in Edits :
          \/ \E q \in Requests : BeginEdit(e, q)
          \/ SetEnabled(e) \/ NameSet(e) \/ ReadRoles(e) \/ NameRoles(e) \/ RolesSet(e)
          \/ FailEdit(e) \/ \E r : AssignRole(e, r) \/ RemoveRole(e, r)
          \/ SetBadge(e) \/ \E s \in Saves : SetName(e, s)
  BY DEF EditStep
<1>2. CASE SetBadge(e) \/ \E s \in Saves : SetName(e, s)
  BY <1>2 DEF SetBadge, SetName
<1>3. CASE \/ \E q \in Requests : BeginEdit(e, q)
           \/ SetEnabled(e) \/ NameSet(e) \/ ReadRoles(e) \/ NameRoles(e) \/ RolesSet(e)
           \/ FailEdit(e) \/ \E r : AssignRole(e, r) \/ RemoveRole(e, r)
  <2>1. UNCHANGED <<profileVars, badges>> /\ KeepForEdit
    BY <1>3 DEF BeginEdit, SetEnabled, NameSet, ReadRoles, NameRoles, RolesSet, FailEdit,
       AssignRole, RemoveRole
  <2> QED
    BY <2>1
<1> QED
  BY <1>1, <1>2, <1>3

-----------------------------------------------------------------------------
(* Accounts, the signups that make them and the removals that end them.    *)

HasFields(F, record) == F \subseteq DOMAIN record

AccountFields == {"login", "enabled", "password", "roles"}

\* Keycloak gives an id out once, and has one account for a login.
AccountsHeld ==
    /\ DOMAIN accounts \subseteq DOMAIN made /\ DOMAIN made \subseteq Users
    /\ \A u \in DOMAIN accounts :
           HasFields(AccountFields, accounts[u]) /\ accounts[u].login = made[u]
    /\ \A u, v \in DOMAIN accounts : made[u] = made[v] => u = v

\* Whose rows have been or are about to be handed over is gone for good.
Gone(u) == u \in DOMAIN made \ DOMAIN accounts

GhostsHold ==
    /\ DOMAIN removing = Removals
    /\ \A u \in ghosts : Gone(u)
    /\ \A d \in Removals :
           /\ HasFields({"at"}, removing[d])
           /\ removing[d].at = "cleanup" => Gone(removing[d].user)

Own(record) == record.user = record.made \/ Gone(record.made)

SignupHolds(record) ==
    /\ HasFields({"at"}, record)
    /\ record.at # "idle" => HasFields({"login", "made", "user"}, record)
    /\ record.at \in {"find", "password", "role", "consume", "done"} =>
          record.made \in DOMAIN made /\ made[record.made] = record.login
    /\ record.at \in {"password", "role", "consume", "done"} => Own(record)

SignupsHold == DOMAIN signing = Signups /\ \A s \in Signups : SignupHolds(signing[s])

AccountsInv == AccountsHeld /\ GhostsHold /\ SignupsHold

\* Every step but the creation of an account keeps its login or deletes it.
AccountsKept ==
    /\ made' = made /\ DOMAIN accounts' \subseteq DOMAIN accounts
    /\ \A u \in DOMAIN accounts' :
           HasFields(AccountFields, accounts'[u]) /\ accounts'[u].login = accounts[u].login

AccountMade(u, n) ==
    /\ u \in Users \ DOMAIN made /\ TakenBy(n) = {}
    /\ made' = Put(made, u, n) /\ accounts' = Put(accounts, u, NewAccount(n))

LEMMA AccountsStep ==
    ASSUME AccountsHeld, [Next]_vars
    PROVE  AccountsKept \/ \E u, n : AccountMade(u, n)
<1>0. CASE UNCHANGED <<accounts, made>>
  BY <1>0 DEF AccountsKept, AccountsHeld
<1>1. CASE SettingStep
  BY <1>0, <1>1 DEF SettingStep, SetRegistration, CreateInvite, ExpireInvite, DeleteInvite,
     KeepAccounts, keycloakVars
<1>2. ASSUME NEW s \in Signups, SetPassword(s) PROVE AccountsKept
  BY <1>2 DEF SetPassword, AccountsKept, AccountsHeld, HasFields, AccountFields
<1>3. ASSUME NEW s \in Signups, GiveRole(s) PROVE AccountsKept
  BY <1>3 DEF GiveRole, AccountsKept, AccountsHeld, HasFields, AccountFields
<1>4. ASSUME NEW s \in Signups, CreateAccount(s) PROVE \E u, n : AccountMade(u, n)
  BY <1>4 DEF CreateAccount, AccountMade
<1>5. CASE SignupStep
  BY <1>0, <1>2, <1>3, <1>4, <1>5 DEF SignupStep, BeginSignup, RefuseLogin, FindAccount,
     ConsumeInvite, FailSignup, keycloakVars
<1>6. ASSUME NEW s \in Saves, WriteEmail(s) PROVE AccountsKept
  BY <1>6 DEF WriteEmail, AccountsKept, AccountsHeld, HasFields, AccountFields
<1>7. CASE ProfileStep
  BY <1>0, <1>6, <1>7 DEF ProfileStep, SaveOwnProfile, LoadForEmail, keycloakVars
<1>8. ASSUME NEW e \in Edits, SetEnabled(e) PROVE AccountsKept
  BY <1>8 DEF SetEnabled, KeepForEdit, AccountsKept, AccountsHeld, HasFields, AccountFields
<1>9. ASSUME NEW e \in Edits, NEW r, AssignRole(e, r) PROVE AccountsKept
  BY <1>9 DEF AssignRole, KeepForEdit, AccountsKept, AccountsHeld, HasFields, AccountFields
<1>10. ASSUME NEW e \in Edits, NEW r, RemoveRole(e, r) PROVE AccountsKept
  BY <1>10 DEF RemoveRole, KeepForEdit, AccountsKept, AccountsHeld, HasFields, AccountFields
<1>11. CASE EditStep
  BY <1>0, <1>8, <1>9, <1>10, <1>11 DEF EditStep, BeginEdit, SetBadge, SetName, NameSet,
     ReadRoles, NameRoles, RolesSet, FailEdit, KeepForEdit
<1>12. ASSUME NEW d \in Removals, NEW u \in Users, DeleteAccount(d, u) PROVE AccountsKept
  BY <1>12 DEF DeleteAccount, WithoutAccount, KeepForRemoval, AccountsKept, AccountsHeld
<1>13. CASE RemovalStep
  BY <1>0, <1>12, <1>13 DEF RemovalStep, CleanUp, KeepForRemoval
<1> QED
  BY <1>0, <1>1, <1>5, <1>7, <1>11, <1>13 DEF Next, vars

LEMMA AccountsHeldStep ==
    ASSUME AccountsHeld, AccountsKept \/ \E u, n : AccountMade(u, n)
    PROVE  AccountsHeld'
<1>1. CASE AccountsKept
  BY <1>1 DEF AccountsHeld, AccountsKept
<1>2. ASSUME NEW u, NEW n, AccountMade(u, n) PROVE AccountsHeld'
  <2>1. /\ DOMAIN accounts' = DOMAIN accounts \cup {u}
        /\ DOMAIN made' = DOMAIN made \cup {u}
        /\ \A v \in DOMAIN accounts : accounts'[v] = accounts[v] /\ made'[v] = made[v]
        /\ accounts'[u] = NewAccount(n) /\ made'[u] = n
    BY <1>2 DEF AccountMade, Put, AccountsHeld
  <2>2. \A v \in DOMAIN accounts : made[v] # n
    BY <1>2 DEF AccountMade, TakenBy, AccountsHeld
  <2>3. HasFields(AccountFields, NewAccount(n)) /\ NewAccount(n).login = n
    BY DEF HasFields, AccountFields, NewAccount
  <2>4. \A v \in DOMAIN accounts' :
            HasFields(AccountFields, accounts'[v]) /\ accounts'[v].login = made'[v]
    BY <2>1, <2>3 DEF AccountsHeld
  <2>5. \A v, w \in DOMAIN accounts' : made'[v] = made'[w] => v = w
    BY <2>1, <2>2 DEF AccountsHeld
  <2> QED
    BY <1>2, <2>1, <2>4, <2>5 DEF AccountsHeld, AccountMade
<1> QED
  BY <1>1, <1>2

LEMMA MadeStays ==
    ASSUME AccountsHeld, AccountsKept \/ \E u, n : AccountMade(u, n)
    PROVE  /\ \A u : Gone(u) => Gone(u)'
           /\ \A u \in DOMAIN made : u \in DOMAIN made' /\ made'[u] = made[u]
<1>1. CASE AccountsKept
  BY <1>1 DEF AccountsKept, Gone
<1>2. ASSUME NEW v, NEW n, AccountMade(v, n)
      PROVE  /\ \A u : Gone(u) => Gone(u)'
             /\ \A u \in DOMAIN made : u \in DOMAIN made' /\ made'[u] = made[u]
  BY <1>2 DEF AccountMade, Gone, Put
<1> QED
  BY <1>1, <1>2

LEMMA GhostsHoldStep ==
    ASSUME AccountsInv, [Next]_vars, \A u : Gone(u) => Gone(u)'
    PROVE  GhostsHold'
<1>1. CASE UNCHANGED <<ghosts, removing>>
  BY <1>1 DEF AccountsInv, GhostsHold
<1>2. ASSUME NEW d \in Removals, NEW u \in Users, DeleteAccount(d, u) PROVE GhostsHold'
  <2>1. ghosts' = ghosts /\ made' = made
    BY <1>2 DEF DeleteAccount, KeepForRemoval
  <2>2. PICK at : /\ removing' = [removing EXCEPT ![d] = [at |-> at, user |-> u]]
                  /\ at = "cleanup" => Gone(u)'
    <3>1. CASE u \in DOMAIN accounts /\ accounts' = WithoutAccount(u)
      BY <1>2, <2>1, <3>1 DEF DeleteAccount, WithoutAccount, Gone
    <3>2. CASE removing' = [removing EXCEPT ![d] = [at |-> "failed", user |-> u]]
      <4> WITNESS "failed"
      <4> QED
        BY <3>2
    <3> QED
      BY <1>2, <3>1, <3>2 DEF DeleteAccount
  <2>3. /\ DOMAIN removing' = Removals /\ removing'[d] = [at |-> at, user |-> u]
        /\ \A c \in Removals \ {d} : removing'[c] = removing[c]
    BY <2>2 DEF AccountsInv, GhostsHold
  <2>4. HasFields({"at"}, [at |-> at, user |-> u])
    BY DEF HasFields
  <2> QED
    BY <2>1, <2>2, <2>3, <2>4 DEF AccountsInv, GhostsHold
<1>3. ASSUME NEW d \in Removals, CleanUp(d) PROVE GhostsHold'
  <2>1. Gone(removing[d].user)
    BY <1>3 DEF CleanUp, AccountsInv, GhostsHold
  <2>2. ghosts' \subseteq ghosts \cup {removing[d].user}
    BY <1>3 DEF CleanUp
  <2>3. PICK at \in {"done", "failed"} : removing' = [removing EXCEPT ![d].at = at]
    BY <1>3 DEF CleanUp
  <2>4. /\ DOMAIN removing' = Removals /\ removing'[d].at = at
        /\ HasFields({"at"}, removing'[d])
        /\ \A c \in Removals \ {d} : removing'[c] = removing[c]
    BY <2>3 DEF AccountsInv, GhostsHold, HasFields
  <2> QED
    BY <2>1, <2>2, <2>3, <2>4 DEF AccountsInv, GhostsHold
<1>4. CASE SettingStep
  BY <1>1, <1>4 DEF SettingStep, SetRegistration, CreateInvite, ExpireInvite, DeleteInvite,
     KeepAccounts, callVars
<1>5. CASE SignupStep
  BY <1>1, <1>5 DEF SignupStep, BeginSignup, CreateAccount, RefuseLogin, FindAccount,
     SetPassword, GiveRole, ConsumeInvite, FailSignup, KeepForSignup
<1>6. CASE ProfileStep
  BY <1>1, <1>6 DEF ProfileStep, SaveOwnProfile, LoadForEmail, WriteEmail, KeepForProfile,
     callVars
<1>7. CASE EditStep
  BY <1>1, <1>7, EditFrame DEF KeepForEdit
<1>8. CASE RemovalStep
  BY <1>2, <1>3, <1>8 DEF RemovalStep
<1> QED
  BY <1>1, <1>4, <1>5, <1>6, <1>7, <1>8 DEF Next, vars

\* A step of signup s that leaves its record valid leaves the others valid.
LEMMA OneSignupStep ==
    ASSUME SignupsHold, NEW s \in Signups, DOMAIN signing' = Signups,
           \A r \in Signups \ {s} : signing'[r] = signing[r], SignupHolds(signing[s])',
           \A u : Gone(u) => Gone(u)',
           \A u \in DOMAIN made : u \in DOMAIN made' /\ made'[u] = made[u]
    PROVE  SignupsHold'
<1>1. ASSUME NEW r \in Signups \ {s} PROVE SignupHolds(signing[r])'
  <2>1. signing'[r] = signing[r] /\ SignupHolds(signing[r])
    BY DEF SignupsHold
  <2> QED
    BY <2>1 DEF SignupHolds, Own
<1> QED
  BY <1>1 DEF SignupsHold

LEMMA SignupsHoldStep ==
    ASSUME AccountsInv, [Next]_vars,
           AccountsKept \/ \E u, n : AccountMade(u, n)
    PROVE  SignupsHold'
<1>0. /\ \A u : Gone(u) => Gone(u)'
      /\ \A u \in DOMAIN made : u \in DOMAIN made' /\ made'[u] = made[u]
  BY MadeStays DEF AccountsInv
<1>1. CASE UNCHANGED signing
  BY <1>0, <1>1 DEF AccountsInv, SignupsHold, SignupHolds, Own
<1>2. ASSUME NEW s \in Signups, NEW at, Go(s, at),
             signing[s].at \in {"create", "find", "password", "role", "consume"},
             \/ at \in {"refused", "failed"}
             \/ signing[s].at \in {"password", "role", "consume"} /\ at \in {"role", "consume", "done"}
      PROVE  SignupsHold'
  <2>1. /\ signing'[s] = [signing[s] EXCEPT !.at = at] /\ DOMAIN signing' = Signups
        /\ \A r \in Signups \ {s} : signing'[r] = signing[r]
    BY <1>2 DEF Go, AccountsInv, SignupsHold
  <2>2. SignupHolds(signing[s])
    BY DEF AccountsInv, SignupsHold
  <2>3. /\ signing'[s].at = at /\ signing'[s].login = signing[s].login
        /\ signing'[s].made = signing[s].made /\ signing'[s].user = signing[s].user
        /\ HasFields({"at", "login", "made", "user"}, signing'[s])
    BY <1>2, <2>1, <2>2 DEF SignupHolds, HasFields
  <2>4. SignupHolds(signing[s])'
    BY <1>0, <1>2, <2>2, <2>3 DEF SignupHolds, Own, HasFields
  <2> QED
    BY <1>0, <2>1, <2>4, OneSignupStep DEF AccountsInv
<1>3. ASSUME NEW s \in Signups, NEW n, NEW i, BeginSignup(s, n, i) PROVE SignupsHold'
  <2>1. /\ signing'[s] =
              [at |-> "create", login |-> n, invite |-> i, made |-> None, user |-> None,
               seen |-> {r \in Signups : signing[r].at = "done"}]
        /\ DOMAIN signing' = Signups
        /\ \A r \in Signups \ {s} : signing'[r] = signing[r]
    BY <1>3 DEF BeginSignup, AccountsInv, SignupsHold
  <2>2. signing'[s].at = "create" /\ HasFields({"at", "login", "made", "user"}, signing'[s])
    BY <2>1 DEF HasFields
  <2>3. SignupHolds(signing[s])'
    BY <2>2 DEF SignupHolds, HasFields
  <2> QED
    BY <1>0, <2>1, <2>3, OneSignupStep DEF AccountsInv
<1>4. ASSUME NEW s \in Signups, CreateAccount(s) PROVE SignupsHold'
  <2>1. PICK u \in Users \ DOMAIN made, at \in {"find", "failed"} :
            /\ made' = Put(made, u, signing[s].login)
            /\ signing' = [signing EXCEPT ![s].at = at, ![s].made = u]
    BY <1>4 DEF CreateAccount, Answered
  <2>2. /\ signing'[s] = [signing[s] EXCEPT !.at = at, !.made = u]
        /\ DOMAIN signing' = Signups
        /\ \A r \in Signups \ {s} : signing'[r] = signing[r]
    BY <2>1 DEF AccountsInv, SignupsHold
  <2>3. SignupHolds(signing[s]) /\ signing[s].at = "create"
    BY <1>4 DEF AccountsInv, SignupsHold, CreateAccount
  <2>4. /\ signing'[s].at = at /\ signing'[s].login = signing[s].login
        /\ signing'[s].made = u
        /\ HasFields({"at", "login", "made", "user"}, signing'[s])
    BY <2>2, <2>3 DEF SignupHolds, HasFields
  <2>5. u \in DOMAIN made' /\ made'[u] = signing[s].login
    BY <2>1 DEF Put
  <2>6. SignupHolds(signing[s])'
    BY <2>4, <2>5 DEF SignupHolds, HasFields
  <2> QED
    BY <1>0, <2>2, <2>6, OneSignupStep DEF AccountsInv
<1>5. ASSUME NEW s \in Signups, FindAccount(s) PROVE SignupsHold'
  <2>1. PICK u \in TakenBy(signing[s].login) :
            signing' = [signing EXCEPT ![s].at = "password", ![s].user = u]
    BY <1>5 DEF FindAccount
  <2>2. /\ signing'[s] = [signing[s] EXCEPT !.at = "password", !.user = u]
        /\ DOMAIN signing' = Signups
        /\ \A r \in Signups \ {s} : signing'[r] = signing[r]
    BY <2>1 DEF AccountsInv, SignupsHold
  <2>3. SignupHolds(signing[s]) /\ signing[s].at = "find"
    BY <1>5 DEF AccountsInv, SignupsHold, FindAccount
  <2>4. /\ signing'[s].at = "password" /\ signing'[s].login = signing[s].login
        /\ signing'[s].made = signing[s].made /\ signing'[s].user = u
        /\ HasFields({"at", "login", "made", "user"}, signing'[s])
    BY <2>2, <2>3 DEF SignupHolds, HasFields
  <2>5. signing[s].made \in DOMAIN made /\ made[signing[s].made] = signing[s].login
    BY <2>3 DEF SignupHolds
  <2>6. u = signing[s].made \/ Gone(signing[s].made)
    BY <2>1, <2>5 DEF Gone, TakenBy, AccountsInv, AccountsHeld
  <2>7. Own(signing[s])'
    BY <1>0, <2>4, <2>6 DEF Own
  <2>8. SignupHolds(signing[s])'
    BY <1>0, <2>4, <2>5, <2>7 DEF SignupHolds, HasFields
  <2> QED
    BY <1>0, <2>2, <2>8, OneSignupStep DEF AccountsInv
<1>6. ASSUME NEW s \in Signups,
             \/ RefuseLogin(s) \/ SetPassword(s) \/ GiveRole(s) \/ ConsumeInvite(s)
             \/ FailSignup(s)
      PROVE  SignupsHold'
  <2>1. CASE RefuseLogin(s)
    BY <1>2, <2>1 DEF RefuseLogin
  <2>2. CASE SetPassword(s)
    BY <1>2, <2>2 DEF SetPassword, Answered
  <2>3. CASE GiveRole(s)
    BY <1>2, <2>3 DEF GiveRole, Answered
  <2>4. CASE ConsumeInvite(s)
    BY <1>2, <2>4 DEF ConsumeInvite
  <2>5. CASE FailSignup(s)
    BY <1>2, <2>5 DEF FailSignup
  <2> QED
    BY <1>6, <2>1, <2>2, <2>3, <2>4, <2>5
<1>7. CASE SignupStep
  BY <1>3, <1>4, <1>5, <1>6, <1>7 DEF SignupStep
<1>8. CASE SettingStep \/ ProfileStep \/ EditStep \/ RemovalStep
  <2>1. CASE SettingStep
    BY <1>1, <2>1 DEF SettingStep, SetRegistration, CreateInvite, ExpireInvite, DeleteInvite,
       KeepAccounts, callVars
  <2>2. CASE ProfileStep
    BY <1>1, <2>2 DEF ProfileStep, SaveOwnProfile, LoadForEmail, WriteEmail, KeepForProfile,
       callVars
  <2>3. CASE EditStep
    BY <1>1, <2>3, EditFrame DEF KeepForEdit
  <2>4. CASE RemovalStep
    BY <1>1, <2>4 DEF RemovalStep, DeleteAccount, CleanUp, KeepForRemoval
  <2> QED
    BY <1>8, <2>1, <2>2, <2>3, <2>4
<1> QED
  BY <1>1, <1>7, <1>8 DEF Next, vars

LEMMA AccountsInvariant == Spec => []AccountsInv
<1>1. Init => AccountsInv
  BY DEF Init, AccountsInv, AccountsHeld, GhostsHold, SignupsHold, SignupHolds, HasFields
<1>2. AccountsInv /\ [Next]_vars => AccountsInv'
  <2> SUFFICES ASSUME AccountsInv, [Next]_vars PROVE AccountsInv'
    OBVIOUS
  <2>1. AccountsKept \/ \E u, n : AccountMade(u, n)
    BY AccountsStep DEF AccountsInv
  <2>2. AccountsHeld' /\ \A u : Gone(u) => Gone(u)'
    BY <2>1, AccountsHeldStep, MadeStays DEF AccountsInv
  <2> QED
    BY <2>1, <2>2, GhostsHoldStep, SignupsHoldStep DEF AccountsInv
<1> QED
  BY <1>1, <1>2, PTL DEF Spec

\* Whichever call to Keycloak or the database fails, no user whose rows a
\* placeholder owns has an account.
THEOREM NoAccountBehindGhost == Spec => []GhostsAreGone
<1>1. AccountsInv => GhostsAreGone
  BY DEF AccountsInv, GhostsHold, Gone, GhostsAreGone
<1> QED
  BY AccountsInvariant, <1>1, PTL

\* The account a signup goes on with is the one it has made, for any number of
\* signups, edits and deletions at the same time.
THEOREM SignupsWorkOnTheirOwn == Spec => []SignupOwnsAccount
<1>1. AccountsInv => SignupOwnsAccount
  <2> SUFFICES ASSUME AccountsInv, NEW s \in Signups,
                      signing[s].at \in {"password", "role", "consume", "done"}
               PROVE  \/ signing[s].user = signing[s].made
                      \/ signing[s].made # None /\ signing[s].made \notin DOMAIN accounts
    BY DEF SignupOwnsAccount
  <2>1. Own(signing[s])
    BY DEF AccountsInv, SignupsHold, SignupHolds
  <2>2. None \notin DOMAIN made
    BY AccountsAssumption DEF AccountsInv, AccountsHeld
  <2> QED
    BY <2>1, <2>2 DEF Own, Gone
<1> QED
  BY AccountsInvariant, <1>1, PTL
-----------------------------------------------------------------------------
(* Types.                                                                  *)

NamesOrBlank == Names \cup {Blank}
Roles == Hierarchy \cup {"extra"}

SaveTyped(n) ==
    /\ n.at \in SaveStages \cup {"email", "done"}
    /\ n.at \in {"lookup", "insert", "commit", "saved"} =>
          n.user \in Users /\ n.name \in NamesOrBlank
    /\ n.at \in {"insert", "commit"} => n.prev \in NamesOrBlank
    /\ n.at = "email" => n.enabled \in BOOLEAN

SavesTyped ==
    DOMAIN saving = Saves /\ NamesTyped /\ \A s \in Saves : SaveTyped(saving[s])

InvitesTyped ==
    /\ open \in BOOLEAN /\ issued \subseteq Invites
    /\ DOMAIN invites \subseteq issued
    /\ \A i \in DOMAIN invites :
           invites[i] \in [usedBy : Users \cup {None}, expired : BOOLEAN]

KeycloakTyped ==
    /\ \A u \in DOMAIN made : made[u] \in Logins
    /\ \A u \in DOMAIN accounts : accounts[u] \in AccountType

SignupStages ==
    {"idle", "create", "find", "password", "role", "consume", "done", "refused", "failed"}

SignupTyped(n) ==
    /\ n.at \in SignupStages
    /\ n.at # "idle" =>
          /\ HasFields({"at", "login", "invite", "made", "user", "seen"}, n)
          /\ n.login \in Logins /\ n.invite \in Invites \cup {None}
    /\ n.at \in {"create", "find"} => n.user = None
    /\ n.at \in {"password", "role", "consume", "done"} => n.user \in Users

SignupsTyped == \A s \in Signups : SignupTyped(signing[s])

\* A stage of an edit is one its request asks for.
Stages == {StageNames[k] : k \in 1 .. 7}
Wants(q, stage) ==
    /\ stage = "enabled" => q.enabled # Keep
    /\ stage = "badge" => q.badge # Keep
    /\ stage = "name" => q.name # Keep
    /\ stage = "top" => q.top # Keep
    /\ stage = "set" => q.set # Keep

\* A role is taken away because the request asks for it.
Unwanted(q, r) ==
    \/ q.top # Keep /\ r \in Hierarchy \ ManagedRoles(q.top)
    \/ q.set # Keep /\ r \notin q.set
    \/ r \in q.remove

EditTyped(n) ==
    /\ HasFields({"at", "save"}, n)
    /\ n.at \in Stages \cup {"idle", "naming", "roles", "done", "failed"}
    /\ n.at # "idle" =>
          /\ HasFields({"q", "then", "adds", "drops"}, n)
          /\ n.q \in Requests /\ Wants(n.q, n.at)
    /\ n.at = "roles" =>
          /\ n.then \in Stages \cup {"done"} /\ Wants(n.q, n.then)
          /\ n.adds \subseteq Roles
          /\ \A r \in n.drops : Unwanted(n.q, r)

EditsTyped ==
    /\ DOMAIN editing = Edits
    /\ \A e \in Edits : EditTyped(editing[e])

RemovalsTyped ==
    /\ badges \subseteq Users /\ ghosts \subseteq Users
    /\ \A d \in Removals :
           /\ removing[d].at \in {"idle", "cleanup", "done", "failed"}
           /\ removing[d].at = "cleanup" => removing[d].user \in Users

TypeInv ==
    /\ SavesTyped /\ InvitesTyped /\ KeycloakTyped /\ SignupsTyped /\ EditsTyped
    /\ RemovalsTyped

LEMMA TypeInvInit == Init => TypeInv
<1> SUFFICES ASSUME Init PROVE TypeInv
  OBVIOUS
<1>1. SavesTyped
  BY DEF Init, ProfilesInit, SavesTyped, NamesTyped, SaveTyped, SaveStages
<1>2. InvitesTyped /\ KeycloakTyped /\ RemovalsTyped
  BY DEF Init, InvitesTyped, KeycloakTyped, RemovalsTyped
<1>3. SignupsTyped
  BY DEF Init, SignupsTyped, SignupTyped, SignupStages
<1>4. EditsTyped
  <2>1. \A e \in Edits : editing[e] = [at |-> "idle", save |-> None]
    BY DEF Init
  <2>2. HasFields({"at", "save"}, [at |-> "idle", save |-> None])
    BY DEF HasFields
  <2> QED
    BY <2>1, <2>2 DEF Init, EditsTyped, EditTyped
<1> QED
  BY <1>1, <1>2, <1>3, <1>4 DEF TypeInv

\* Which steps change what.
LEMMA Frames ==
    ASSUME [Next]_vars
    PROVE  /\ UNCHANGED profileVars \/ ProfileStep \/ RemovalStep \/ EditStep
           /\ UNCHANGED inviteVars \/ SettingStep \/ SignupStep
           /\ UNCHANGED signing \/ SignupStep
           /\ UNCHANGED editing \/ EditStep
           /\ UNCHANGED <<badges, ghosts, removing>> \/ EditStep \/ RemovalStep
           /\ UNCHANGED keycloakVars \/ SignupStep \/ ProfileStep \/ EditStep \/ RemovalStep
<1>1. CASE SettingStep
  BY <1>1 DEF SettingStep, SetRegistration, CreateInvite, ExpireInvite, DeleteInvite,
     KeepAccounts, callVars
<1>2. CASE SignupStep
  BY <1>2 DEF SignupStep, BeginSignup, CreateAccount, RefuseLogin, FindAccount,
     SetPassword, GiveRole, ConsumeInvite, FailSignup, KeepForSignup
<1>3. CASE ProfileStep
  BY <1>3 DEF ProfileStep, SaveOwnProfile, LoadForEmail, WriteEmail, KeepForProfile,
     callVars
<1>4. CASE EditStep
  BY <1>4, EditFrame DEF KeepForEdit
<1>5. CASE RemovalStep
  BY <1>5 DEF RemovalStep, DeleteAccount, CleanUp, KeepForRemoval
<1>6. CASE UNCHANGED vars
  BY <1>6 DEF vars, profileVars, inviteVars, keycloakVars
<1> QED
  BY <1>1, <1>2, <1>3, <1>4, <1>5, <1>6 DEF Next

\* The stage after another is one that is asked for.
LEMMA NextStageIsAsked ==
    ASSUME NEW q, NEW k \in 0 .. 7
    PROVE  LET next == StageAfter(q, k)
           IN  next \in Stages \cup {"done"} /\ Wants(q, next)
<1> DEFINE later == {j \in Asked(q) : j > k}
           least == CHOOSE j \in later : \A i \in later : j <= i
<1>1. CASE later = {}
  BY <1>1 DEF StageAfter, Wants
<1>2. CASE later # {}
  <2>1. later \subseteq 1 .. 7
    BY DEF Asked
  <2>2. \E j \in later : \A i \in later : j <= i
    <3> HIDE DEF later
    <3>1. 1 \in later \/ 2 \in later \/ 3 \in later \/ 4 \in later \/ 5 \in later
              \/ 6 \in later \/ 7 \in later
      <4>1. PICK j \in later : j \in 1 .. 7
        BY <1>2, <2>1
      <4>2. j = 1 \/ j = 2 \/ j = 3 \/ j = 4 \/ j = 5 \/ j = 6 \/ j = 7
        BY <4>1
      <4> QED
        BY <4>1, <4>2
    <3> QED
      BY <2>1, <3>1
  <2>3. least \in later
    <3> HIDE DEF later
    <3> QED
      BY <2>2
  <2>4. least \in Asked(q) /\ least \in 1 .. 7
    BY <2>1, <2>3
  <2>5. StageAfter(q, k) = StageNames[least]
    BY <1>2 DEF StageAfter
  <2> HIDE DEF later, least
  <2>6. PICK j \in 1 .. 7 : j = least
    BY <2>4
  <2>7. Wants(q, StageNames[j])
    BY <2>4, <2>6 DEF Asked, StageNames, Wants
  <2> QED
    BY <2>4, <2>5, <2>6, <2>7 DEF Stages
<1> QED
  BY <1>1, <1>2
LEMMA OneSaveTyped ==
    ASSUME SavesTyped, NEW s \in Saves, NEW n, SaveTyped(n),
           saving' = [saving EXCEPT ![s] = n], NamesTyped'
    PROVE  SavesTyped'
<1>1. /\ DOMAIN saving' = Saves
      /\ \A r \in Saves : saving'[r] = IF r = s THEN n ELSE saving[r]
  BY DEF SavesTyped
<1> QED
  BY <1>1 DEF SavesTyped, SaveTyped

LEMMA BeginSaveTyped ==
    ASSUME SavesTyped, NEW s \in Saves, NEW u \in Users,
           NEW n \in NamesOrBlank, NEW admin, BeginSave(s, u, n, admin)
    PROVE  SavesTyped'
<1> DEFINE record == IF MayRename(u, n, admin)
                     THEN [at |-> "lookup", user |-> u, name |-> n]
                     ELSE [at |-> "refused", user |-> u, name |-> n]
<1>1. saving' = [saving EXCEPT ![s] = record] /\ UNCHANGED <<names, cooling, aliases, outraced>>
  BY DEF BeginSave
<1>2. SaveTyped(record)
  BY DEF SaveTyped, SaveStages
<1>3. NamesTyped'
  BY <1>1 DEF SavesTyped, NamesTyped
<1> HIDE DEF record
<1> QED
  BY <1>1, <1>2, <1>3, OneSaveTyped

LEMMA CommitTyped ==
    ASSUME SavesTyped, NEW s \in Saves, CommitSave(s)
    PROVE  SavesTyped'
<1> DEFINE u == saving[s].user
           n == saving[s].name
           claims == FormerNames(s) \cup (IF Claimed(s) THEN {n} ELSE {})
<1>1. u \in Users /\ n \in NamesOrBlank /\ saving[s].prev \in NamesOrBlank
  BY DEF CommitSave, SavesTyped, SaveTyped
<1>2. SaveTyped([at |-> "saved", user |-> u, name |-> n])
  BY <1>1 DEF SaveTyped, SaveStages
<1>3. claims \subseteq Names
  BY <1>1 DEF FormerNames, Claimed, NamesOrBlank
<1>4. DOMAIN aliases' \subseteq Names /\ aliases' \in [DOMAIN aliases' -> Users]
  <2>1. aliases' = [x \in DOMAIN aliases \cup claims |-> IF x \in claims THEN u ELSE aliases[x]]
    BY DEF CommitSave
  <2> HIDE DEF claims, u
  <2> QED
    BY <1>1, <1>3, <2>1 DEF SavesTyped, NamesTyped
<1>5. /\ DOMAIN names' \subseteq Users \cup Placeholders
      /\ names' \in [DOMAIN names' -> NamesOrBlank]
  <2>1. names' = Put(names, u, n)
    BY DEF CommitSave
  <2> HIDE DEF u, n
  <2> QED
    BY <1>1, <2>1 DEF SavesTyped, NamesTyped, Put, NamesOrBlank
<1>6. cooling' \subseteq Users /\ outraced' \subseteq Users
  BY <1>1 DEF CommitSave, SavesTyped, NamesTyped
<1>7. saving' = [saving EXCEPT ![s] = [at |-> "saved", user |-> u, name |-> n]]
  BY DEF CommitSave
<1> HIDE DEF u, n
<1> QED
  BY <1>2, <1>4, <1>5, <1>6, <1>7, OneSaveTyped DEF NamesTyped, NamesOrBlank

\* The transaction of a save, but for its commit.
LEMMA SavingTyped ==
    ASSUME SavesTyped, NEW s \in Saves,
           LookUpAlias(s) \/ InsertAlias(s) \/ AbortSave(s)
    PROVE  SavesTyped'
<1>1. NamesTyped'
  BY DEF LookUpAlias, InsertAlias, AbortSave, SavesTyped, NamesTyped
<1>2. NameOf(saving[s].user) \in NamesOrBlank
  BY DEF NameOf, SavesTyped, NamesTyped, NamesOrBlank
<1>3. /\ saving[s].at \in {"lookup", "insert", "commit"}
      /\ saving[s].user \in Users /\ saving[s].name \in NamesOrBlank
  BY DEF LookUpAlias, InsertAlias, AbortSave, SavesTyped, SaveTyped
<1>4. saving[s].at = "insert" => saving[s].prev \in NamesOrBlank
  BY DEF SavesTyped, SaveTyped
<1>5. PICK n : saving' = [saving EXCEPT ![s] = n] /\ SaveTyped(n)
  <2>1. CASE LookUpAlias(s)
    <3> DEFINE u == saving[s].user
               m == saving[s].name
               taken == m \in DOMAIN aliases /\ aliases[m] # u
               n == [at |-> IF taken THEN "refused" ELSE "insert", user |-> u, name |-> m,
                     prev |-> NameOf(u), free |-> m \notin DOMAIN aliases]
    <3>1. saving' = [saving EXCEPT ![s] = n]
      BY <2>1 DEF LookUpAlias
    <3>2. SaveTyped(n)
      <4>1. n.at \in {"refused", "insert"} /\ n.user = u /\ n.name = m /\ n.prev = NameOf(u)
        OBVIOUS
      <4> HIDE DEF n
      <4> QED
        BY <1>2, <1>3, <4>1 DEF SaveTyped, SaveStages
    <3> HIDE DEF n
    <3> QED
      BY <3>1, <3>2
  <2>2. CASE InsertAlias(s)
    <3> DEFINE m == saving[s].name
               n == [at |-> "commit", user |-> saving[s].user, name |-> m,
                     prev |-> saving[s].prev, free |-> saving[s].free,
                     mine |-> m \in DOMAIN aliases => aliases[m] = saving[s].user]
    <3>1. saving' = [saving EXCEPT ![s] = n]
      BY <2>2 DEF InsertAlias
    <3>2. SaveTyped(n)
      <4>1. n.at = "commit" /\ n.user = saving[s].user /\ n.name = m /\ n.prev = saving[s].prev
        OBVIOUS
      <4>2. saving[s].at = "insert"
        BY <2>2 DEF InsertAlias
      <4> HIDE DEF n
      <4> QED
        BY <1>3, <1>4, <4>1, <4>2 DEF SaveTyped, SaveStages
    <3> HIDE DEF n
    <3> QED
      BY <3>1, <3>2
  <2>3. CASE AbortSave(s)
    <3> DEFINE n == [at |-> "refused", user |-> saving[s].user, name |-> saving[s].name]
    <3>1. saving' = [saving EXCEPT ![s] = n] /\ SaveTyped(n)
      BY <2>3 DEF AbortSave, SaveTyped, SaveStages
    <3> HIDE DEF n
    <3> QED
      BY <3>1
  <2> QED
    BY <2>1, <2>2, <2>3
<1> QED
  BY <1>1, <1>5, OneSaveTyped

LEMMA EmailTyped ==
    ASSUME SavesTyped, KeycloakTyped, NEW s \in Saves,
           LoadForEmail(s) \/ WriteEmail(s)
    PROVE  SavesTyped'
<1>1. NamesTyped'
  BY DEF LoadForEmail, WriteEmail, SavesTyped, NamesTyped
<1>2. CASE LoadForEmail(s)
  <2>1. PICK u \in TakenBy(made[saving[s].user]) :
            saving' = [saving EXCEPT ![s] =
               [at |-> "email", user |-> u, enabled |-> accounts[u].enabled]]
    BY <1>2 DEF LoadForEmail
  <2>2. accounts[u].enabled \in BOOLEAN
    BY <2>1 DEF KeycloakTyped, AccountType, TakenBy
  <2>3. SaveTyped([at |-> "email", user |-> u, enabled |-> accounts[u].enabled])
    BY <2>2 DEF SaveTyped
  <2> QED
    BY <1>1, <2>1, <2>3, OneSaveTyped
<1>3. CASE WriteEmail(s)
  <2>1. SaveTyped([at |-> "done", user |-> saving[s].user])
    BY DEF SaveTyped
  <2>2. saving' = [saving EXCEPT ![s] = [at |-> "done", user |-> saving[s].user]]
    BY <1>3 DEF WriteEmail
  <2> QED
    BY <1>1, <2>1, <2>2, OneSaveTyped
<1> QED
  BY <1>2, <1>3

\* The other changes of the table of profiles
LEMMA ProfilesTyped ==
    ASSUME SavesTyped, NEW u \in Users, CoolDown(u) \/ TouchProfile(u) \/ RemoveProfile(u)
    PROVE  SavesTyped'
<1>1. UNCHANGED <<aliases, saving>> /\ cooling' \subseteq cooling /\ outraced' \subseteq outraced
  BY DEF CoolDown, TouchProfile, RemoveProfile
<1>2. NameOf(u) \in NamesOrBlank
  BY DEF NameOf, SavesTyped, NamesTyped, NamesOrBlank
<1>3. /\ DOMAIN names' \subseteq Users \cup Placeholders
      /\ names' \in [DOMAIN names' -> NamesOrBlank]
  <2>1. CASE CoolDown(u)
    BY <2>1 DEF CoolDown, SavesTyped, NamesTyped, NamesOrBlank
  <2>2. CASE TouchProfile(u)
    BY <1>2, <2>2 DEF TouchProfile, Put, SavesTyped, NamesTyped, NamesOrBlank
  <2>3. CASE RemoveProfile(u)
    <3>1. Placeholder(u) \in Placeholders /\ DeletedName \in NamesOrBlank
      BY ProfilesAssumption DEF Placeholders, NamesOrBlank
    <3>2. names' = [x \in (DOMAIN names \ {u}) \cup {Placeholder(u)} |->
                       IF x = Placeholder(u) THEN DeletedName ELSE names[x]]
      BY <2>3 DEF RemoveProfile
    <3> QED
      BY <3>1, <3>2 DEF SavesTyped, NamesTyped, NamesOrBlank
  <2> QED
    BY <2>1, <2>2, <2>3
<1> QED
  BY <1>1, <1>3 DEF SavesTyped, NamesTyped, NamesOrBlank, SaveTyped

LEMMA SavesTypedStep ==
    ASSUME TypeInv, [Next]_vars
    PROVE  SavesTyped'
<1>0. SavesTyped /\ KeycloakTyped
  BY DEF TypeInv
<1>1. CASE UNCHANGED profileVars
  BY <1>0, <1>1 DEF profileVars, SavesTyped, NamesTyped, SaveTyped
<1>2. CASE ProfileStep
  <2>1. ASSUME NEW s \in Saves, NEW u \in Users, NEW n \in NamesOrBlank, SaveOwnProfile(s, u, n)
        PROVE  SavesTyped'
    BY <1>0, <2>1, BeginSaveTyped DEF SaveOwnProfile
  <2> QED
    BY <1>0, <1>2, <2>1, SavingTyped, CommitTyped, EmailTyped, ProfilesTyped
    DEF ProfileStep, SaveStep, NamesOrBlank
<1>3. CASE EditStep
  <2>1. ASSUME NEW e \in Edits, EditTyped(editing[e]), editing[e].at # "idle"
        PROVE  editing[e].q \in RequestType
    BY <2>1, AccountsAssumption DEF EditTyped
  <2>2. ASSUME NEW e \in Edits, SetBadge(e) PROVE SavesTyped'
    <3>1. editing[e].q.user \in Users
      BY <2>1, <2>2 DEF SetBadge, TypeInv, EditsTyped, RequestType
    <3> QED
      BY <1>0, <2>2, <3>1, ProfilesTyped DEF SetBadge
  <2>3. ASSUME NEW e \in Edits, NEW s \in Saves, SetName(e, s) PROVE SavesTyped'
    <3>1. EditTyped(editing[e]) /\ editing[e].at = "name" /\ Wants(editing[e].q, "name")
      BY <2>3 DEF SetName, TypeInv, EditsTyped, EditTyped
    <3>2. editing[e].q.user \in Users /\ editing[e].q.name \in NamesOrBlank
      BY <2>1, <3>1 DEF RequestType, Wants, NamesOrBlank
    <3> QED
      BY <1>0, <2>3, <3>2, BeginSaveTyped DEF SetName
  <2> QED
    BY <1>1, <1>3, <2>2, <2>3 DEF EditStep, BeginEdit, SetEnabled, NameSet, ReadRoles,
       NameRoles, AssignRole, RemoveRole, RolesSet, FailEdit
<1>4. CASE RemovalStep
  <2>1. ASSUME NEW d \in Removals, CleanUp(d) PROVE SavesTyped'
    <3>1. removing[d].user \in Users
      BY <2>1 DEF CleanUp, TypeInv, RemovalsTyped
    <3> QED
      BY <1>0, <1>1, <2>1, <3>1, ProfilesTyped DEF CleanUp
  <2> QED
    BY <1>1, <1>4, <2>1 DEF RemovalStep, DeleteAccount
<1> QED
  BY <1>1, <1>2, <1>3, <1>4, Frames
LEMMA InvitesTypedStep ==
    ASSUME TypeInv, [Next]_vars
    PROVE  InvitesTyped'
<1>0. InvitesTyped
  BY DEF TypeInv
<1>1. CASE UNCHANGED inviteVars
  BY <1>0, <1>1 DEF inviteVars, InvitesTyped
<1>2. CASE SettingStep
  <2>1. ASSUME NEW i \in Invites, CreateInvite(i) \/ ExpireInvite(i) \/ DeleteInvite(i)
        PROVE  InvitesTyped'
    <3>1. CASE CreateInvite(i)
      <4>1. [usedBy |-> None, expired |-> FALSE] \in [usedBy : Users \cup {None}, expired : BOOLEAN]
        OBVIOUS
      <4> QED
        BY <1>0, <3>1, <4>1 DEF CreateInvite, Put, InvitesTyped
    <3>2. CASE ExpireInvite(i)
      <4>1. [invites[i] EXCEPT !.expired = TRUE] \in [usedBy : Users \cup {None}, expired : BOOLEAN]
        BY <1>0, <3>2 DEF ExpireInvite, InvitesTyped
      <4> QED
        BY <1>0, <3>2, <4>1 DEF ExpireInvite, InvitesTyped
    <3>3. CASE DeleteInvite(i)
      BY <1>0, <3>3 DEF DeleteInvite, InvitesTyped
    <3> QED
      BY <2>1, <3>1, <3>2, <3>3
  <2>2. ASSUME NEW b \in BOOLEAN, SetRegistration(b) PROVE InvitesTyped'
    BY <1>0, <2>2 DEF SetRegistration, InvitesTyped
  <2> QED
    BY <1>2, <2>1, <2>2 DEF SettingStep
<1>3. CASE SignupStep
  <2>1. ASSUME NEW s \in Signups, ConsumeInvite(s) PROVE InvitesTyped'
    <3>1. signing[s].user \in Users
      BY <2>1 DEF ConsumeInvite, TypeInv, SignupsTyped, SignupTyped
    <3>2. UNCHANGED <<open, issued>>
      BY <2>1 DEF ConsumeInvite, KeepForSignup
    <3>3. CASE UNCHANGED invites
      BY <1>0, <3>2, <3>3 DEF InvitesTyped
    <3>4. ASSUME NEW i \in DOMAIN invites,
                 invites' = [invites EXCEPT ![i].usedBy = signing[s].user]
          PROVE  InvitesTyped'
      BY <1>0, <3>1, <3>2, <3>4 DEF InvitesTyped
    <3> QED
      BY <2>1, <3>3, <3>4 DEF ConsumeInvite, InviteUsable
  <2> QED
    BY <1>1, <1>3, <2>1 DEF SignupStep, BeginSignup, CreateAccount, RefuseLogin, FindAccount,
       SetPassword, GiveRole, FailSignup, KeepForSignup, inviteVars
<1> QED
  BY <1>1, <1>2, <1>3, Frames

\* One field of one account is written.
LEMMA FieldTyped ==
    ASSUME KeycloakTyped, UNCHANGED made, NEW u \in DOMAIN accounts,
           \/ \E v \in BOOLEAN : accounts' = [accounts EXCEPT ![u].enabled = v]
           \/ \E v \in Signups : accounts' = [accounts EXCEPT ![u].password = v]
           \/ \E v \in SUBSET Roles : accounts' = [accounts EXCEPT ![u].roles = v]
    PROVE  KeycloakTyped'
<1>1. accounts[u] \in AccountType
  BY DEF KeycloakTyped
<1>2. PICK row \in AccountType : accounts' = [accounts EXCEPT ![u] = row]
  BY <1>1 DEF AccountType, Roles
<1> QED
  BY <1>2 DEF KeycloakTyped

LEMMA KeycloakTypedStep ==
    ASSUME TypeInv, [Next]_vars
    PROVE  KeycloakTyped'
<1>0. KeycloakTyped /\ SignupsTyped /\ EditsTyped
  BY DEF TypeInv
<1>1. CASE UNCHANGED keycloakVars
  BY <1>0, <1>1 DEF keycloakVars, KeycloakTyped
<1>2. CASE SignupStep
  <2>1. ASSUME NEW s \in Signups, CreateAccount(s) PROVE KeycloakTyped'
    <3>1. signing[s].login \in Logins
      BY <1>0, <2>1 DEF CreateAccount, SignupsTyped, SignupTyped
    <3>2. PICK u : /\ made' = Put(made, u, signing[s].login)
                   /\ accounts' = Put(accounts, u, NewAccount(signing[s].login))
      BY <2>1 DEF CreateAccount
    <3>3. NewAccount(signing[s].login) \in AccountType
      BY <3>1 DEF NewAccount, AccountType
    <3> QED
      BY <1>0, <3>1, <3>2, <3>3 DEF KeycloakTyped, Put
  <2>2. ASSUME NEW s \in Signups, SetPassword(s) PROVE KeycloakTyped'
    BY <1>0, <2>2, FieldTyped DEF SetPassword
  <2>3. ASSUME NEW s \in Signups, GiveRole(s) PROVE KeycloakTyped'
    <3>1. signing[s].user \in DOMAIN accounts /\ made' = made
      BY <2>3 DEF GiveRole
    <3>2. accounts[signing[s].user].roles \cup {"user"} \in SUBSET Roles
      BY <1>0, <3>1 DEF KeycloakTyped, AccountType, Roles, Hierarchy
    <3> QED
      BY <1>0, <2>3, <3>1, <3>2, FieldTyped DEF GiveRole
  <2> QED
    BY <1>1, <1>2, <2>1, <2>2, <2>3 DEF SignupStep, BeginSignup, RefuseLogin, FindAccount,
       ConsumeInvite, FailSignup
<1>3. CASE ProfileStep
  <2>1. ASSUME NEW s \in Saves, WriteEmail(s) PROVE KeycloakTyped'
    <3>1. saving[s].enabled \in BOOLEAN
      BY <2>1 DEF WriteEmail, TypeInv, SavesTyped, SaveTyped
    <3>2. CASE saving[s].user \in DOMAIN accounts
      BY <1>0, <2>1, <3>1, <3>2, FieldTyped DEF WriteEmail
    <3>3. CASE saving[s].user \notin DOMAIN accounts
      BY <1>1, <2>1, <3>3 DEF WriteEmail, keycloakVars
    <3> QED
      BY <3>2, <3>3
  <2> QED
    BY <1>1, <1>3, <2>1 DEF ProfileStep, SaveOwnProfile, LoadForEmail
<1>4. CASE EditStep
  <2>1. ASSUME NEW e \in Edits, SetEnabled(e) PROVE KeycloakTyped'
    <3>1. editing[e].q \in RequestType /\ editing[e].q.enabled # Keep
      BY <1>0, <2>1, AccountsAssumption DEF SetEnabled, EditsTyped, EditTyped, Wants
    <3>2. editing[e].q.enabled \in BOOLEAN
      BY <3>1 DEF RequestType
    <3> QED
      BY <1>0, <2>1, <3>2, FieldTyped DEF SetEnabled, KeepForEdit
  <2>2. ASSUME NEW e \in Edits, NEW r \in Roles, AssignRole(e, r) \/ RemoveRole(e, r)
        PROVE  KeycloakTyped'
    <3> DEFINE u == editing[e].q.user
    <3>1. u \in DOMAIN accounts /\ made' = made
      BY <2>2 DEF AssignRole, RemoveRole, KeepForEdit
    <3>2. accounts[u].roles \cup {r} \in SUBSET Roles /\ accounts[u].roles \ {r} \in SUBSET Roles
      BY <1>0, <3>1 DEF KeycloakTyped, AccountType, Roles
    <3>3. \/ accounts' = [accounts EXCEPT ![u].roles = accounts[u].roles \cup {r}]
          \/ accounts' = [accounts EXCEPT ![u].roles = accounts[u].roles \ {r}]
      BY <2>2 DEF AssignRole, RemoveRole
    <3> HIDE DEF u
    <3> QED
      BY <1>0, <3>1, <3>2, <3>3, FieldTyped
  <2> QED
    BY <1>1, <1>4, <2>1, <2>2 DEF EditStep, BeginEdit, SetBadge, SetName, NameSet,
       ReadRoles, NameRoles, RolesSet, FailEdit, KeepForEdit, keycloakVars, Roles
<1>5. CASE RemovalStep
  <2>1. ASSUME NEW d \in Removals, NEW u, DeleteAccount(d, u) PROVE KeycloakTyped'
    BY <1>0, <2>1 DEF DeleteAccount, WithoutAccount, KeepForRemoval, KeycloakTyped
  <2> QED
    BY <1>1, <1>5, <2>1 DEF RemovalStep, CleanUp, KeepForRemoval, keycloakVars
<1> QED
  BY <1>1, <1>2, <1>3, <1>4, <1>5, Frames

LEMMA OneSignupTyped ==
    ASSUME SignupsTyped, DOMAIN signing = Signups, NEW s \in Signups, NEW n, SignupTyped(n),
           signing' = [signing EXCEPT ![s] = n]
    PROVE  SignupsTyped'
<1>1. \A r \in Signups : signing'[r] = IF r = s THEN n ELSE signing[r]
  OBVIOUS
<1> QED
  BY <1>1 DEF SignupsTyped, SignupTyped, HasFields

\* A signup goes to a stage that asks no more of its record.
LEMMA GoTyped ==
    ASSUME SignupsTyped, DOMAIN signing = Signups, NEW s \in Signups, NEW at \in SignupStages,
           Go(s, at), signing[s].at # "idle", at \notin {"idle", "create", "find"},
           at \in {"password", "role", "consume", "done"} =>
               signing[s].at \in {"password", "role", "consume", "done"}
    PROVE  SignupsTyped'
<1>1. SignupTyped(signing[s])
  BY DEF SignupsTyped
<1>2. signing' = [signing EXCEPT ![s] = [signing[s] EXCEPT !.at = at]]
  BY DEF Go
<1>3. SignupTyped([signing[s] EXCEPT !.at = at])
  BY <1>1 DEF SignupTyped, HasFields
<1> QED
  BY <1>2, <1>3, OneSignupTyped

LEMMA SignupsTypedStep ==
    ASSUME TypeInv, AccountsInv, [Next]_vars
    PROVE  SignupsTyped'
<1>0. SignupsTyped /\ DOMAIN signing = Signups
  BY DEF TypeInv, AccountsInv, SignupsHold
<1>1. CASE UNCHANGED signing
  BY <1>0, <1>1 DEF SignupsTyped, SignupTyped, HasFields
<1>2. ASSUME NEW s \in Signups, NEW n \in Logins, NEW i \in Invites \cup {None},
             BeginSignup(s, n, i)
      PROVE  SignupsTyped'
  <2> DEFINE record == [at |-> "create", login |-> n, invite |-> i, made |-> None,
                        user |-> None, seen |-> {r \in Signups : signing[r].at = "done"}]
  <2>1. SignupTyped(record)
    BY DEF SignupTyped, SignupStages, HasFields
  <2>2. signing' = [signing EXCEPT ![s] = record]
    BY <1>2 DEF BeginSignup
  <2> HIDE DEF record
  <2> QED
    BY <1>0, <2>1, <2>2, OneSignupTyped
<1>3. ASSUME NEW s \in Signups, CreateAccount(s) PROVE SignupsTyped'
  <2>1. PICK u \in Users \ DOMAIN made, at \in {"find", "failed"} :
            signing' = [signing EXCEPT ![s].at = at, ![s].made = u]
    BY <1>3 DEF CreateAccount, Answered
  <2> DEFINE record == [signing[s] EXCEPT !.at = at, !.made = u]
  <2>2. SignupTyped(signing[s]) /\ signing[s].at = "create"
    BY <1>0, <1>3 DEF CreateAccount, SignupsTyped
  <2>3. SignupTyped(record)
    BY <2>2 DEF SignupTyped, SignupStages, HasFields
  <2>4. signing' = [signing EXCEPT ![s] = record]
    BY <1>0, <2>1
  <2> HIDE DEF record
  <2> QED
    BY <1>0, <2>3, <2>4, OneSignupTyped
<1>4. ASSUME NEW s \in Signups, FindAccount(s) PROVE SignupsTyped'
  <2>1. PICK u \in TakenBy(signing[s].login) :
            signing' = [signing EXCEPT ![s].at = "password", ![s].user = u]
    BY <1>4 DEF FindAccount
  <2> DEFINE record == [signing[s] EXCEPT !.at = "password", !.user = u]
  <2>2. SignupTyped(signing[s]) /\ signing[s].at = "find"
    BY <1>0, <1>4 DEF FindAccount, SignupsTyped
  <2>3. u \in Users
    BY <2>1 DEF TakenBy, AccountsInv, AccountsHeld
  <2>4. SignupTyped(record)
    BY <2>2, <2>3 DEF SignupTyped, SignupStages, HasFields
  <2>5. signing' = [signing EXCEPT ![s] = record]
    BY <1>0, <2>1
  <2> HIDE DEF record
  <2> QED
    BY <1>0, <2>4, <2>5, OneSignupTyped
<1>5. ASSUME NEW s \in Signups,
             \/ RefuseLogin(s) \/ SetPassword(s) \/ GiveRole(s) \/ ConsumeInvite(s)
             \/ FailSignup(s)
      PROVE  SignupsTyped'
  <2>1. CASE RefuseLogin(s)
    BY <1>0, <2>1, GoTyped DEF RefuseLogin, SignupStages
  <2>2. CASE SetPassword(s)
    BY <1>0, <2>2, GoTyped DEF SetPassword, Answered, SignupStages
  <2>3. CASE GiveRole(s)
    BY <1>0, <2>3, GoTyped DEF GiveRole, Answered, SignupStages
  <2>4. CASE ConsumeInvite(s)
    BY <1>0, <2>4, GoTyped DEF ConsumeInvite, SignupStages
  <2>5. CASE FailSignup(s)
    BY <1>0, <2>5, GoTyped DEF FailSignup, SignupStages
  <2> QED
    BY <1>5, <2>1, <2>2, <2>3, <2>4, <2>5
<1>6. CASE SignupStep
  BY <1>2, <1>3, <1>4, <1>5, <1>6 DEF SignupStep
<1> QED
  BY <1>1, <1>6, Frames
LEMMA StagesAre == Stages = {"enabled", "badge", "name", "top", "set", "add", "remove"}
<1>1. \A k \in 1 .. 7 : k = 1 \/ k = 2 \/ k = 3 \/ k = 4 \/ k = 5 \/ k = 6 \/ k = 7
  OBVIOUS
<1> QED
  BY <1>1 DEF Stages, StageNames

LEMMA OneEditTyped ==
    ASSUME EditsTyped, NEW e \in Edits, NEW n, EditTyped(n),
           editing' = [editing EXCEPT ![e] = n]
    PROVE  EditsTyped'
<1>1. DOMAIN editing' = Edits /\ \A d \in Edits : editing'[d] = IF d = e THEN n ELSE editing[d]
  BY DEF EditsTyped
<1> QED
  BY <1>1 DEF EditsTyped, EditTyped, HasFields, Wants, Unwanted

\* An edit goes to a stage that its request asks for, or ends.
LEMMA ProceedTyped ==
    ASSUME EditsTyped, NEW e \in Edits, editing[e].at # "idle", NEW at, Proceed(e, at),
           at \in Stages \cup {"done", "failed"}, Wants(editing[e].q, at)
    PROVE  EditsTyped'
<1>1. EditTyped(editing[e])
  BY DEF EditsTyped
<1>2. EditTyped([editing[e] EXCEPT !.at = at])
  BY <1>1, StagesAre DEF EditTyped, HasFields
<1>3. editing' = [editing EXCEPT ![e] = [editing[e] EXCEPT !.at = at]]
  BY DEF Proceed
<1> QED
  BY <1>2, <1>3, OneEditTyped

LEMMA FailedTyped ==
    ASSUME EditsTyped, NEW e \in Edits, editing[e].at # "idle", Proceed(e, "failed")
    PROVE  EditsTyped'
BY ProceedTyped DEF Wants

\* The roles an edit assigns are roles, those it removes are not wanted.
LEMMA PlanTyped ==
    ASSUME EditsTyped, NEW e \in Edits, editing[e].at # "idle", NEW k \in 0 .. 7,
           NEW adds \in SUBSET Roles, NEW drops, \A r \in drops : Unwanted(editing[e].q, r),
           PlanRoles(e, k, adds, drops)
    PROVE  EditsTyped'
<1> DEFINE next == StageAfter(editing[e].q, k)
           record == [editing[e] EXCEPT !.at = "roles", !.then = next, !.adds = adds,
                                        !.drops = drops]
<1>1. EditTyped(editing[e])
  BY DEF EditsTyped
<1>2. next \in Stages \cup {"done"} /\ Wants(editing[e].q, next)
  BY NextStageIsAsked
<1>3. EditTyped(record)
  <2> HIDE DEF next
  <2> QED
    BY <1>1, <1>2 DEF EditTyped, HasFields, Wants
<1>4. editing' = [editing EXCEPT ![e] = record]
  BY DEF PlanRoles, EditsTyped
<1> HIDE DEF record
<1> QED
  BY <1>3, <1>4, OneEditTyped

LEMMA ReadRolesTyped ==
    ASSUME EditsTyped, KeycloakTyped, NEW e \in Edits, ReadRoles(e)
    PROVE  EditsTyped'
<1> DEFINE q == editing[e].q
           current == accounts[q.user].roles
           target == IF editing[e].at = "top" THEN TopTarget(q.top, current) ELSE q.set
<1>1. EditTyped(editing[e]) /\ editing[e].at \in {"top", "set"} /\ q.user \in DOMAIN accounts
  BY DEF ReadRoles, EditsTyped
<1>2. q \in RequestType
  BY <1>1, AccountsAssumption DEF EditTyped
<1>3. current \in SUBSET Roles
  BY <1>1 DEF KeycloakTyped, AccountType, Roles
<1>4. CASE editing[e].at = "top"
  <2>1. q.top \in Tops /\ q.top # Keep
    BY <1>1, <1>4 DEF ReadRoles, EditTyped, Wants
  <2>2. ManagedRoles(q.top) \subseteq Hierarchy
    BY <2>1 DEF ManagedRoles, Tops, Hierarchy
  <2>3. target = ManagedRoles(q.top) \cup (current \ Hierarchy)
    BY <1>4 DEF TopTarget
  <2>4. PlanRoles(e, 4, target \ current, current \ target)
    BY <1>4 DEF ReadRoles
  <2> HIDE DEF target, current
  <2>5. target \ current \in SUBSET Roles
    BY <1>3, <2>2, <2>3 DEF Roles
  <2>6. \A r \in current \ target : Unwanted(q, r)
    BY <2>1, <2>3 DEF Unwanted
  <2> QED
    BY <1>4, <2>4, <2>5, <2>6, PlanTyped
<1>5. CASE editing[e].at = "set"
  <2>1. target = q.set /\ q.set # Keep
    BY <1>1, <1>5 DEF EditTyped, Wants
  <2>2. q.set \in SUBSET Roles
    BY <1>2, <2>1 DEF RequestType, Roles
  <2>3. PlanRoles(e, 5, target \ current, current \ target)
    BY <1>5 DEF ReadRoles
  <2> HIDE DEF target, current
  <2>4. target \ current \in SUBSET Roles
    BY <2>1, <2>2
  <2>5. \A r \in current \ target : Unwanted(q, r)
    BY <2>1 DEF Unwanted
  <2> QED
    BY <1>5, <2>3, <2>4, <2>5, PlanTyped
<1> QED
  BY <1>1, <1>4, <1>5

LEMMA NameRolesTyped ==
    ASSUME EditsTyped, NEW e \in Edits, NameRoles(e)
    PROVE  EditsTyped'
<1>1. EditTyped(editing[e]) /\ editing[e].at \in {"add", "remove"}
  BY DEF NameRoles, EditsTyped
<1>2. editing[e].q \in RequestType
  BY <1>1, AccountsAssumption DEF EditTyped
<1>3. editing[e].q.add \in SUBSET Roles /\ {} \in SUBSET Roles
  BY <1>2 DEF RequestType, Roles
<1>4. \A r \in editing[e].q.remove : Unwanted(editing[e].q, r)
  BY DEF Unwanted
<1> QED
  BY <1>1, <1>3, <1>4, PlanTyped DEF NameRoles

LEMMA RoleStepTyped ==
    ASSUME EditsTyped, NEW e \in Edits, NEW r, AssignRole(e, r) \/ RemoveRole(e, r)
    PROVE  EditsTyped'
<1>1. EditTyped(editing[e]) /\ editing[e].at = "roles"
  BY DEF AssignRole, RemoveRole, EditsTyped
<1>2. PICK at \in {"roles", "failed"} :
          \/ editing' = [editing EXCEPT ![e].adds = @ \ {r}, ![e].at = at]
          \/ editing' = [editing EXCEPT ![e].drops = @ \ {r}, ![e].at = at]
  BY DEF AssignRole, RemoveRole, Answered
<1>3. CASE editing' = [editing EXCEPT ![e].adds = @ \ {r}, ![e].at = at]
  <2> DEFINE record == [editing[e] EXCEPT !.adds = @ \ {r}, !.at = at]
  <2>1. EditTyped(record)
    BY <1>1 DEF EditTyped, HasFields, Wants
  <2>2. editing' = [editing EXCEPT ![e] = record]
    BY <1>3 DEF EditsTyped
  <2> HIDE DEF record
  <2> QED
    BY <2>1, <2>2, OneEditTyped
<1>4. CASE editing' = [editing EXCEPT ![e].drops = @ \ {r}, ![e].at = at]
  <2> DEFINE record == [editing[e] EXCEPT !.drops = @ \ {r}, !.at = at]
  <2>1. EditTyped(record)
    BY <1>1 DEF EditTyped, HasFields, Wants
  <2>2. editing' = [editing EXCEPT ![e] = record]
    BY <1>4 DEF EditsTyped
  <2> HIDE DEF record
  <2> QED
    BY <2>1, <2>2, OneEditTyped
<1> QED
  BY <1>2, <1>3, <1>4

LEMMA BeginEditTyped ==
    ASSUME EditsTyped, NEW e \in Edits, NEW q \in Requests, BeginEdit(e, q)
    PROVE  EditsTyped'
<1> DEFINE next == StageAfter(q, 0)
           record == [at |-> next, q |-> q, save |-> None, then |-> None, adds |-> {},
                      drops |-> {}]
<1>1. next \in Stages \cup {"done"} /\ Wants(q, next)
  BY NextStageIsAsked
<1>2. EditTyped(record)
  <2> HIDE DEF next
  <2> QED
    BY <1>1, StagesAre DEF EditTyped, HasFields
<1>3. editing' = [editing EXCEPT ![e] = record]
  BY DEF BeginEdit
<1> HIDE DEF record
<1> QED
  BY <1>2, <1>3, OneEditTyped

LEMMA EditsTypedStep ==
    ASSUME TypeInv, [Next]_vars
    PROVE  EditsTyped'
<1>0. EditsTyped /\ KeycloakTyped
  BY DEF TypeInv
<1>1. CASE UNCHANGED editing
  BY <1>0, <1>1 DEF EditsTyped, EditTyped, HasFields, Wants, Unwanted
<1>2. ASSUME NEW e \in Edits, NEW k \in 0 .. 7, editing[e].at # "idle",
             Proceed(e, StageAfter(editing[e].q, k))
      PROVE  EditsTyped'
  BY <1>0, <1>2, NextStageIsAsked, ProceedTyped
<1>3. ASSUME NEW e \in Edits,
             SetEnabled(e) \/ SetBadge(e) \/ NameSet(e) \/ RolesSet(e) \/ FailEdit(e)
      PROVE  EditsTyped'
  <2>1. CASE SetEnabled(e)
    BY <1>0, <1>2, <2>1, FailedTyped DEF SetEnabled, Answered
  <2>2. CASE SetBadge(e)
    BY <1>2, <2>2 DEF SetBadge
  <2>3. CASE NameSet(e)
    BY <1>0, <1>2, <2>3, FailedTyped DEF NameSet
  <2>4. CASE RolesSet(e)
    BY <1>0, <2>4, ProceedTyped DEF RolesSet, EditsTyped, EditTyped
  <2>5. CASE FailEdit(e)
    BY <1>0, <2>5, FailedTyped DEF FailEdit
  <2> QED
    BY <1>3, <2>1, <2>2, <2>3, <2>4, <2>5
<1>4. ASSUME NEW e \in Edits, NEW s \in Saves, SetName(e, s) PROVE EditsTyped'
  <2> DEFINE record == [editing[e] EXCEPT !.at = "naming", !.save = s]
  <2>1. EditTyped(editing[e]) /\ editing[e].at = "name"
    BY <1>0, <1>4 DEF SetName, EditsTyped
  <2>2. EditTyped(record)
    BY <2>1 DEF EditTyped, HasFields, Wants
  <2>3. editing' = [editing EXCEPT ![e] = record]
    BY <1>0, <1>4 DEF SetName, EditsTyped
  <2> HIDE DEF record
  <2> QED
    BY <1>0, <2>2, <2>3, OneEditTyped
<1>5. CASE EditStep
  BY <1>0, <1>3, <1>4, <1>5, BeginEditTyped, ReadRolesTyped, NameRolesTyped, RoleStepTyped
  DEF EditStep
<1> QED
  BY <1>1, <1>5, Frames

LEMMA RemovalsTypedStep ==
    ASSUME TypeInv, AccountsInv, [Next]_vars
    PROVE  RemovalsTyped'
<1>0. RemovalsTyped /\ DOMAIN removing = Removals
  BY DEF TypeInv, AccountsInv, GhostsHold
<1>1. CASE UNCHANGED <<badges, ghosts, removing>>
  BY <1>0, <1>1 DEF RemovalsTyped
<1>2. ASSUME NEW e \in Edits, SetBadge(e) PROVE RemovalsTyped'
  <2>1. editing[e].q \in RequestType
    BY <1>2, AccountsAssumption DEF SetBadge, TypeInv, EditsTyped, EditTyped
  <2>2. editing[e].q.user \in Users
    BY <2>1 DEF RequestType
  <2> QED
    BY <1>0, <1>2, <2>2 DEF SetBadge, KeepForEdit, RemovalsTyped
<1>3. CASE EditStep
  BY <1>1, <1>2, <1>3, EditFrame DEF KeepForEdit
<1>4. ASSUME NEW d \in Removals, NEW u \in Users, DeleteAccount(d, u) PROVE RemovalsTyped'
  <2>1. PICK at \in {"cleanup", "failed"} :
            removing' = [removing EXCEPT ![d] = [at |-> at, user |-> u]]
    BY <1>4 DEF DeleteAccount, Answered
  <2> QED
    BY <1>0, <1>4, <2>1 DEF DeleteAccount, RemovalsTyped
<1>5. ASSUME NEW d \in Removals, CleanUp(d) PROVE RemovalsTyped'
  <2>1. removing[d].user \in Users
    BY <1>0, <1>5 DEF CleanUp, RemovalsTyped
  <2>2. badges' \subseteq Users /\ ghosts' \subseteq Users
    BY <1>0, <1>5, <2>1 DEF CleanUp, RemovalsTyped
  <2>3. PICK at \in {"done", "failed"} : removing' = [removing EXCEPT ![d].at = at]
    BY <1>5 DEF CleanUp
  <2>4. removing'[d].at = at /\ \A c \in Removals \ {d} : removing'[c] = removing[c]
    BY <1>0, <2>3 DEF AccountsInv, GhostsHold, HasFields
  <2> QED
    BY <1>0, <2>2, <2>4 DEF RemovalsTyped
<1>6. CASE RemovalStep
  BY <1>4, <1>5, <1>6 DEF RemovalStep
<1> QED
  BY <1>1, <1>3, <1>6, Frames

LEMMA TypeInvariant == Spec => []TypeInv
<1>1. TypeInv /\ AccountsInv /\ [Next]_vars => TypeInv'
  BY SavesTypedStep, InvitesTypedStep, KeycloakTypedStep, SignupsTypedStep, EditsTypedStep,
     RemovalsTypedStep
  DEF TypeInv
<1> QED
  BY <1>1, TypeInvInit, AccountsInvariant, PTL DEF Spec

\* The tables, the accounts and the calls keep their types, for any number of
\* calls and whichever of them fail.
THEOREM AccountsTyped == Spec => []TypeOK
<1>1. TypeInv /\ AccountsInv => TypeOK
  BY DEF TypeInv, AccountsInv, AccountsHeld, TypeOK, SavesTyped, SaveTyped, InvitesTyped,
     KeycloakTyped, SignupsTyped, SignupTyped, SignupStages, EditsTyped, EditTyped, Stages,
     RemovalsTyped
<1> QED
  BY <1>1, TypeInvariant, AccountsInvariant, PTL
-----------------------------------------------------------------------------
(* Names and aliases.                                                      *)

AliasOf(n, u) == n \in DOMAIN aliases /\ aliases[n] = u

\* Who bears a name that is an alias of another user has been outraced.
NamesClaimed ==
    \A u \in DOMAIN names \cap Users : names[u] # Blank =>
        /\ names[u] \in DOMAIN aliases
        /\ u \notin outraced => aliases[names[u]] = u

\* The placeholders all bear one name.
PlaceholdersNamed == \A u \in DOMAIN names \ Users : names[u] = DeletedName

\* What an open save has read still holds, since aliases stay where they are.
ReadsHold(s) ==
    saving[s].at \in {"insert", "commit"} =>
        /\ saving[s].prev # Blank => saving[s].prev \in DOMAIN aliases
        /\ saving[s].free = FALSE => AliasOf(saving[s].name, saving[s].user)
        /\ saving[s].free \in BOOLEAN

\* A save that has inserted its alias has it, one that has not knows of another.
ClaimHolds(s) ==
    saving[s].at = "commit" =>
        /\ saving[s].mine = TRUE =>
              (saving[s].name \in DOMAIN aliases => aliases[saving[s].name] = saving[s].user)
        /\ saving[s].mine = FALSE =>
              saving[s].name \in DOMAIN aliases /\ aliases[saving[s].name] # saving[s].user
        /\ saving[s].mine \in BOOLEAN

OneHolder ==
    \A s, r \in Saves :
        /\ saving[s].at = "commit" /\ saving[r].at = "commit"
        /\ saving[s].name = saving[r].name /\ saving[s].name # Blank
        => s = r

NamesInv ==
    /\ DOMAIN saving = Saves
    /\ Blank \notin DOMAIN aliases
    /\ NamesClaimed /\ PlaceholdersNamed
    /\ \A s \in Saves : ReadsHold(s) /\ ClaimHolds(s)
    /\ OneHolder

\* The steps of Next that the profiles take part in.
NameStep ==
    \/ UNCHANGED profileVars
    \/ \E s \in Saves :
          \/ LookUpAlias(s) \/ InsertAlias(s) \/ CommitSave(s) \/ AbortSave(s)
          \/ LoadForEmail(s) \/ WriteEmail(s)
          \/ \E u, n, admin : BeginSave(s, u, n, admin)
    \/ \E u \in Users : CoolDown(u) \/ TouchProfile(u) \/ RemoveProfile(u)

LEMMA NextIsNameStep == TypeInv /\ [Next]_vars => NameStep
<1> SUFFICES ASSUME TypeInv, [Next]_vars PROVE NameStep
  OBVIOUS
<1>1. CASE UNCHANGED vars
  BY <1>1 DEF vars, profileVars, NameStep
<1>2. CASE SettingStep
  BY <1>2 DEF SettingStep, SetRegistration, CreateInvite, ExpireInvite, DeleteInvite,
     KeepAccounts, NameStep
<1>3. CASE SignupStep
  BY <1>3 DEF SignupStep, BeginSignup, CreateAccount, RefuseLogin, FindAccount, SetPassword,
     GiveRole, ConsumeInvite, FailSignup, KeepForSignup, NameStep
<1>4. CASE ProfileStep
  BY <1>4 DEF ProfileStep, SaveStep, SaveOwnProfile, NameStep
<1>5. CASE EditStep
  <2>1. ASSUME NEW e \in Edits, SetBadge(e) PROVE NameStep
    <3>1. editing[e].q \in RequestType
      BY <2>1, AccountsAssumption DEF SetBadge, TypeInv, EditsTyped, EditTyped
    <3> QED
      BY <2>1, <3>1 DEF SetBadge, RequestType, NameStep
  <2> QED
    BY <1>5, <2>1, EditFrame DEF SetName, NameStep
<1>6. CASE RemovalStep
  <2>1. ASSUME NEW d \in Removals, CleanUp(d) PROVE NameStep
    BY <2>1 DEF CleanUp, TypeInv, RemovalsTyped, NameStep
  <2> QED
    BY <1>6, <2>1 DEF RemovalStep, DeleteAccount, NameStep
<1> QED
  BY <1>1, <1>2, <1>3, <1>4, <1>5, <1>6 DEF Next

\* What has once become an alias stays the alias of the same user.
AliasesKept == \A n \in DOMAIN aliases : n \in DOMAIN aliases' /\ aliases'[n] = aliases[n]

LEMMA CommitKeeps ==
    ASSUME NamesInv, NEW s \in Saves, CommitSave(s)
    PROVE  AliasesKept
<1> DEFINE u == saving[s].user
           n == saving[s].name
           claims == FormerNames(s) \cup (IF Claimed(s) THEN {n} ELSE {})
<1>1. aliases' = [x \in DOMAIN aliases \cup claims |-> IF x \in claims THEN u ELSE aliases[x]]
  BY DEF CommitSave
<1>2. ASSUME NEW x \in DOMAIN aliases, x \in FormerNames(s) PROVE aliases[x] = u
  BY <1>2 DEF FormerNames
<1>3. ASSUME NEW x \in DOMAIN aliases, Claimed(s), x = n PROVE aliases[x] = u
  <2>1. ClaimHolds(s) /\ saving[s].at = "commit"
    BY DEF NamesInv, CommitSave
  <2>2. saving[s].mine = TRUE
    BY <1>3, <2>1 DEF Claimed, ClaimHolds
  <2> QED
    BY <1>3, <2>1, <2>2 DEF ClaimHolds
<1> HIDE DEF u, n
<1>4. ASSUME NEW x \in DOMAIN aliases PROVE x \in DOMAIN aliases' /\ aliases'[x] = aliases[x]
  <2>1. x \in claims => aliases[x] = u
    BY <1>2, <1>3
  <2> HIDE DEF claims
  <2> QED
    BY <1>1, <2>1
<1> QED
  BY <1>4 DEF AliasesKept

LEMMA AliasesStay == NamesInv /\ NameStep => AliasesKept
<1> SUFFICES ASSUME NamesInv, NameStep PROVE AliasesKept
  OBVIOUS
<1>1. CASE UNCHANGED aliases
  BY <1>1 DEF AliasesKept
<1>2. CASE \E s \in Saves : CommitSave(s)
  BY <1>2, CommitKeeps
<1> QED
  BY <1>1, <1>2 DEF NameStep, profileVars, LookUpAlias, InsertAlias, AbortSave, LoadForEmail,
     WriteEmail, BeginSave, CoolDown, TouchProfile, RemoveProfile

LEMMA NamesInvInit == Init => NamesInv
  BY DEF Init, ProfilesInit, NamesInv, NamesClaimed, PlaceholdersNamed, ReadsHold, ClaimHolds, OneHolder

\* Steps that leave the tables of profiles and aliases alone.
LEMMA QuietNameStep ==
    ASSUME NamesInv, UNCHANGED <<names, aliases, outraced>>,
           NEW s \in Saves, NEW record, saving' = [saving EXCEPT ![s] = record],
           record.at \notin {"insert", "commit"}
    PROVE  NamesInv'
<1>1. DOMAIN saving' = Saves /\ saving'[s] = record
  BY DEF NamesInv
<1>2. \A r \in Saves \ {s} : saving'[r] = saving[r]
  BY DEF NamesInv
<1>3. Blank \notin DOMAIN aliases' /\ NamesClaimed' /\ PlaceholdersNamed'
  BY DEF NamesInv, NamesClaimed, PlaceholdersNamed
<1>4. ASSUME NEW r \in Saves PROVE ReadsHold(r)' /\ ClaimHolds(r)'
  <2>1. CASE r = s
    BY <1>1, <2>1 DEF ReadsHold, ClaimHolds
  <2>2. CASE r # s
    <3>1. saving'[r] = saving[r] /\ ReadsHold(r) /\ ClaimHolds(r)
      BY <1>2, <2>2 DEF NamesInv
    <3> QED
      BY <3>1 DEF ReadsHold, ClaimHolds, AliasOf
  <2> QED
    BY <2>1, <2>2
<1>5. OneHolder'
  <2> SUFFICES ASSUME NEW r \in Saves, NEW q \in Saves,
                      saving'[r].at = "commit", saving'[q].at = "commit",
                      saving'[r].name = saving'[q].name, saving'[r].name # Blank
               PROVE  r = q
    BY DEF OneHolder
  <2>1. r # s /\ q # s
    BY <1>1
  <2>2. saving'[r] = saving[r] /\ saving'[q] = saving[q]
    BY <1>2, <2>1
  <2> QED
    BY <2>2 DEF NamesInv, OneHolder
<1> QED
  BY <1>1, <1>3, <1>4, <1>5 DEF NamesInv

\* Steps on the profile of one user that claim no name.
LEMMA ProfileNameStep ==
    ASSUME NamesInv, UNCHANGED <<aliases, saving>>, PlaceholdersNamed',
           \A v \in DOMAIN names' \cap Users : names'[v] # Blank =>
               /\ v \in DOMAIN names /\ names'[v] = names[v]
               /\ v \in outraced => v \in outraced'
    PROVE  NamesInv'
<1>1. NamesClaimed'
  <2> SUFFICES ASSUME NEW v \in DOMAIN names' \cap Users, names'[v] # Blank
               PROVE  /\ names'[v] \in DOMAIN aliases'
                      /\ v \notin outraced' => aliases'[names'[v]] = v
    BY DEF NamesClaimed
  <2>1. v \in DOMAIN names /\ names'[v] = names[v] /\ (v \in outraced => v \in outraced')
    OBVIOUS
  <2> QED
    BY <2>1 DEF NamesInv, NamesClaimed
<1>2. \A r \in Saves : ReadsHold(r)' /\ ClaimHolds(r)'
  BY DEF NamesInv, ReadsHold, ClaimHolds, AliasOf
<1>3. OneHolder'
  BY DEF NamesInv, OneHolder
<1> QED
  BY <1>1, <1>2, <1>3 DEF NamesInv
LEMMA LookUpStep ==
    ASSUME TypeInv, NamesInv, NEW s \in Saves, LookUpAlias(s)
    PROVE  NamesInv'
<1> DEFINE u == saving[s].user
           n == saving[s].name
           taken == n \in DOMAIN aliases /\ aliases[n] # u
<1>1. UNCHANGED <<names, aliases, outraced>>
  BY DEF LookUpAlias
<1>2. saving' = [saving EXCEPT ![s] =
          [at |-> IF taken THEN "refused" ELSE "insert", user |-> u, name |-> n,
           prev |-> NameOf(u), free |-> n \notin DOMAIN aliases]]
  BY DEF LookUpAlias
<1>3. CASE taken
  <2>1. saving' = [saving EXCEPT ![s] =
            [at |-> "refused", user |-> u, name |-> n, prev |-> NameOf(u),
             free |-> n \notin DOMAIN aliases]]
    BY <1>2, <1>3
  <2> DEFINE record == [at |-> "refused", user |-> u, name |-> n, prev |-> NameOf(u),
                        free |-> n \notin DOMAIN aliases]
  <2>2. record.at \notin {"insert", "commit"}
    OBVIOUS
  <2>3. saving' = [saving EXCEPT ![s] = record]
    BY <2>1
  <2> HIDE DEF record
  <2> QED
    BY <1>1, <2>2, <2>3, QuietNameStep
<1>4. CASE ~taken
  <2>1. /\ saving'[s].at = "insert" /\ saving'[s].user = u /\ saving'[s].name = n
        /\ saving'[s].prev = NameOf(u)
        /\ saving'[s].free = (n \notin DOMAIN aliases)
        /\ DOMAIN saving' = Saves
    BY <1>2, <1>4 DEF NamesInv
  <2>2. \A r \in Saves \ {s} : saving'[r] = saving[r]
    BY <1>2 DEF NamesInv
  <2>3. NameOf(u) # Blank => NameOf(u) \in DOMAIN aliases
    <3>1. u \in Users
      BY DEF LookUpAlias, TypeInv, SavesTyped, SaveTyped
    <3> QED
      BY <3>1 DEF NamesInv, NamesClaimed, NameOf
  <2>4. ReadsHold(s)' /\ ClaimHolds(s)'
    <3>1. saving'[s].free = FALSE => AliasOf(n, u)
      BY <1>4, <2>1 DEF AliasOf
    <3>2. AliasOf(n, u) => AliasOf(n, u)'
      BY <1>1, <2>1 DEF AliasOf
    <3> QED
      BY <1>1, <2>1, <2>3, <3>1, <3>2 DEF ReadsHold, ClaimHolds, AliasOf
  <2>5. ASSUME NEW r \in Saves \ {s} PROVE ReadsHold(r)' /\ ClaimHolds(r)'
    <3>1. ReadsHold(r) /\ ClaimHolds(r) /\ saving'[r] = saving[r]
      BY <2>2 DEF NamesInv
    <3> QED
      BY <1>1, <3>1 DEF ReadsHold, ClaimHolds, AliasOf
  <2>6. OneHolder'
    BY <2>1, <2>2 DEF NamesInv, OneHolder
  <2>7. NamesClaimed' /\ PlaceholdersNamed' /\ Blank \notin DOMAIN aliases'
    BY <1>1 DEF NamesInv, NamesClaimed, PlaceholdersNamed
  <2> QED
    BY <2>1, <2>4, <2>5, <2>6, <2>7 DEF NamesInv
<1> QED
  BY <1>3, <1>4

LEMMA InsertStep ==
    ASSUME NamesInv, NEW s \in Saves, InsertAlias(s)
    PROVE  NamesInv'
<1> DEFINE u == saving[s].user
           n == saving[s].name
<1>1. UNCHANGED <<names, aliases, outraced>> /\ saving[s].at = "insert"
  BY DEF InsertAlias
<1>2. /\ saving'[s].at = "commit" /\ saving'[s].user = u /\ saving'[s].name = n
      /\ saving'[s].prev = saving[s].prev /\ saving'[s].free = saving[s].free
      /\ saving'[s].mine = (n \in DOMAIN aliases => aliases[n] = u)
      /\ DOMAIN saving' = Saves
  BY DEF InsertAlias, NamesInv
<1>3. \A r \in Saves \ {s} : saving'[r] = saving[r]
  BY DEF InsertAlias, NamesInv
<1>4. ReadsHold(s)'
  BY <1>1, <1>2 DEF NamesInv, ReadsHold, AliasOf
<1>5. ClaimHolds(s)'
  BY <1>1, <1>2 DEF ClaimHolds
<1>6. ASSUME NEW r \in Saves \ {s} PROVE ReadsHold(r)' /\ ClaimHolds(r)'
  <2>1. ReadsHold(r) /\ ClaimHolds(r) /\ saving'[r] = saving[r]
    BY <1>3 DEF NamesInv
  <2> QED
    BY <1>1, <2>1 DEF ReadsHold, ClaimHolds, AliasOf
<1>7. OneHolder'
  <2>1. \A r \in Saves \ {s} : saving'[r].at = "commit" /\ saving'[r].name = n => n = Blank
    BY <1>3 DEF InsertAlias, Holding
  <2> QED
    BY <1>2, <1>3, <2>1 DEF NamesInv, OneHolder
<1>8. NamesClaimed' /\ PlaceholdersNamed' /\ Blank \notin DOMAIN aliases'
  BY <1>1 DEF NamesInv, NamesClaimed, PlaceholdersNamed
<1> QED
  BY <1>2, <1>4, <1>5, <1>6, <1>7, <1>8 DEF NamesInv

LEMMA CommitStep ==
    ASSUME TypeInv, NamesInv, NEW s \in Saves, CommitSave(s)
    PROVE  NamesInv'
<1> DEFINE u == saving[s].user
           n == saving[s].name
           claims == FormerNames(s) \cup (IF Claimed(s) THEN {n} ELSE {})
<1>1. saving[s].at = "commit" /\ ReadsHold(s) /\ ClaimHolds(s)
  BY DEF CommitSave, NamesInv
<1>2. AliasesKept
  BY CommitKeeps
<1>3. /\ saving'[s].at = "saved"
      /\ DOMAIN saving' = Saves
      /\ \A r \in Saves \ {s} : saving'[r] = saving[r]
  BY DEF CommitSave, NamesInv
<1>4. DOMAIN aliases' = DOMAIN aliases \cup claims /\ \A x \in claims : aliases'[x] = u
  BY DEF CommitSave
<1>5. FormerNames(s) \subseteq DOMAIN aliases
  BY <1>1 DEF FormerNames, ReadsHold
<1>6. Claimed(s) => saving[s].mine = TRUE /\ n # Blank
  BY <1>1 DEF Claimed, ClaimHolds
<1>7. ASSUME NEW x \in DOMAIN aliases', x \notin DOMAIN aliases PROVE x = n /\ Claimed(s)
  BY <1>4, <1>5, <1>7
<1>8. Blank \notin DOMAIN aliases'
  BY <1>6, <1>7 DEF NamesInv
<1>9. n # Blank => n \in DOMAIN aliases' /\ (u \notin outraced' => aliases'[n] = u)
  <2> SUFFICES ASSUME n # Blank
               PROVE  n \in DOMAIN aliases' /\ (u \notin outraced' => aliases'[n] = u)
    OBVIOUS
  <2>1. CASE saving[s].mine = TRUE
    <3>1. n \in claims
      BY <2>1 DEF Claimed
    <3> QED
      BY <1>4, <3>1
  <2>2. CASE saving[s].mine = FALSE
    <3>1. n \in DOMAIN aliases /\ aliases[n] # u
      BY <1>1, <2>2 DEF ClaimHolds
    <3>2. saving[s].free = TRUE
      BY <1>1, <3>1 DEF ReadsHold, AliasOf
    <3>3. outraced' = IF n # Blank /\ saving[s].free /\ ~saving[s].mine
                      THEN outraced \cup {u} ELSE outraced \ {u}
      BY DEF CommitSave
    <3>4. u \in outraced'
      BY ONLY <2>2, <3>2, <3>3, n # Blank
    <3> QED
      BY <1>2, <3>1, <3>4 DEF AliasesKept
  <2> QED
    BY <1>1, <2>1, <2>2 DEF ClaimHolds
<1>10. /\ DOMAIN names' = DOMAIN names \cup {u}
       /\ names'[u] = n
       /\ \A v \in DOMAIN names \ {u} : names'[v] = names[v]
  BY DEF CommitSave, Put
<1>0. u \in Users
  BY DEF CommitSave, TypeInv, SavesTyped, SaveTyped
<1>11. \A v \in outraced \ {u} : v \in outraced'
  <2>1. outraced' = outraced \cup {u} \/ outraced' = outraced \ {u}
    BY DEF CommitSave
  <2> QED
    BY <2>1
<1> HIDE DEF u, n, claims
<1>12. NamesClaimed'
  <2> SUFFICES ASSUME NEW v \in DOMAIN names' \cap Users, names'[v] # Blank
               PROVE  /\ names'[v] \in DOMAIN aliases'
                      /\ v \notin outraced' => aliases'[names'[v]] = v
    BY DEF NamesClaimed
  <2>1. CASE v = u
    BY <1>9, <1>10, <2>1
  <2>2. CASE v # u
    <3>1. /\ v \in DOMAIN names \cap Users /\ names'[v] = names[v]
          /\ v \in outraced => v \in outraced'
      BY <1>10, <1>11, <2>2
    <3>2. names[v] \in DOMAIN aliases /\ (v \notin outraced => aliases[names[v]] = v)
      BY <3>1 DEF NamesInv, NamesClaimed
    <3> QED
      BY <1>2, <3>1, <3>2 DEF AliasesKept
  <2> QED
    BY <2>1, <2>2
<1>13. ASSUME NEW r \in Saves PROVE ReadsHold(r)' /\ ClaimHolds(r)'
  <2>1. CASE r = s
    BY <1>3, <2>1 DEF ReadsHold, ClaimHolds
  <2>2. CASE r # s
    <3>1. saving'[r] = saving[r] /\ ReadsHold(r) /\ ClaimHolds(r)
      BY <1>3, <2>2 DEF NamesInv
    <3>2. ReadsHold(r)'
      BY <1>2, <3>1 DEF ReadsHold, AliasOf, AliasesKept
    <3>3. ASSUME saving[r].at = "commit", saving[r].name \in DOMAIN aliases',
                 saving[r].name \notin DOMAIN aliases
          PROVE  FALSE
      <4>1. saving[r].name = n /\ n # Blank
        BY <1>6, <1>7, <3>3
      <4> QED
        BY <1>1, <2>2, <3>3, <4>1 DEF NamesInv, OneHolder, n
    <3>4. ClaimHolds(r)'
      BY <1>2, <3>1, <3>3 DEF ClaimHolds, AliasesKept
    <3> QED
      BY <3>2, <3>4
  <2> QED
    BY <2>1, <2>2
<1>15. PlaceholdersNamed'
  BY <1>0, <1>10 DEF NamesInv, PlaceholdersNamed
<1>14. OneHolder'
  BY <1>3 DEF NamesInv, OneHolder
<1> QED
  BY <1>3, <1>8, <1>12, <1>13, <1>14, <1>15 DEF NamesInv

LEMMA NamesInvStep == TypeInv /\ NamesInv /\ NameStep => NamesInv'
<1> SUFFICES ASSUME TypeInv, NamesInv, NameStep PROVE NamesInv'
  OBVIOUS
<1>1. CASE UNCHANGED profileVars
  BY <1>1 DEF profileVars, NamesInv, NamesClaimed, PlaceholdersNamed, ReadsHold, ClaimHolds, AliasOf, OneHolder
<1>2. ASSUME NEW s \in Saves, LookUpAlias(s) \/ InsertAlias(s) \/ CommitSave(s) PROVE NamesInv'
  BY <1>2, LookUpStep, InsertStep, CommitStep
<1>3. ASSUME NEW s \in Saves, AbortSave(s) PROVE NamesInv'
  <2> DEFINE record == [at |-> "refused", user |-> saving[s].user, name |-> saving[s].name]
  <2>1. saving' = [saving EXCEPT ![s] = record] /\ UNCHANGED <<names, aliases, outraced>>
    BY <1>3 DEF AbortSave
  <2>2. record.at \notin {"insert", "commit"}
    OBVIOUS
  <2> HIDE DEF record
  <2> QED
    BY <2>1, <2>2, QuietNameStep
<1>4. ASSUME NEW s \in Saves, LoadForEmail(s) PROVE NamesInv'
  <2>1. PICK u : saving' = [saving EXCEPT ![s] =
                    [at |-> "email", user |-> u, enabled |-> accounts[u].enabled]]
    BY <1>4 DEF LoadForEmail
  <2> DEFINE record == [at |-> "email", user |-> u, enabled |-> accounts[u].enabled]
  <2>2. saving' = [saving EXCEPT ![s] = record] /\ UNCHANGED <<names, aliases, outraced>>
    BY <1>4, <2>1 DEF LoadForEmail
  <2>3. record.at \notin {"insert", "commit"}
    OBVIOUS
  <2> HIDE DEF record
  <2> QED
    BY <2>2, <2>3, QuietNameStep
<1>5. ASSUME NEW s \in Saves, WriteEmail(s) PROVE NamesInv'
  <2> DEFINE record == [at |-> "done", user |-> saving[s].user]
  <2>1. saving' = [saving EXCEPT ![s] = record] /\ UNCHANGED <<names, aliases, outraced>>
    BY <1>5 DEF WriteEmail
  <2>2. record.at \notin {"insert", "commit"}
    OBVIOUS
  <2> HIDE DEF record
  <2> QED
    BY <2>1, <2>2, QuietNameStep
<1>6. ASSUME NEW s \in Saves, NEW u, NEW n, NEW admin, BeginSave(s, u, n, admin)
      PROVE  NamesInv'
  <2> DEFINE record == IF MayRename(u, n, admin)
                       THEN [at |-> "lookup", user |-> u, name |-> n]
                       ELSE [at |-> "refused", user |-> u, name |-> n]
  <2>1. saving' = [saving EXCEPT ![s] = record] /\ UNCHANGED <<names, aliases, outraced>>
    BY <1>6 DEF BeginSave
  <2>2. record.at \notin {"insert", "commit"}
    OBVIOUS
  <2> HIDE DEF record
  <2> QED
    BY <2>1, <2>2, QuietNameStep
<1>7. ASSUME NEW u \in Users, CoolDown(u) \/ TouchProfile(u) \/ RemoveProfile(u)
      PROVE  NamesInv'
  <2>1. UNCHANGED <<aliases, saving>>
    BY <1>7 DEF CoolDown, TouchProfile, RemoveProfile
  <2>2. Placeholder(u) \notin Users
    BY ProfilesAssumption DEF Placeholders
  <2>3. /\ PlaceholdersNamed'
        /\ \A v \in DOMAIN names' \cap Users : names'[v] # Blank =>
              /\ v \in DOMAIN names /\ names'[v] = names[v]
              /\ v \in outraced => v \in outraced'
    <3>1. PlaceholdersNamed
      BY DEF NamesInv
    <3>2. CASE CoolDown(u)
      BY <3>1, <3>2 DEF CoolDown, PlaceholdersNamed
    <3>3. CASE TouchProfile(u)
      BY <3>1, <3>3 DEF TouchProfile, Put, NameOf, PlaceholdersNamed
    <3>4. CASE RemoveProfile(u)
      BY <2>2, <3>1, <3>4 DEF RemoveProfile, PlaceholdersNamed
    <3> QED
      BY <1>7, <3>2, <3>3, <3>4
  <2> QED
    BY <2>1, <2>3, ProfileNameStep
<1> QED
  BY <1>1, <1>2, <1>3, <1>4, <1>5, <1>6, <1>7 DEF NameStep

LEMMA NamesInvariant == Spec => []NamesInv
<1>1. TypeInv /\ NamesInv /\ [Next]_vars => NamesInv'
  BY NextIsNameStep, NamesInvStep
<1> QED
  BY NamesInvInit, TypeInvariant, <1>1, PTL DEF Spec

\* Under every interleaving of saves by any number of users, of administrators'
\* edits and of deletions, an alias stays with the user who had it first.
THEOREM AliasesAreForGood == Spec => AliasNeverMoves
<1>1. TypeInv /\ NamesInv /\ [Next]_vars =>
          [\A n \in DOMAIN aliases : n \in DOMAIN aliases' /\ aliases'[n] = aliases[n]]_aliases
  BY NextIsNameStep, AliasesStay DEF AliasesKept
<1> QED
  BY NamesInvariant, TypeInvariant, <1>1, PTL DEF Spec, AliasNeverMoves

\* The display name of a user leads to the one profile that bears it, and a former
\* name to its owner, but for users whose claim lost against a concurrent one and
\* for the name that all placeholders of deleted users bear.
THEOREM NamesLeadToOneProfile == Spec => []NamesResolve
<1>1. TypeInv /\ NamesInv => NamesResolve
  <2> SUFFICES ASSUME TypeInv, NamesInv PROVE NamesResolve
    OBVIOUS
  <2>1. \A u \in (DOMAIN names \cap Users) \ outraced :
            names[u] # Blank => names[u] \in DOMAIN aliases /\ aliases[names[u]] = u
    BY DEF NamesInv, NamesClaimed
  <2>2. ASSUME NEW n \in DOMAIN aliases, NEW u \in Resolved(n), u # aliases[n]
        PROVE  u \in outraced \/ (n = DeletedName /\ u \in Placeholders)
    <3>1. u \in DOMAIN names /\ names[u] = n
      BY <2>2 DEF Resolved
    <3>2. n # Blank
      BY DEF NamesInv
    <3>3. CASE u \in Users
      BY <2>1, <2>2, <3>1, <3>2, <3>3
    <3>4. CASE u \notin Users
      BY <3>1, <3>4 DEF NamesInv, PlaceholdersNamed, TypeInv, SavesTyped, NamesTyped
    <3> QED
      BY <3>3, <3>4
  <2> QED
    BY <2>1, <2>2 DEF NamesResolve
<1> QED
  BY NamesInvariant, TypeInvariant, <1>1, PTL

-----------------------------------------------------------------------------
(* What becomes of an account and of an invite.                            *)

MaySwitchOn(u) ==
    \/ \E e \in Edits : editing[e].at = "enabled" /\ editing[e].q.user = u
                            /\ editing[e].q.enabled = TRUE
    \/ \E s \in Saves : saving[s].at = "email" /\ saving[s].user = u
                            /\ saving[s].enabled = TRUE

\* What a step may do to the account of user u.
AccountChanges(u) ==
    /\ accounts'[u].password \in {accounts[u].password} \cup Signups
    /\ \A r \in accounts[u].roles \ accounts'[u].roles : \E e \in Edits : AsksToTake(e, u, r)
    /\ accounts'[u].enabled /\ ~accounts[u].enabled => MaySwitchOn(u)

ChangesHold == \A u \in DOMAIN accounts \cap DOMAIN accounts' : AccountChanges(u)

LEMMA SameAccounts ==
    ASSUME \A u \in DOMAIN accounts \cap DOMAIN accounts' : accounts'[u] = accounts[u]
    PROVE  ChangesHold
BY DEF ChangesHold, AccountChanges

\* A step that writes one account.
LEMMA OneAccount ==
    ASSUME NEW u \in DOMAIN accounts, NEW row, accounts' = [accounts EXCEPT ![u] = row],
           row.password \in {accounts[u].password} \cup Signups,
           \A r \in accounts[u].roles \ row.roles : \E e \in Edits : AsksToTake(e, u, r),
           row.enabled /\ ~accounts[u].enabled => MaySwitchOn(u)
    PROVE  ChangesHold
<1>1. accounts'[u] = row /\ \A v \in DOMAIN accounts \ {u} : accounts'[v] = accounts[v]
  OBVIOUS
<1> QED
  BY <1>1 DEF ChangesHold, AccountChanges

LEMMA SignupChanges ==
    ASSUME TypeInv, AccountsInv, SignupStep
    PROVE  ChangesHold
<1>0. \A u \in DOMAIN accounts : accounts[u] \in AccountType
  BY DEF TypeInv, KeycloakTyped
<1>1. ASSUME NEW s \in Signups, CreateAccount(s) PROVE ChangesHold
  <2>1. PICK u : u \notin DOMAIN made /\ accounts' = Put(accounts, u, NewAccount(signing[s].login))
    BY <1>1 DEF CreateAccount
  <2>2. u \notin DOMAIN accounts
    BY <2>1 DEF AccountsInv, AccountsHeld
  <2> QED
    BY <2>1, <2>2, SameAccounts DEF Put
<1>2. ASSUME NEW s \in Signups, SetPassword(s) PROVE ChangesHold
  <2> DEFINE u == signing[s].user
             row == [accounts[u] EXCEPT !.password = s]
  <2>1. u \in DOMAIN accounts /\ accounts' = [accounts EXCEPT ![u] = row]
    BY <1>2 DEF SetPassword
  <2>2. /\ row.password = s /\ row.roles = accounts[u].roles
        /\ row.enabled = accounts[u].enabled
    BY <1>0, <2>1 DEF AccountType
  <2> HIDE DEF u, row
  <2> QED
    BY <2>1, <2>2, OneAccount
<1>3. ASSUME NEW s \in Signups, GiveRole(s) PROVE ChangesHold
  <2> DEFINE u == signing[s].user
             row == [accounts[u] EXCEPT !.roles = @ \cup {"user"}]
  <2>1. u \in DOMAIN accounts /\ accounts' = [accounts EXCEPT ![u] = row]
    BY <1>3 DEF GiveRole
  <2>2. /\ row.password = accounts[u].password /\ accounts[u].roles \subseteq row.roles
        /\ row.enabled = accounts[u].enabled
    BY <1>0, <2>1 DEF AccountType
  <2> HIDE DEF u, row
  <2> QED
    BY <2>1, <2>2, OneAccount
<1> QED
  BY <1>1, <1>2, <1>3, SameAccounts DEF SignupStep, BeginSignup, RefuseLogin, FindAccount,
     ConsumeInvite, FailSignup, keycloakVars

LEMMA EditChanges ==
    ASSUME TypeInv, EditStep
    PROVE  ChangesHold
<1>0. \A u \in DOMAIN accounts : accounts[u] \in AccountType
  BY DEF TypeInv, KeycloakTyped
<1>1. ASSUME NEW e \in Edits, SetEnabled(e) PROVE ChangesHold
  <2> DEFINE u == editing[e].q.user
             row == [accounts[u] EXCEPT !.enabled = editing[e].q.enabled]
  <2>1. u \in DOMAIN accounts /\ accounts' = [accounts EXCEPT ![u] = row]
    BY <1>1 DEF SetEnabled
  <2>2. /\ row.password = accounts[u].password /\ row.roles = accounts[u].roles
        /\ row.enabled = editing[e].q.enabled
    BY <1>0, <2>1 DEF AccountType
  <2>3. editing[e].q \in RequestType /\ editing[e].q.enabled # Keep
    BY <1>1, AccountsAssumption DEF SetEnabled, TypeInv, EditsTyped, EditTyped, Wants
  <2>4. editing[e].q.enabled \in BOOLEAN
    BY <2>3 DEF RequestType
  <2>5. row.enabled => MaySwitchOn(u)
    BY <1>1, <2>2, <2>4 DEF MaySwitchOn, SetEnabled
  <2> HIDE DEF u, row
  <2> QED
    BY <2>1, <2>2, <2>5, OneAccount
<1>2. ASSUME NEW e \in Edits, NEW r, AssignRole(e, r) PROVE ChangesHold
  <2> DEFINE u == editing[e].q.user
             row == [accounts[u] EXCEPT !.roles = @ \cup {r}]
  <2>1. u \in DOMAIN accounts /\ accounts' = [accounts EXCEPT ![u] = row]
    BY <1>2 DEF AssignRole
  <2>2. /\ row.password = accounts[u].password /\ accounts[u].roles \subseteq row.roles
        /\ row.enabled = accounts[u].enabled
    BY <1>0, <2>1 DEF AccountType
  <2> HIDE DEF u, row
  <2> QED
    BY <2>1, <2>2, OneAccount
<1>3. ASSUME NEW e \in Edits, NEW r, RemoveRole(e, r) PROVE ChangesHold
  <2> DEFINE u == editing[e].q.user
             row == [accounts[u] EXCEPT !.roles = @ \ {r}]
  <2>1. u \in DOMAIN accounts /\ accounts' = [accounts EXCEPT ![u] = row]
    BY <1>3 DEF RemoveRole
  <2>2. /\ row.password = accounts[u].password /\ accounts[u].roles \ row.roles \subseteq {r}
        /\ row.enabled = accounts[u].enabled
    BY <1>0, <2>1 DEF AccountType
  <2>3. EditTyped(editing[e]) /\ editing[e].at = "roles" /\ r \in editing[e].drops
    BY <1>3 DEF RemoveRole, TypeInv, EditsTyped
  <2>4. AsksToTake(e, u, r)
    BY <2>3 DEF EditTyped, Unwanted, AsksToTake
  <2> HIDE DEF u, row
  <2> QED
    BY <2>1, <2>2, <2>4, OneAccount
<1> QED
  BY <1>1, <1>2, <1>3, SameAccounts DEF EditStep, BeginEdit, SetBadge, SetName, NameSet,
     ReadRoles, NameRoles, RolesSet, FailEdit

LEMMA AccountsChange ==
    ASSUME TypeInv, AccountsInv, [Next]_vars
    PROVE  ChangesHold
<1>1. CASE UNCHANGED keycloakVars
  BY <1>1, SameAccounts DEF keycloakVars
<1>2. CASE ProfileStep
  <2>1. ASSUME NEW s \in Saves, WriteEmail(s) PROVE ChangesHold
    <3> DEFINE u == saving[s].user
               row == [accounts[u] EXCEPT !.enabled = saving[s].enabled]
    <3>1. CASE u \in DOMAIN accounts
      <4>1. accounts' = [accounts EXCEPT ![u] = row]
        BY <2>1, <3>1 DEF WriteEmail
      <4>2. row.password = accounts[u].password /\ row.roles = accounts[u].roles
        BY <3>1 DEF TypeInv, KeycloakTyped, AccountType
      <4>3. row.enabled /\ ~accounts[u].enabled => MaySwitchOn(u)
        <5>1. saving[s].enabled \in BOOLEAN
          BY <2>1 DEF WriteEmail, TypeInv, SavesTyped, SaveTyped
        <5>2. row.enabled = saving[s].enabled
          BY <3>1 DEF TypeInv, KeycloakTyped, AccountType
        <5>3. CASE saving[s].enabled = TRUE
          BY <2>1, <5>3 DEF MaySwitchOn, WriteEmail
        <5> QED
          BY <5>1, <5>2, <5>3
      <4> HIDE DEF u, row
      <4> QED
        BY <3>1, <4>1, <4>2, <4>3, OneAccount
    <3>2. CASE u \notin DOMAIN accounts
      BY <2>1, <3>2, SameAccounts DEF WriteEmail
    <3> QED
      BY <3>1, <3>2
  <2> QED
    BY <1>1, <1>2, <2>1 DEF ProfileStep, SaveOwnProfile, LoadForEmail
<1>3. CASE RemovalStep
  <2>1. ASSUME NEW d \in Removals, NEW u \in Users, DeleteAccount(d, u) PROVE ChangesHold
    BY <2>1, SameAccounts DEF DeleteAccount, WithoutAccount
  <2>2. ASSUME NEW d \in Removals, CleanUp(d) PROVE ChangesHold
    BY <2>2, SameAccounts DEF CleanUp
  <2> QED
    BY <1>3, <2>1, <2>2 DEF RemovalStep
<1> QED
  BY <1>1, <1>2, <1>3, SignupChanges, EditChanges, Frames

\* However the requests of administrators overlap with each other, with sign-ups
\* and with changes of address, an account loses a role only to a request that
\* asks for it and is enabled again only by one that asks for it, or by a change
\* of address that had loaded it when it was enabled.
THEOREM OnlyAskedChanges == Spec => ChangesAreAsked
<1>1. TypeInv /\ AccountsInv /\ [Next]_vars =>
          [\A u \in DOMAIN accounts \cap DOMAIN accounts' :
              /\ \A r \in accounts[u].roles \ accounts'[u].roles :
                    \E e \in Edits : AsksToTake(e, u, r)
              /\ accounts'[u].enabled /\ ~accounts[u].enabled =>
                    \/ \E e \in Edits : editing[e].at = "enabled" /\ editing[e].q.user = u
                                            /\ editing[e].q.enabled = TRUE
                    \/ \E s \in Saves : saving[s].at = "email" /\ saving[s].user = u
                                            /\ saving[s].enabled = TRUE]_accounts
  BY AccountsChange DEF ChangesHold, AccountChanges, MaySwitchOn
<1> QED
  BY <1>1, TypeInvariant, AccountsInvariant, PTL DEF Spec, ChangesAreAsked
-----------------------------------------------------------------------------
(* Finished sign-ups and their invites.                                    *)

\* What a step may do to the record n of a signup: it begins, or goes on with
\* the same invite and looks its account up once.
SignupGoesOn(n, m) ==
    \/ m = n
    \/ /\ n.at \notin {"idle", "done"}
       /\ m.at # "idle" /\ m.invite = n.invite /\ m.seen = n.seen
       /\ \/ m.user = n.user
          \/ n.user = None /\ m.at = "password"

LEMMA SignupsGoOn ==
    ASSUME TypeInv, AccountsInv, [Next]_vars, NEW s \in Signups,
           ~\E n \in Logins, i \in Invites \cup {None} : BeginSignup(s, n, i)
    PROVE  SignupGoesOn(signing[s], signing'[s])
<1>0. DOMAIN signing = Signups /\ SignupTyped(signing[s])
  BY DEF AccountsInv, SignupsHold, TypeInv, SignupsTyped
<1>1. CASE signing'[s] = signing[s]
  BY <1>1 DEF SignupGoesOn
<1>2. ASSUME NEW at, Go(s, at), signing[s].at \notin {"idle", "done"}, at # "idle"
      PROVE  SignupGoesOn(signing[s], signing'[s])
  <2>1. signing'[s] = [signing[s] EXCEPT !.at = at]
    BY <1>0, <1>2 DEF Go
  <2> QED
    BY <1>0, <1>2, <2>1 DEF SignupGoesOn, SignupTyped, HasFields
<1>3. CASE CreateAccount(s)
  <2>1. PICK u \in Users \ DOMAIN made, at \in {"find", "failed"} :
            signing' = [signing EXCEPT ![s].at = at, ![s].made = u]
    BY <1>3 DEF CreateAccount, Answered
  <2>2. signing'[s] = [signing[s] EXCEPT !.at = at, !.made = u]
    BY <1>0, <2>1
  <2> QED
    BY <1>0, <1>3, <2>2 DEF CreateAccount, SignupGoesOn, SignupTyped, HasFields
<1>4. CASE FindAccount(s)
  <2>1. PICK u : signing' = [signing EXCEPT ![s].at = "password", ![s].user = u]
    BY <1>4 DEF FindAccount
  <2>2. signing'[s] = [signing[s] EXCEPT !.at = "password", !.user = u]
    BY <1>0, <2>1
  <2> QED
    BY <1>0, <1>4, <2>2 DEF FindAccount, SignupGoesOn, SignupTyped, HasFields
<1>5. CASE RefuseLogin(s) \/ SetPassword(s) \/ GiveRole(s) \/ ConsumeInvite(s) \/ FailSignup(s)
  BY <1>2, <1>5 DEF RefuseLogin, SetPassword, GiveRole, ConsumeInvite, FailSignup, Answered
<1>6. ASSUME NEW r \in Signups, r # s, NEW n \in Logins, NEW i \in Invites \cup {None},
             \/ BeginSignup(r, n, i) \/ CreateAccount(r) \/ RefuseLogin(r) \/ FindAccount(r)
             \/ SetPassword(r) \/ GiveRole(r) \/ ConsumeInvite(r) \/ FailSignup(r)
      PROVE  signing'[s] = signing[s]
  BY <1>0, <1>6 DEF BeginSignup, CreateAccount, RefuseLogin, FindAccount, SetPassword,
     GiveRole, ConsumeInvite, FailSignup, Go
<1>7. CASE SignupStep
  <2>1. PICK r \in Signups :
            \/ \E n \in Logins, i \in Invites \cup {None} : BeginSignup(r, n, i)
            \/ CreateAccount(r) \/ RefuseLogin(r) \/ FindAccount(r) \/ SetPassword(r)
            \/ GiveRole(r) \/ ConsumeInvite(r) \/ FailSignup(r)
    BY <1>7 DEF SignupStep
  <2>2. CASE r = s
    BY <1>3, <1>4, <1>5, <2>1, <2>2
  <2>3. CASE r # s
    <3>1. CASE \E n \in Logins, i \in Invites \cup {None} : BeginSignup(r, n, i)
      BY <1>1, <1>6, <2>3, <3>1
    <3>2. CASE ~\E n \in Logins, i \in Invites \cup {None} : BeginSignup(r, n, i)
      <4>1. signing'[s] = signing[s]
        BY <1>0, <2>1, <2>3, <3>2 DEF CreateAccount, RefuseLogin, FindAccount, SetPassword,
           GiveRole, ConsumeInvite, FailSignup, Go
      <4> QED
        BY <1>1, <4>1
    <3> QED
      BY <3>1, <3>2
  <2> QED
    BY <2>2, <2>3
<1> QED
  BY <1>1, <1>7, Frames

\* What a request of an administrator has begun with.
EditsKept ==
    \A e \in Edits : editing[e].at # "idle" =>
        editing'[e].at # "idle" /\ editing'[e].q = editing[e].q

LEMMA EditsStay ==
    ASSUME TypeInv, [Next]_vars
    PROVE  EditsKept
<1>0. DOMAIN editing = Edits /\ \A e \in Edits : EditTyped(editing[e])
  BY DEF TypeInv, EditsTyped
<1>1. CASE UNCHANGED editing
  BY <1>1 DEF EditsKept
<1>2. ASSUME NEW e \in Edits, NEW m, editing' = [editing EXCEPT ![e] = m],
             editing[e].at # "idle" => m.at # "idle" /\ m.q = editing[e].q
      PROVE  EditsKept
  <2>1. \A d \in Edits : editing'[d] = IF d = e THEN m ELSE editing[d]
    BY <1>0, <1>2
  <2> QED
    BY <1>2, <2>1 DEF EditsKept
<1>3. ASSUME NEW e \in Edits, NEW q \in Requests, BeginEdit(e, q) PROVE EditsKept
  BY <1>2, <1>3 DEF BeginEdit
<1>4. ASSUME NEW e \in Edits, NEW at, Proceed(e, at), at # "idle", editing[e].at # "idle"
      PROVE  EditsKept
  <2>1. editing' = [editing EXCEPT ![e] = [editing[e] EXCEPT !.at = at]]
    BY <1>4 DEF Proceed
  <2>2. EditTyped(editing[e])
    BY <1>0
  <2>3. [editing[e] EXCEPT !.at = at].at = at /\ [editing[e] EXCEPT !.at = at].q = editing[e].q
    BY <1>4, <2>2 DEF EditTyped, HasFields
  <2> QED
    BY <1>2, <1>4, <2>1, <2>3
<1>5. ASSUME NEW e \in Edits, NEW k \in 0 .. 7, Proceed(e, StageAfter(editing[e].q, k)),
             editing[e].at # "idle"
      PROVE  EditsKept
  <2>1. StageAfter(editing[e].q, k) # "idle"
    BY NextStageIsAsked, StagesAre
  <2> QED
    BY <1>4, <1>5, <2>1
<1>6. ASSUME NEW e \in Edits, NEW k, NEW adds, NEW drops, PlanRoles(e, k, adds, drops),
             editing[e].at # "idle"
      PROVE  EditsKept
  <2> DEFINE m == [editing[e] EXCEPT !.at = "roles", !.then = StageAfter(editing[e].q, k),
                                     !.adds = adds, !.drops = drops]
  <2>1. editing' = [editing EXCEPT ![e] = m]
    BY <1>0, <1>6 DEF PlanRoles
  <2>2. EditTyped(editing[e])
    BY <1>0
  <2>3. m.at = "roles" /\ m.q = editing[e].q
    BY <1>6, <2>2 DEF EditTyped, HasFields
  <2> HIDE DEF m
  <2> QED
    BY <1>2, <2>1, <2>3
<1>7. ASSUME NEW e \in Edits, NEW s, SetName(e, s) PROVE EditsKept
  <2> DEFINE m == [editing[e] EXCEPT !.at = "naming", !.save = s]
  <2>1. editing' = [editing EXCEPT ![e] = m]
    BY <1>0, <1>7 DEF SetName
  <2>2. EditTyped(editing[e])
    BY <1>0
  <2>3. m.at = "naming" /\ m.q = editing[e].q
    BY <1>7, <2>2 DEF EditTyped, HasFields, SetName
  <2> HIDE DEF m
  <2> QED
    BY <1>2, <2>1, <2>3
<1>8. ASSUME NEW e \in Edits, NEW r, AssignRole(e, r) \/ RemoveRole(e, r) PROVE EditsKept
  <2>1. EditTyped(editing[e]) /\ editing[e].at = "roles"
    BY <1>0, <1>8 DEF AssignRole, RemoveRole
  <2>2. PICK at \in {"roles", "failed"} :
            \/ editing' = [editing EXCEPT ![e].adds = @ \ {r}, ![e].at = at]
            \/ editing' = [editing EXCEPT ![e].drops = @ \ {r}, ![e].at = at]
    BY <1>8 DEF AssignRole, RemoveRole, Answered
  <2>3. PICK m : /\ editing' = [editing EXCEPT ![e] = m]
                 /\ \/ m = [editing[e] EXCEPT !.adds = @ \ {r}, !.at = at]
                    \/ m = [editing[e] EXCEPT !.drops = @ \ {r}, !.at = at]
    BY <1>0, <2>2
  <2>4. m.at = at /\ m.q = editing[e].q
    BY <2>1, <2>3 DEF EditTyped, HasFields
  <2> QED
    BY <1>2, <2>3, <2>4
<1>9. CASE EditStep
  <2>1. PICK e \in Edits :
          \/ \E q \in Requests : BeginEdit(e, q)
          \/ SetEnabled(e) \/ SetBadge(e) \/ NameSet(e) \/ ReadRoles(e) \/ NameRoles(e)
          \/ RolesSet(e) \/ FailEdit(e)
          \/ \E s \in Saves : SetName(e, s)
          \/ \E r : AssignRole(e, r) \/ RemoveRole(e, r)
    BY <1>9 DEF EditStep
  <2>2. CASE SetEnabled(e) \/ SetBadge(e) \/ NameSet(e) \/ FailEdit(e)
    BY <1>4, <1>5, <2>2 DEF SetEnabled, SetBadge, NameSet, FailEdit, Answered
  <2>3. CASE RolesSet(e)
    <3>1. EditTyped(editing[e])
      BY <1>0
    <3> QED
      BY <1>4, <2>3, <3>1, StagesAre DEF RolesSet, EditTyped
  <2>4. CASE ReadRoles(e) \/ NameRoles(e)
    BY <1>6, <2>4 DEF ReadRoles, NameRoles
  <2> QED
    BY <1>3, <1>7, <1>8, <2>1, <2>2, <2>3, <2>4
<1> QED
  BY <1>1, <1>9, Frames
Untouched(u) == \A e \in Edits : editing[e].at # "idle" => editing[e].q.user # u

\* What a signup has done to its account is there as long as the account is,
\* unless an administrator has a hand in it.
WorkHolds(s) ==
    LET n == signing[s] IN
    /\ n.at \in {"password", "role", "consume", "done"} => n.user \in DOMAIN made
    /\ n.at \in {"role", "consume", "done"} /\ n.user \in DOMAIN accounts =>
          accounts[n.user].password # None
    /\ n.at \in {"consume", "done"} /\ n.user \in DOMAIN accounts /\ Untouched(n.user) =>
          "user" \in accounts[n.user].roles

WorkInv == \A s \in Signups : WorkHolds(s)

LEMMA WorkStays ==
    ASSUME TypeInv, AccountsInv, [Next]_vars, NEW s \in Signups, WorkHolds(s),
           signing'[s].at = signing[s].at, signing'[s].user = signing[s].user
    PROVE  WorkHolds(s)'
<1> DEFINE u == signing[s].user
<1>1. ChangesHold /\ EditsKept
  BY AccountsChange, EditsStay
<1>2. /\ \A v \in DOMAIN made : v \in DOMAIN made'
      /\ u \in DOMAIN made /\ u \in DOMAIN accounts' => u \in DOMAIN accounts
  BY AccountsStep, MadeStays DEF AccountsInv, Gone
<1>3. CASE signing[s].at \notin {"password", "role", "consume", "done"}
  BY <1>3 DEF WorkHolds
<1>4. CASE u \in DOMAIN made /\ u \notin DOMAIN accounts'
  BY <1>2, <1>4 DEF WorkHolds
<1>5. CASE u \in DOMAIN made /\ u \in DOMAIN accounts'
  <2>1. u \in DOMAIN accounts /\ AccountChanges(u)
    BY <1>1, <1>2, <1>5 DEF ChangesHold
  <2>2. None \notin Signups
    BY AccountsAssumption
  <2>3. accounts[u].password # None => accounts'[u].password # None
    BY <2>1, <2>2 DEF AccountChanges
  <2>4. Untouched(u)' => Untouched(u)
    BY <1>1 DEF Untouched, EditsKept
  <2>5. ASSUME Untouched(u)', "user" \in accounts[u].roles PROVE "user" \in accounts'[u].roles
    <3> SUFFICES ASSUME "user" \notin accounts'[u].roles PROVE FALSE
      OBVIOUS
    <3>1. PICK e \in Edits : AsksToTake(e, u, "user")
      BY <2>1, <2>5 DEF AccountChanges
    <3>2. editing[e].at # "idle" /\ editing[e].q.user = u
      BY <3>1 DEF AsksToTake
    <3> QED
      BY <2>4, <2>5, <3>2 DEF Untouched
  <2> HIDE DEF u
  <2> QED
    BY <1>2, <1>5, <2>1, <2>3, <2>4, <2>5 DEF WorkHolds, u
<1> QED
  BY <1>3, <1>4, <1>5 DEF WorkHolds

LEMMA WorkInvStep ==
    ASSUME TypeInv, AccountsInv, WorkInv, [Next]_vars
    PROVE  WorkInv'
<1>0. DOMAIN signing = Signups /\ \A s \in Signups : SignupTyped(signing[s]) /\ WorkHolds(s)
  BY DEF AccountsInv, SignupsHold, TypeInv, SignupsTyped, WorkInv
<1>1. \A s \in Signups : signing'[s] = signing[s] => WorkHolds(s)'
  BY <1>0, WorkStays
<1>2. ASSUME NEW s \in Signups, NEW at, Go(s, at), signing[s].at # "idle"
      PROVE  /\ signing'[s].at = at /\ signing'[s].user = signing[s].user
             /\ \A r \in Signups \ {s} : signing'[r] = signing[r]
  <2>1. /\ signing'[s] = [signing[s] EXCEPT !.at = at]
        /\ \A r \in Signups \ {s} : signing'[r] = signing[r]
    BY <1>0, <1>2 DEF Go
  <2> QED
    BY <1>0, <1>2, <2>1 DEF SignupTyped, HasFields
<1>3. ASSUME NEW s \in Signups, Go(s, "refused") \/ Go(s, "failed"), signing[s].at # "idle"
      PROVE  WorkInv'
  <2>1. PICK at \in {"refused", "failed"} : Go(s, at)
    BY <1>3
  <2>2. WorkHolds(s)'
    BY <1>2, <1>3, <2>1 DEF WorkHolds
  <2> QED
    BY <1>1, <1>2, <1>3, <2>1, <2>2 DEF WorkInv
<1>4. ASSUME NEW s \in Signups, NEW n, NEW i, BeginSignup(s, n, i) PROVE WorkInv'
  <2>1. signing'[s].at = "create" /\ \A r \in Signups \ {s} : signing'[r] = signing[r]
    BY <1>0, <1>4 DEF BeginSignup
  <2> QED
    BY <1>1, <2>1 DEF WorkInv, WorkHolds
<1>5. ASSUME NEW s \in Signups, CreateAccount(s) PROVE WorkInv'
  <2>1. PICK u \in Users \ DOMAIN made, at \in {"find", "failed"} :
            signing' = [signing EXCEPT ![s].at = at, ![s].made = u]
    BY <1>5 DEF CreateAccount, Answered
  <2>2. /\ signing'[s] = [signing[s] EXCEPT !.at = at, !.made = u]
        /\ \A r \in Signups \ {s} : signing'[r] = signing[r]
    BY <1>0, <2>1
  <2>3. signing'[s].at = at
    BY <1>0, <1>5, <2>2 DEF CreateAccount, SignupTyped, HasFields
  <2> QED
    BY <1>1, <2>2, <2>3 DEF WorkInv, WorkHolds
<1>6. ASSUME NEW s \in Signups, FindAccount(s) PROVE WorkInv'
  <2>1. PICK u \in TakenBy(signing[s].login) :
            signing' = [signing EXCEPT ![s].at = "password", ![s].user = u]
    BY <1>6 DEF FindAccount
  <2>2. /\ signing'[s] = [signing[s] EXCEPT !.at = "password", !.user = u]
        /\ \A r \in Signups \ {s} : signing'[r] = signing[r]
    BY <1>0, <2>1
  <2>3. signing'[s].at = "password" /\ signing'[s].user = u
    BY <1>0, <1>6, <2>2 DEF FindAccount, SignupTyped, HasFields
  <2>4. u \in DOMAIN made'
    BY <1>6, <2>1 DEF FindAccount, TakenBy, AccountsInv, AccountsHeld, keycloakVars
  <2> QED
    BY <1>1, <2>2, <2>3, <2>4 DEF WorkInv, WorkHolds
<1>7. ASSUME NEW s \in Signups, SetPassword(s) PROVE WorkInv'
  <2> DEFINE u == signing[s].user
  <2>1. u \in DOMAIN accounts /\ u \in DOMAIN made' /\ signing[s].at = "password"
    BY <1>7 DEF SetPassword, AccountsInv, AccountsHeld
  <2>2. CASE Go(s, "failed")
    BY <1>3, <2>1, <2>2
  <2>3. CASE Go(s, "role")
    <3>1. accounts'[u].password = s
      BY <1>7, <2>1 DEF SetPassword, TypeInv, KeycloakTyped, AccountType
    <3>2. s # None
      BY AccountsAssumption
    <3>3. WorkHolds(s)'
      BY <1>2, <2>1, <2>3, <3>1, <3>2 DEF WorkHolds
    <3> QED
      BY <1>1, <1>2, <2>1, <2>3, <3>3 DEF WorkInv
  <2> QED
    BY <1>7, <2>2, <2>3 DEF SetPassword, Answered
<1>8. ASSUME NEW s \in Signups, GiveRole(s) PROVE WorkInv'
  <2> DEFINE u == signing[s].user
  <2>1. u \in DOMAIN accounts /\ u \in DOMAIN made' /\ signing[s].at = "role"
    BY <1>8 DEF GiveRole, AccountsInv, AccountsHeld
  <2>2. CASE Go(s, "failed")
    BY <1>3, <2>1, <2>2
  <2>3. CASE Go(s, "consume")
    <3>1. "user" \in accounts'[u].roles /\ accounts'[u].password = accounts[u].password
      BY <1>8, <2>1 DEF GiveRole, TypeInv, KeycloakTyped, AccountType
    <3>2. accounts[u].password # None
      BY <1>0, <2>1 DEF WorkHolds
    <3>3. WorkHolds(s)'
      BY <1>2, <2>1, <2>3, <3>1, <3>2 DEF WorkHolds
    <3> QED
      BY <1>1, <1>2, <2>1, <2>3, <3>3 DEF WorkInv
  <2> QED
    BY <1>8, <2>2, <2>3 DEF GiveRole, Answered
<1>9. ASSUME NEW s \in Signups, ConsumeInvite(s) PROVE WorkInv'
  <2>1. /\ signing[s].at = "consume" /\ Go(s, "done") /\ UNCHANGED <<accounts, made, editing>>
    BY <1>9 DEF ConsumeInvite, KeepForSignup, keycloakVars
  <2>2. WorkHolds(s)'
    BY <1>0, <1>2, <2>1 DEF WorkHolds, Untouched
  <2> QED
    BY <1>1, <1>2, <2>1, <2>2 DEF WorkInv
<1>10. CASE SignupStep
  BY <1>3, <1>4, <1>5, <1>6, <1>7, <1>8, <1>9, <1>10 DEF SignupStep, RefuseLogin, FailSignup
<1>11. CASE UNCHANGED signing
  BY <1>1, <1>11 DEF WorkInv
<1> QED
  BY <1>10, <1>11, Frames

LEMMA WorkInvariant == Spec => []WorkInv
<1>1. Init => WorkInv
  BY DEF Init, WorkInv, WorkHolds
<1> QED
  BY <1>1, WorkInvStep, TypeInvariant, AccountsInvariant, PTL DEF Spec

\* Whichever calls of other sign-ups, edits and deletions come between, and
\* whichever fail, who was told "created" has an account with a password and the
\* role, until it is deleted or an administrator edits it.
THEOREM SignupsAreComplete == Spec => []SignedUpIsComplete
<1>1. WorkInv => SignedUpIsComplete
  BY DEF WorkInv, WorkHolds, Untouched, SignedUpIsComplete
<1> QED
  BY <1>1, WorkInvariant, PTL

-----------------------------------------------------------------------------
(* Invites.                                                                *)

\* Somebody else has used up the invite for the user of signup s.
Shared(s) ==
    \E q \in Signups \ {s} : signing[q].at # "idle" /\ signing[q].user = signing[s].user

SameInvite(s, r) ==
    /\ signing[r].at # "idle" /\ s \in signing[r].seen
    /\ signing[s].invite = signing[r].invite
    /\ signing[s].invite \in DOMAIN invites

InvitesHold(s, r) ==
    /\ signing[r].at # "idle" /\ s \in signing[r].seen => signing[s].at = "done"
    /\ SameInvite(s, r) /\ invites[signing[s].invite].usedBy = signing[s].user => Shared(s)

InvitesInv == \A s, r \in Signups : InvitesHold(s, r)

LEMMA InvitesChange ==
    ASSUME TypeInv, [Next]_vars, NEW i \in DOMAIN invites'
    PROVE  \/ invites'[i].usedBy = None
           \/ i \in DOMAIN invites /\ invites'[i].usedBy = invites[i].usedBy
           \/ \E q \in Signups : /\ signing[q].at = "consume" /\ signing[q].invite = i
                                 /\ invites'[i].usedBy = signing[q].user
                                 /\ Go(q, "done")
<1>0. \A j \in DOMAIN invites : invites[j] \in [usedBy : Users \cup {None}, expired : BOOLEAN]
  BY DEF TypeInv, InvitesTyped
<1>1. CASE UNCHANGED inviteVars
  BY <1>1 DEF inviteVars
<1>2. CASE SettingStep
  <2>1. ASSUME NEW b \in BOOLEAN, SetRegistration(b)
        PROVE  i \in DOMAIN invites /\ invites'[i].usedBy = invites[i].usedBy
    BY <2>1 DEF SetRegistration
  <2>2. ASSUME NEW j \in Invites, CreateInvite(j)
        PROVE  \/ invites'[i].usedBy = None
               \/ i \in DOMAIN invites /\ invites'[i].usedBy = invites[i].usedBy
    BY <2>2 DEF CreateInvite, Put
  <2>3. ASSUME NEW j \in Invites, ExpireInvite(j)
        PROVE  i \in DOMAIN invites /\ invites'[i].usedBy = invites[i].usedBy
    <3>1. invites[j] \in [usedBy : Users \cup {None}, expired : BOOLEAN]
      BY <1>0, <2>3 DEF ExpireInvite
    <3>2. [invites[j] EXCEPT !.expired = TRUE].usedBy = invites[j].usedBy
      BY <3>1
    <3> QED
      BY <2>3, <3>2 DEF ExpireInvite
  <2>4. ASSUME NEW j \in Invites, DeleteInvite(j)
        PROVE  i \in DOMAIN invites /\ invites'[i].usedBy = invites[i].usedBy
    BY <2>4 DEF DeleteInvite
  <2> QED
    BY <1>2, <2>1, <2>2, <2>3, <2>4 DEF SettingStep
<1>3. CASE SignupStep
  <2>1. ASSUME NEW q \in Signups, ConsumeInvite(q), invites' # invites
        PROVE  \/ i \in DOMAIN invites /\ invites'[i].usedBy = invites[i].usedBy
               \/ /\ signing[q].at = "consume" /\ signing[q].invite = i
                  /\ invites'[i].usedBy = signing[q].user
                  /\ Go(q, "done")
    BY <1>0, <2>1 DEF ConsumeInvite, InviteUsable
  <2> QED
    BY <1>1, <1>3, <2>1 DEF SignupStep, BeginSignup, CreateAccount, RefuseLogin, FindAccount,
       SetPassword, GiveRole, FailSignup, KeepForSignup
<1> QED
  BY <1>1, <1>2, <1>3, Frames

\* Who shares the user of a finished signup goes on sharing it.
LEMMA SharedStays ==
    ASSUME TypeInv, AccountsInv, [Next]_vars, NEW s \in Signups, signing[s].at = "done",
           signing'[s] = signing[s], Shared(s)
    PROVE  Shared(s)'
<1>1. PICK q \in Signups \ {s} : signing[q].at # "idle" /\ signing[q].user = signing[s].user
  BY DEF Shared
<1>2. signing[s].user \in Users /\ signing[s].user # None
  BY AccountsAssumption DEF TypeInv, SignupsTyped, SignupTyped
<1>3. ~\E n \in Logins, i \in Invites \cup {None} : BeginSignup(q, n, i)
  BY <1>1 DEF BeginSignup
<1>4. SignupGoesOn(signing[q], signing'[q])
  BY <1>3, SignupsGoOn
<1>5. signing'[q].at # "idle" /\ signing'[q].user = signing'[s].user
  BY <1>1, <1>2, <1>4 DEF SignupGoesOn
<1> QED
  BY <1>5 DEF Shared

LEMMA InvitesInvStep ==
    ASSUME TypeInv, AccountsInv, InvitesInv, [Next]_vars
    PROVE  InvitesInv'
<1> SUFFICES ASSUME NEW s \in Signups, NEW r \in Signups,
                    signing'[r].at # "idle", s \in signing'[r].seen
             PROVE  InvitesHold(s, r)'
  BY DEF InvitesInv, InvitesHold, SameInvite
<1>0. DOMAIN signing = Signups /\ \A q \in Signups : SignupTyped(signing[q])
  BY DEF AccountsInv, SignupsHold, TypeInv, SignupsTyped
<1>1. /\ signing[s].at = "done" /\ signing'[s] = signing[s]
      /\ signing'[r].invite = signing[s].invite /\ signing[s].invite \in DOMAIN invites
             /\ invites[signing[s].invite].usedBy = signing[s].user => Shared(s)
  <2>1. CASE \E n \in Logins, i \in Invites \cup {None} : BeginSignup(r, n, i)
    <3>1. PICK n \in Logins, i \in Invites \cup {None} : BeginSignup(r, n, i)
      BY <2>1
    <3>2. /\ signing'[r].seen = {q \in Signups : signing[q].at = "done"}
          /\ signing'[r].invite = i
          /\ \A q \in Signups \ {r} : signing'[q] = signing[q]
      BY <1>0, <3>1 DEF BeginSignup
    <3>3. signing[s].at = "done" /\ s # r
      BY <3>1, <3>2 DEF BeginSignup
    <3>4. i \in DOMAIN invites => i # None /\ invites[i].usedBy = None
      <4>1. None \notin DOMAIN invites
        BY AccountsAssumption DEF TypeInv, InvitesTyped
      <4> QED
        BY <3>1, <4>1 DEF BeginSignup, InviteUsable
    <3>5. signing[s].user # None
      BY <1>0, <3>3, AccountsAssumption DEF SignupTyped
    <3> QED
      BY <3>2, <3>3, <3>4, <3>5
  <2>2. CASE ~\E n \in Logins, i \in Invites \cup {None} : BeginSignup(r, n, i)
    <3>1. SignupGoesOn(signing[r], signing'[r])
      BY <2>2, SignupsGoOn
    <3>2. /\ signing[r].at # "idle" /\ s \in signing[r].seen
          /\ signing'[r].invite = signing[r].invite
      BY <3>1 DEF SignupGoesOn
    <3>3. signing[s].at = "done" /\ InvitesHold(s, r)
      BY <3>2 DEF InvitesInv, InvitesHold
    <3>4. signing'[s] = signing[s]
      BY <3>3, SignupsGoOn DEF SignupGoesOn, BeginSignup
    <3> QED
      BY <3>2, <3>3, <3>4 DEF InvitesHold, SameInvite
  <2> QED
    BY <2>1, <2>2
<1> DEFINE i == signing[s].invite
<1>2. ASSUME SameInvite(s, r)', invites'[i].usedBy = signing[s].user PROVE Shared(s)'
  <2>1. i \in DOMAIN invites' /\ signing'[r].invite = i
    BY <1>1, <1>2 DEF SameInvite
  <2>2. signing[s].user # None
    BY <1>0, <1>1, AccountsAssumption DEF SignupTyped
  <2> HIDE DEF i
  <2>3. CASE i \in DOMAIN invites /\ invites'[i].usedBy = invites[i].usedBy
    BY <1>1, <1>2, <2>1, <2>3, SharedStays DEF i
  <2>4. ASSUME NEW q \in Signups, signing[q].at = "consume", signing[q].invite = i,
               invites'[i].usedBy = signing[q].user, Go(q, "done")
        PROVE  Shared(s)'
    <3>1. signing'[q] = [signing[q] EXCEPT !.at = "done"]
      BY <1>0, <2>4 DEF Go
    <3>2. signing'[q].at = "done" /\ signing'[q].user = signing[q].user
      BY <1>0, <2>4, <3>1 DEF SignupTyped, HasFields
    <3>3. q # s
      BY <1>1, <2>4
    <3> QED
      BY <1>1, <1>2, <2>4, <3>2, <3>3 DEF Shared
  <2> QED
    BY <1>2, <2>1, <2>2, <2>3, <2>4, InvitesChange
<1> QED
  BY <1>1, <1>2 DEF InvitesHold

\* However the sign-ups overlap, an invite that has been used up for a user whom
\* no other signup works for admits nobody who comes later.
THEOREM InvitesAdmitOnce == Spec => []InviteAdmitsOnce
<1>1. Init => InvitesInv
  BY DEF Init, InvitesInv, InvitesHold, SameInvite
<1>2. InvitesInv /\ TypeInv /\ AccountsInv /\ [Next]_vars => InvitesInv'
  BY InvitesInvStep
<1>3. InvitesInv => InviteAdmitsOnce
  BY DEF InvitesInv, InvitesHold, SameInvite, Shared, InviteAdmitsOnce
<1> QED
  BY <1>1, <1>2, <1>3, TypeInvariant, AccountsInvariant, PTL DEF Spec
=============================================================================
