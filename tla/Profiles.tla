------------------------------ MODULE Profiles ------------------------------
(***************************************************************************)
(* Display names and aliases: upsertRichUserProfile and its callers in     *)
(* internal/httpapi/server.go.  A display name becomes an alias of its     *)
(* user and stays one after the name is changed, so that old addresses of  *)
(* a profile keep leading to it.                                           *)
(*                                                                         *)
(* A save is one entry of saving: the check of the cooldown, which is a    *)
(* statement of its own, and a transaction that looks the alias up,        *)
(* inserts it (waiting for another transaction that is inserting the same  *)
(* alias), and commits.  Names are compared without case and blanks, as    *)
(* the code compares them; the other fields of a profile are left out.     *)
(***************************************************************************)
EXTENDS Naturals, FiniteSets

CONSTANTS Users,      \* subjects of the accounts
          Names,      \* display names
          Blank,      \* the empty display name, which is not claimed
          DeletedName,\* "Deleted User"
          Saves       \* the saves of a behaviour

\* deletedUserDummySub
Placeholder(u) == <<"deleted", u>>
Placeholders == {Placeholder(u) : u \in Users}

ASSUME ProfilesAssumption ==
    Blank \notin Names /\ DeletedName \in Names /\ Placeholders \cap Users = {}

VARIABLES names,      \* user_profiles: subject -> display name, for the rows there are
          cooling,    \* the users whose name changed less than 30 days ago
          aliases,    \* user_profile_aliases: name -> user
          saving,     \* where each save is
          outraced    \* history: the users whose name went to another user while
                      \* they were saving it

profileVars == <<names, cooling, aliases, saving, outraced>>

NameOf(u) == IF u \in DOMAIN names THEN names[u] ELSE Blank

Put(f, x, y) == [z \in DOMAIN f \cup {x} |-> IF z = x THEN y ELSE f[z]]

\* enforceDisplayNameChangePolicy; an administrator is let through.
MayRename(u, n, admin) == admin \/ NameOf(u) = n \/ u \notin cooling

\* meProfileUpdate and adminUpdateUser
BeginSave(s, u, n, admin) ==
    /\ saving[s].at = "idle"
    /\ saving' = [saving EXCEPT ![s] =
          IF MayRename(u, n, admin)
          THEN [at |-> "lookup", user |-> u, name |-> n]
          ELSE [at |-> "refused", user |-> u, name |-> n]]
    /\ UNCHANGED <<names, cooling, aliases, outraced>>

\* Mutant: errProfileAliasTaken is not returned.
LookUpAliasOnly(s) ==
    LET u == saving[s].user
        n == saving[s].name IN
    /\ saving[s].at = "lookup"
    /\ saving' = [saving EXCEPT ![s] =
          [at |-> "insert", user |-> u, name |-> n, prev |-> NameOf(u),
           free |-> n \notin DOMAIN aliases]]
    /\ UNCHANGED <<names, cooling, aliases, outraced>>

\* The reads of the transaction: the former name and the owner of the alias.
\* free (history): the alias was nobody's.
LookUpAlias(s) ==
    LET u == saving[s].user
        n == saving[s].name
        taken == n \in DOMAIN aliases /\ aliases[n] # u IN
    /\ saving[s].at = "lookup"
    /\ saving' = [saving EXCEPT ![s] =
          [at |-> IF taken THEN "refused" ELSE "insert", user |-> u, name |-> n,
           prev |-> NameOf(u), free |-> n \notin DOMAIN aliases]]
    /\ UNCHANGED <<names, cooling, aliases, outraced>>

\* The saves whose open transaction has inserted or locked alias n.
Holding(n) == {s \in Saves : saving[s].at = "commit" /\ saving[s].name = n}

\* INSERT ... ON CONFLICT DO UPDATE ... WHERE the alias is the user's own: no row
\* is written, and nobody looks, when it is another user's by now.
InsertAlias(s) ==
    LET n == saving[s].name IN
    /\ saving[s].at = "insert"
    /\ n # Blank => Holding(n) = {}
    /\ saving' = [saving EXCEPT ![s] =
          [at |-> "commit", user |-> saving[s].user, name |-> n, prev |-> saving[s].prev,
           free |-> saving[s].free,
           mine |-> n \in DOMAIN aliases => aliases[n] = saving[s].user]]
    /\ UNCHANGED <<names, cooling, aliases, outraced>>

\* Mutant: ON CONFLICT DO UPDATE without its WHERE.
ClaimedOver(s) == saving[s].name # Blank

\* Mutant: the empty name is claimed.
ClaimedBlank(s) == saving[s].mine

\* Whether the INSERT of save s has written a row.
Claimed(s) == saving[s].name # Blank /\ saving[s].mine

\* The former name is claimed as well, if it is nobody else's.
FormerNames(s) ==
    LET p == saving[s].prev IN
    {p} \ ({Blank, saving[s].name} \cup
              {n \in DOMAIN aliases : aliases[n] # saving[s].user})

\* The claim of the former name, the profile and the commit
CommitSave(s) ==
    LET u == saving[s].user
        n == saving[s].name
        claims == FormerNames(s) \cup (IF Claimed(s) THEN {n} ELSE {})
        former == IF u \in DOMAIN names THEN names[u] ELSE saving[s].prev IN
    /\ saving[s].at = "commit"
    /\ aliases' = [x \in DOMAIN aliases \cup claims |->
                      IF x \in claims THEN u ELSE aliases[x]]
    /\ names' = Put(names, u, n)
    /\ cooling' = IF former # n THEN cooling \cup {u} ELSE cooling
    /\ outraced' = IF n # Blank /\ saving[s].free /\ ~saving[s].mine
                   THEN outraced \cup {u} ELSE outraced \ {u}
    /\ saving' = [saving EXCEPT ![s] = [at |-> "saved", user |-> u, name |-> n]]

\* The transaction is rolled back: a lost connection, or the victim of a deadlock.
AbortSave(s) ==
    /\ saving[s].at \in {"lookup", "insert", "commit"}
    /\ saving' = [saving EXCEPT ![s] =
          [at |-> "refused", user |-> saving[s].user, name |-> saving[s].name]]
    /\ UNCHANGED <<names, cooling, aliases, outraced>>

\* Thirty days pass.
CoolDown(u) ==
    /\ u \in cooling
    /\ cooling' = cooling \ {u}
    /\ UNCHANGED <<names, aliases, saving, outraced>>

\* The profile of a deleted account is removed (reassignDeletedUserReferences),
\* and its placeholder gets one, whose name is not claimed; its aliases stay.
RemoveProfile(u) ==
    /\ names' = [x \in (DOMAIN names \ {u}) \cup {Placeholder(u)} |->
                    IF x = Placeholder(u) THEN DeletedName ELSE names[x]]
    /\ cooling' = cooling \ {u}
    /\ outraced' = outraced \ {u}
    /\ UNCHANGED <<aliases, saving>>

\* setUserCreatorBadge makes the row of the profile when there is none.
TouchProfile(u) ==
    /\ names' = Put(names, u, NameOf(u))
    /\ UNCHANGED <<cooling, aliases, saving, outraced>>

\* resolveUserSubjectByIdentifier: a current name first, then an alias.  No name is
\* itself a subject.
Resolved(n) ==
    LET current == {u \in DOMAIN names : names[u] = n} IN
    IF current # {} THEN current
    ELSE IF n \in DOMAIN aliases THEN {aliases[n]} ELSE {}

SaveStep ==
    \/ \E s \in Saves :
          \/ LookUpAlias(s) \/ InsertAlias(s) \/ CommitSave(s) \/ AbortSave(s)
    \/ \E u \in Users : CoolDown(u)

ProfilesInit ==
    /\ names = <<>> /\ cooling = {} /\ aliases = <<>> /\ outraced = {}
    /\ saving = [s \in Saves |-> [at |-> "idle"]]

-----------------------------------------------------------------------------
(* Properties.                                                             *)

SaveStages == {"idle", "lookup", "insert", "commit", "saved", "refused"}

NamesTyped ==
    /\ DOMAIN names \subseteq Users \cup Placeholders
    /\ names \in [DOMAIN names -> Names \cup {Blank}]
    /\ DOMAIN aliases \subseteq Names /\ aliases \in [DOMAIN aliases -> Users]
    /\ cooling \subseteq Users /\ outraced \subseteq Users

\* An alias never changes hands: whoever has once used a name is found under it
\* for good, whatever is saved at the same time (claimUserProfileAlias).
AliasNeverMoves ==
    [][\A n \in DOMAIN aliases : n \in DOMAIN aliases' /\ aliases'[n] = aliases[n]]_aliases

\* The name of a user leads to one profile: who bears a display name owns it as
\* an alias and is the only user to bear it, and a former name still leads to its
\* owner.  The exceptions are a user whose INSERT lost against one that committed
\* between the look-up and the INSERT, and the placeholders, which share the name
\* of deleted users with whoever has claimed it, but no other name.
NamesResolve ==
    /\ \A u \in (DOMAIN names \cap Users) \ outraced :
          names[u] # Blank => names[u] \in DOMAIN aliases /\ aliases[names[u]] = u
    /\ \A n \in DOMAIN aliases :
          Resolved(n) \subseteq {aliases[n]} \cup outraced
              \cup (IF n = DeletedName THEN Placeholders ELSE {})
=============================================================================
