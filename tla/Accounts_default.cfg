SPECIFICATION MCSpec
CONSTANTS
    u1 = u1
    u2 = u2
    Users <- MCUsers
    Names <- MCNames
    Blank = ""
    DeletedName = "y"
    Saves <- MCSaves
    Logins <- MCLogins
    Invites <- MCInvites
    Signups <- MCSignups
    Edits <- MCEdits
    Requests <- MCRequests
    Removals <- MCRemovals
    None = None
    Keep = Keep
INVARIANTS TypeOK  SignupOwnsAccount SignedUpIsComplete InviteAdmitsOnce GhostsAreGone
PROPERTIES AliasNeverMoves ChangesAreAsked
CHECK_DEADLOCK FALSE
