------------------------------- MODULE Routes -------------------------------
(***************************************************************************)
(* The routes of the API as their controllers declare them: what each asks *)
(* for, on which resource, whether its target must be dominated, and which *)
(* movement of permissions its handler makes, by the service it calls:     *)
(*   "role"     RoleGrantService.grant, revoke                             *)
(*   "grant"    ResourceGrantService.create, revoke                        *)
(*   "mapping"  RolesService.setPermissions                                *)
(*   "edit"     RolesService.create, update, remove, and duplicate, which  *)
(*              creates before it sets permissions                         *)
(*   "release"  GovernanceFreezeService.release                            *)
(* Routes that are alike in all of this are one.                           *)
(* A code is the sequence of its parts: domain.share.all is                *)
(* <<"domain", "share", "all">>.                                           *)
(***************************************************************************)
LOCAL INSTANCE Sequences
LOCAL INSTANCE Integers

Each(family, actions) == {<<family, a>> : a \in actions}
All(family, actions)  == {<<family, a, "all">> : a \in actions}

\* The codes of the seed.
Permissions ==
  UNION {Each("member", {"read", "create", "update", "ban", "delete"}), {<<"member", "role", "assign">>},
         Each("file", {"upload", "read", "update", "delete", "share"}),
         All("file", {"share", "read", "delete"}),
         Each("domain", {"create", "read", "update", "delete", "verify", "transfer", "share"}),
         All("domain", {"share", "read", "update", "delete", "verify"}),
         {<<"admin", "role", "read">>, <<"admin", "role", "manage">>, <<"admin", "audit", "read">>},
         {<<"governance", "read">>, <<"governance", "freeze", "manage">>},
         {<<"system", "settings", "manage">>},
         Each("board", {"read", "write", "comment", "moderate", "manage"}), All("board", {"moderate"}),
         Each("post", {"update", "delete"}), All("post", {"delete"}),
         Each("comment", {"update", "delete"}), All("comment", {"delete"})}

\* /\.share(\.all)?$/
Shares(code) ==
  LET n == Len(code)
  IN code[n] = "share" \/ (code[n] = "all" /\ code[n - 1] = "share")

ExplicitFrozen ==
  {<<"member", "role", "assign">>, <<"admin", "role", "manage">>, <<"governance", "freeze", "manage">>}

\* Mutant of FrozenPermissions: the roles are left out of the explicit list.
FrozenWithoutRoles == {code \in Permissions : Shares(code)} \cup {<<"governance", "freeze", "manage">>}

\* FROZEN_PERMISSIONS
FrozenPermissions == {code \in Permissions : Shares(code)} \cup ExplicitFrozen

\* @Public, @AuthenticatedOnly, @RequirePermission without and with a resource, and
\* @RequireDominance.
Nothing == << >>

Public(handler)         == [handler |-> handler, needs |-> Nothing, on |-> "public", dominates |-> FALSE, moves |-> "none"]
Own(handler)            == [Public(handler) EXCEPT !.on = "self"]
Asks(handler, code)     == [Public(handler) EXCEPT !.needs = code, !.on = "none"]
On(type, handler, code) == [Asks(handler, code) EXCEPT !.on = type]
Dominates(route)        == [route EXCEPT !.dominates = TRUE]
Moves(what, route)      == [route EXCEPT !.moves = what]

AuthController ==
  {Public(h) : h \in {"signup", "verifyEmail", "login", "refresh", "requestReset", "confirmReset"}}
  \cup {Own(h) : h \in {"onboardingStatus", "onboardPassword", "onboardTotpBegin", "onboardTotpConfirm",
                        "reenrollBegin", "reenrollConfirm"}}

MeController     == {Own("me")}
HealthController == {Public(h) : h \in {"check", "live", "ready"}}

MembersController ==
  {Own(h) : h \in {"myProfile", "updateMyProfile", "requestEmailChange", "pendingEmailChange", "cancelEmailChange"}}
  \cup {Public("confirmEmailChange")}
  \cup {Asks(h, <<"member", "read">>) : h \in {"list", "detail", "manageable"}}
  \cup {Moves("role", Asks("create", <<"member", "create">>)),
        Dominates(Asks("update", <<"member", "update">>)),
        Dominates(Asks("ban", <<"member", "ban">>)),
        Dominates(Asks("unban", <<"member", "ban">>)),
        Moves("role", Dominates(Asks("grantRole", <<"member", "role", "assign">>))),
        Moves("role", Dominates(Asks("revokeRole", <<"member", "role", "assign">>))),
        Dominates(Asks("remove", <<"member", "delete">>))}

AdminRolesController ==
  LET manage == <<"admin", "role", "manage">>
  IN {Asks(h, <<"admin", "role", "read">>) : h \in {"list", "permissions", "detail"}}
     \cup {Moves("edit", Asks(h, manage)) : h \in {"create", "duplicate", "update", "remove"}}
     \cup {Moves("mapping", Asks(h, manage)) : h \in {"setPermissions"}}

AdminAuditController ==
  {Asks("versionOverview", <<"governance", "read">>), Asks("search", <<"admin", "audit", "read">>),
   Asks("simulate", <<"admin", "role", "read">>)}

SettingsController == {Asks(h, <<"system", "settings", "manage">>) : h \in {"list", "update", "test"}}

GovernanceController ==
  {Asks(h, <<"governance", "read">>) : h \in {"patrolStatus", "actions", "listFreezes", "anomalyFeed"}}
  \cup {Moves("release", Asks("release", <<"governance", "freeze", "manage">>))}

FilesController ==
  {Asks(h, <<"file", "upload">>) : h \in {"createUploadUrl", "completeUpload"}}
  \cup {Own("list")}
  \cup {On("file", h, <<"file", "read">>) : h \in {"detail", "downloadUrl"}}
  \cup {On("file", "rename", <<"file", "update">>), On("file", "remove", <<"file", "delete">>),
        On("file", "listShares", <<"file", "share">>),
        Moves("grant", On("file", "createShare", <<"file", "share">>)),
        Moves("grant", On("file", "revokeShare", <<"file", "read">>))}

AdminFilesController ==
  {Asks("listAll", <<"file", "read", "all">>), On("file", "detail", <<"file", "read", "all">>),
   On("file", "remove", <<"file", "delete", "all">>)}
  \cup {Moves("grant", On("file", h, <<"file", "share", "all">>)) : h \in {"createShare", "revokeShare"}}

DomainsController ==
  {Asks("create", <<"domain", "create">>), Own("list"),
   On("domain", "verify", <<"domain", "verify">>), On("domain", "update", <<"domain", "update">>),
   On("domain", "remove", <<"domain", "delete">>), On("domain", "listDelegations", <<"domain", "share">>),
   Moves("grant", On("domain", "createDelegation", <<"domain", "share">>)),
   Moves("grant", On("domain", "revokeDelegation", <<"domain", "read">>))}
  \cup {On("domain", h, <<"domain", "read">>) : h \in {"detail", "history"}}
  \cup {On("domain", h, <<"domain", "transfer">>) : h \in {"proposeTransfer", "cancelTransfer"}}

DomainTransfersController == {Own("listMine"), Own("accept")}

AdminDomainsController ==
  {Asks("listAll", <<"domain", "read", "all">>), On("domain", "detail", <<"domain", "read", "all">>),
   On("domain", "update", <<"domain", "update", "all">>), On("domain", "verify", <<"domain", "verify", "all">>),
   On("domain", "remove", <<"domain", "delete", "all">>),
   On("domain", "listDelegations", <<"domain", "share", "all">>),
   Moves("grant", On("domain", "revokeDelegation", <<"domain", "share", "all">>))}

BoardsController ==
  {Own(h) : h \in {"list", "searchPosts", "listPosts"}}
  \cup {On("board", "detail", <<"board", "read">>), Asks("create", <<"board", "manage">>),
        On("board", "createPost", <<"board", "write">>), On("board", "issueUpload", <<"file", "upload">>),
        Asks("completeUpload", <<"file", "upload">>),
        Moves("grant", On("board", "addMember", <<"board", "manage">>))}
  \cup {On("board", h, <<"board", "manage">>) : h \in {"update", "removeMember", "listCapabilities", "setCapability"}}

PostsController ==
  {On("post", h, <<"board", "read">>) :
     h \in {"detail", "report", "toggleReaction", "listReactions", "listComments"}}
  \cup {Own(h) : h \in {"update", "acceptAnswer", "setCoAuthors"}}
  \cup {On("post", "remove", <<"post", "delete">>), On("post", "moderate", <<"board", "moderate">>),
        On("post", "createComment", <<"board", "comment">>)}

CommentsController ==
  {On("comment", "update", <<"comment", "update">>), On("comment", "remove", <<"comment", "delete">>),
   On("comment", "toggleReaction", <<"board", "read">>)}

UserBlocksController    == {Own("toggle")}
NotificationsController == {Own("list"), Own("markRead")}

BoardAdminController ==
  {Asks(h, <<"board", "moderate", "all">>) : h \in {"moderateAll", "postForModerator", "listReports", "resolveReport"}}
  \cup {Asks("removePost", <<"post", "delete", "all">>), Asks("removeComment", <<"comment", "delete", "all">>),
        Asks("patrolStatus", <<"governance", "read">>)}

Routes ==
  UNION {AuthController, MeController, HealthController, MembersController, AdminRolesController,
         AdminAuditController, SettingsController, GovernanceController, FilesController,
         AdminFilesController, DomainsController, DomainTransfersController, AdminDomainsController,
         BoardsController, PostsController, CommentsController, UserBlocksController,
         NotificationsController, BoardAdminController}
=============================================================================
