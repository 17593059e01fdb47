------------------------------ MODULE Servers ------------------------------
(* One server with its members, roles and channels: internal/servers, the   *)
(* tables it keeps (with those of internal/conversations behind the         *)
(* channels), and the list of servers that the tab of each user holds       *)
(* (hooks/useServers.ts, useServerMutations.ts).                            *)
(*                                                                          *)
(* A request runs in a goroutine of its own.  An SQL statement, or a        *)
(* transaction that no other statement can see half done, is one step;      *)
(* statements of different requests interleave.  The queries a handler      *)
(* makes before its first write are one step with the arrival of the        *)
(* request when nothing they read is trusted later without a constraint.    *)
(* Refused requests change nothing and are left out.  A channel and the     *)
(* conversation behind it have one name.  Not kept: names, colours, the     *)
(* positions of roles (they only order a list) and images' bytes.           *)
EXTENDS Integers, FiniteSets

CONSTANTS
  Users, Roles, Channels, Requests,
  Tabs,          \* the users who have a tab open
  NoUser, NoRole, NoChannel, Absent,
  DefaultRole,   \* the role that createDefaultRole makes
  General,       \* the channel that Create makes
  RoleInputs,    \* the sets of permissions a role may be given
  Begun,         \* the servers that may exist at the start: records
  MaxRequests, MaxFaults

Permission == {"server", "roles", "channels", "kick"}
Decor == {"name", "icon", "banner"}

ASSUME ServersAssumption ==
  /\ DefaultRole \in Roles /\ General \in Channels /\ Tabs \subseteq Users
  /\ NoUser \notin Users /\ NoChannel \notin Channels
  /\ NoRole \notin Roles /\ Absent \notin Roles \cup {NoRole}
  /\ {} \in RoleInputs /\ RoleInputs \subseteq SUBSET Permission
  /\ IsFiniteSet(Channels)
  /\ MaxRequests \in Nat /\ MaxFaults \in Nat

(* Nothing is stored of a server yet to be made; in one that is there, the  *)
(* owner is a member without a role, and every other member has one.        *)
ASSUME BegunAssumption ==
  \A b \in Begun :
    /\ b.server \in {"unmade", "live"}
    /\ b.owner \in Users \cup {NoUser}
    /\ b.rank \in [Users -> Roles \cup {NoRole, Absent}]
    /\ b.roles \subseteq Roles /\ b.channels \subseteq Channels
    /\ b.grants \in [Roles -> RoleInputs]
    /\ b.position \in [Channels -> Nat]
    /\ b.server = "unmade" => b.channels = {} /\ \A u \in Users : b.rank[u] = Absent
    /\ b.server = "live" =>
         /\ b.owner \in Users /\ b.rank[b.owner] = NoRole /\ DefaultRole \in b.roles
         /\ \A u \in Users \ {b.owner} : b.rank[u] \in b.roles \cup {Absent}

VARIABLES
  server,    \* the row of servers: "unmade", "live" or "gone"
  owner,     \* its owner_id
  rank,      \* server_members: a role_id, NoRole for NULL, Absent for no row
  roles,     \* server_roles
  grants,    \* the permissions of each role
  look,      \* a changed name, an icon, a banner
  channels,  \* server_channels
  position,  \* their position
  convs,     \* the conversations behind channels
  inside,    \* conversation_members of each
  used,      \* role and channel ids handed out so far
  req,       \* the request each goroutine handles
  served,    \* requests begun
  view,      \* per user: the server as the tab's list shows it, or nothing
  reading,   \* per user: the first query of a running ListForUser
  held,      \* per user: the channels that a drag began with, or nothing
  due,       \* users whose list is invalidated, or about to be by an event
  faults,    \* queries that failed
  untold,    \* history: a change that not every member was told of
  settled,   \* history: users whose last membership request ran undisturbed, and
             \* who were not added to a channel's conversation alone since
  hasty      \* history: members given a role that was being deleted

serverRows == <<server, owner, rank, roles, grants, look>>
channelRows == <<channels, position, convs, inside>>
tabs == <<view, reading, held, due>>
history == <<untold, settled, hasty>>
vars == <<serverRows, channelRows, used, req, served, tabs, faults, history>>

Idle == [pc |-> "idle", op |-> "none", by |-> NoUser, user |-> NoUser,
         role |-> NoRole, channel |-> NoChannel, input |-> {}, todo |-> {},
         who |-> {}, at |-> 0, order |-> <<>>, prior |-> {}, alone |-> TRUE]

Members == {u \in Users : rank[u] # Absent}
IsMember(u) == server = "live" /\ u \in Members

(* A member's effective permissions: everything for the owner, what the     *)
(* role grants for the others; a role with the admin toggle grants all.     *)
Permissions(u) ==
  IF u = owner THEN Permission
  ELSE IF rank[u] \in roles THEN grants[rank[u]] ELSE {}

May(u, p) == IsMember(u) /\ p \in Permissions(u)

(* What ListForUser returns of the server.                                  *)
Summary(decor) ==
  [look |-> decor, rank |-> rank, grants |-> [r \in roles |-> grants[r]],
   places |-> [c \in channels |-> position[c]]]

Init ==
  \E b \in Begun :
    /\ server = b.server /\ owner = b.owner /\ rank = b.rank
    /\ roles = b.roles /\ grants = b.grants /\ look = {}
    /\ channels = b.channels /\ position = b.position
    /\ convs = b.channels
    /\ inside = [c \in Channels |->
                   IF c \in b.channels THEN {u \in Users : b.rank[u] # Absent} ELSE {}]
    /\ used = b.roles \cup b.channels
    /\ req = [q \in Requests |-> Idle]
    /\ served = 0
    /\ view = [u \in Users |->
                IF u \notin Tabs \/ b.rank[u] = Absent THEN {} ELSE {Summary({})}]
    /\ reading = [u \in Users |-> {}] /\ held = [u \in Users |-> {}]
    /\ due = {} /\ faults = 0
    /\ untold = FALSE /\ settled = Users /\ hasty = {}

-----------------------------------------------------------------------------
(* Requests in progress                                                     *)

Active(ops) == {q \in Requests : req[q].op \in ops}
About(u) == {q \in Active({"addMember", "removeMember"}) : req[q].user = u}
Making == Active({"create", "createChannel"})

Begin(q, r) ==
  /\ req[q].pc = "idle"
  /\ served < MaxRequests
  /\ served' = served + 1
  /\ req' = [req EXCEPT ![q] = r]

At(q, op, pc) == req[q].op = op /\ req[q].pc = pc
Goto(q, pc) == req' = [req EXCEPT ![q].pc = pc]

(* The tab of a user: an event about the server invalidates its list, and   *)
(* so does the hook that sent a request when the answer is a success.       *)
Invalidate(us) == due' = due \cup (us \cap Tabs)
OnSuccess(q) == {req[q].by}

(* useReorderChannels: at once the new order, of the channels there still   *)
(* are, and when it fails the former list; either way the list is fetched   *)
(* again in the end.                                                        *)
OnMutate(u, order) ==
  view' = [view EXCEPT ![u] =
    {[s EXCEPT !.places = [c \in DOMAIN order \cap DOMAIN s.places |-> order[c]]] : s \in @}]

OnError(q) ==
  /\ view' = [view EXCEPT ![req[q].by] = req[q].prior]
  /\ Invalidate({req[q].by})

(* The request ends in an error that the database or a constraint raised,   *)
(* and nobody hears of what it did until then.                              *)
Abort(q) ==
  /\ req' = [req EXCEPT ![q] = Idle]
  /\ untold' = TRUE
  /\ IF req[q].op = "reorder" THEN OnError(q) ELSE UNCHANGED <<view, due>>
  /\ UNCHANGED <<serverRows, channelRows, used, served, reading, held, settled, hasty>>

Fail(q) ==
  /\ req[q].pc \notin {"idle", "announce", "tell"}
  /\ faults < MaxFaults
  /\ faults' = faults + 1
  /\ Abort(q)

(* broadcastToServer after the change, to the members it finds then; a      *)
(* removed member is told directly.  The caller's hook invalidates its list *)
(* on the answer, which is sent even when the members cannot be listed.     *)
Announce(q) ==
  LET r == req[q]
      removed == IF r.op = "removeMember" THEN {r.user} ELSE {}
  IN
  /\ r.pc = "announce"
  /\ \/ Invalidate({u \in Users : IsMember(u)} \cup removed \cup OnSuccess(q))
        /\ UNCHANGED <<faults, untold>>
     \/ /\ faults < MaxFaults
        /\ faults' = faults + 1
        /\ untold' = TRUE
        /\ Invalidate(removed \cup OnSuccess(q))
  /\ settled' = IF r.op \in {"addMember", "removeMember"} /\ r.alone
                  THEN settled \cup {r.user} ELSE settled
  /\ req' = [req EXCEPT ![q] = Idle]
  /\ UNCHANGED <<serverRows, channelRows, used, served, view, reading, held, hasty>>

(* Answers without a broadcast to the current members: a new server has     *)
(* nobody else in it, and a deleted one is told to those listed before.     *)
Tell(q) ==
  /\ req[q].pc = "tell"
  /\ Invalidate(req[q].who \cup OnSuccess(q))
  /\ req' = [req EXCEPT ![q] = Idle]
  /\ UNCHANGED <<serverRows, channelRows, used, served, view, reading, held, faults, history>>

-----------------------------------------------------------------------------
(* Handlers: the arrival of a request that is allowed                       *)

Create(q, u) ==
  /\ server = "unmade" /\ Active({"create"}) = {}
  /\ Begin(q, [Idle EXCEPT !.pc = "server", !.op = "create", !.by = u, !.channel = General])
  /\ UNCHANGED <<serverRows, channelRows, used, tabs, faults, history>>

Update(q, u) ==
  /\ May(u, "server")
  /\ Begin(q, [Idle EXCEPT !.pc = "name", !.op = "update", !.by = u])
  /\ UNCHANGED <<serverRows, channelRows, used, tabs, faults, history>>

UploadServerImage(q, u, image) ==
  /\ May(u, "server")
  /\ Begin(q, [Idle EXCEPT !.pc = "upload", !.op = "image", !.by = u, !.input = {image}])
  /\ UNCHANGED <<serverRows, channelRows, used, tabs, faults, history>>

DeleteServerImage(q, u, image) ==
  /\ May(u, "server")
  /\ Begin(q, [Idle EXCEPT !.pc = "remove", !.op = "image", !.by = u, !.input = {image}])
  /\ UNCHANGED <<serverRows, channelRows, used, tabs, faults, history>>

(* Two requests about one member's place, or one and the making of a        *)
(* channel, disturb each other.                                             *)
BeginMembership(q, r) ==
  /\ req[q].pc = "idle"
  /\ served < MaxRequests
  /\ served' = served + 1
  /\ req' = [p \in Requests |->
               IF p = q THEN [r EXCEPT !.alone = About(r.user) = {} /\ Making = {}]
               ELSE IF p \in About(r.user) THEN [req[p] EXCEPT !.alone = FALSE]
               ELSE req[p]]
  /\ settled' = settled \ {r.user}

(* Any member may invite.                                                   *)
AddMember(q, u, m) ==
  /\ IsMember(u)
  /\ BeginMembership(q, [Idle EXCEPT !.pc = "insert", !.op = "addMember", !.by = u, !.user = m])
  /\ UNCHANGED <<serverRows, channelRows, used, tabs, faults, untold, hasty>>

(* Anyone may leave, and a member who may kick removes others; the owner    *)
(* stays.                                                                   *)
RemoveMember(q, u, m) ==
  /\ IsMember(u)
  /\ u = m \/ May(u, "kick")
  /\ m # owner
  /\ BeginMembership(q, [Idle EXCEPT !.pc = "list", !.op = "removeMember", !.by = u, !.user = m])
  /\ UNCHANGED <<serverRows, channelRows, used, tabs, faults, untold, hasty>>

(* conversations.Handler.AddMember: whoever is in the conversation behind a *)
(* channel may add any user to it.                                          *)
AddToConversation(q, u, c, m) ==
  /\ u \in inside[c]
  /\ Begin(q, [Idle EXCEPT !.pc = "put", !.op = "addToConversation", !.by = u,
                           !.user = m, !.channel = c])
  /\ UNCHANGED <<serverRows, channelRows, used, tabs, faults, history>>

AssignRole(q, u, m, r) ==
  /\ May(u, "roles")
  /\ r \in roles
  /\ Begin(q, [Idle EXCEPT !.pc = "assign", !.op = "assignRole", !.by = u, !.user = m, !.role = r])
  /\ UNCHANGED <<serverRows, channelRows, used, tabs, faults, history>>

CreateRole(q, u, input) ==
  /\ May(u, "roles")
  /\ Begin(q, [Idle EXCEPT !.pc = "make", !.op = "createRole", !.by = u, !.input = input])
  /\ UNCHANGED <<serverRows, channelRows, used, tabs, faults, history>>

UpdateRole(q, u, r, input) ==
  /\ May(u, "roles")
  /\ r \in roles
  /\ Begin(q, [Idle EXCEPT !.pc = "edit", !.op = "updateRole", !.by = u, !.role = r, !.input = input])
  /\ UNCHANGED <<serverRows, channelRows, used, tabs, faults, history>>

DeleteRole(q, u, r) ==
  /\ May(u, "roles")
  /\ DefaultRole \in roles /\ r \in roles \ {DefaultRole}
  /\ Begin(q, [Idle EXCEPT !.pc = "move", !.op = "deleteRole", !.by = u, !.role = r])
  /\ UNCHANGED <<serverRows, channelRows, used, tabs, faults, history>>

CreateChannel(q, u) ==
  /\ May(u, "channels")
  /\ req[q].pc = "idle"
  /\ served < MaxRequests
  /\ served' = served + 1
  /\ req' = [p \in Requests |->
               IF p = q THEN [Idle EXCEPT !.pc = "members", !.op = "createChannel", !.by = u]
               ELSE IF req[p].op \in {"addMember", "removeMember"}
                 THEN [req[p] EXCEPT !.alone = FALSE]
               ELSE req[p]]
  /\ UNCHANGED <<serverRows, channelRows, used, tabs, faults, history>>

(* A drag holds the channels as the tab shows them when it begins, if it    *)
(* shows the user as one who may; one that no request could follow is left  *)
(* out.                                                                     *)
CanReorder(u, s) ==
  u = owner \/ (s.rank[u] \in DOMAIN s.grants /\ "channels" \in s.grants[s.rank[u]])

Drag(u) ==
  /\ held[u] = {} /\ served < MaxRequests
  /\ \E s \in view[u] : /\ CanReorder(u, s)
                       /\ held' = [held EXCEPT ![u] = {DOMAIN s.places}]
  /\ UNCHANGED <<serverRows, channelRows, used, req, served, view, reading, due, faults, history>>

(* It ends: the tab sends them in some order, shows that order itself, and  *)
(* gives up the list it was fetching.                                       *)
Orders(u) ==
  UNION {{order \in [kept -> 0..Cardinality(kept) - 1] :
            \A c, d \in kept : order[c] = order[d] => c = d} : kept \in held[u]}

ReorderChannels(q, u, order) ==
  /\ Begin(q, [Idle EXCEPT !.pc = IF May(u, "channels") THEN "order" ELSE "forbidden",
                           !.op = "reorder", !.by = u, !.order = order, !.prior = view[u]])
  /\ OnMutate(u, order)
  /\ reading' = [reading EXCEPT ![u] = {}]
  /\ held' = [held EXCEPT ![u] = {}]
  /\ UNCHANGED <<serverRows, channelRows, used, due, faults, history>>

DeleteChannel(q, u, c) ==
  /\ May(u, "channels")
  /\ c \in channels
  /\ Begin(q, [Idle EXCEPT !.pc = "drop", !.op = "deleteChannel", !.by = u, !.channel = c])
  /\ UNCHANGED <<serverRows, channelRows, used, tabs, faults, history>>

DeleteServer(q, u) ==
  /\ server = "live" /\ u = owner
  /\ Begin(q, [Idle EXCEPT !.pc = "list", !.op = "deleteServer", !.by = u])
  /\ UNCHANGED <<serverRows, channelRows, used, tabs, faults, history>>

-----------------------------------------------------------------------------
(* Statements of the service                                                *)

(* Create's transaction: the server and its owner's membership.             *)
InsertServer(q) ==
  /\ At(q, "create", "server")
  /\ server = "unmade"
  /\ server' = "live"
  /\ owner' = req[q].by
  /\ rank' = [rank EXCEPT ![req[q].by] = NoRole]
  /\ Goto(q, "role")
  /\ UNCHANGED <<roles, grants, look, channelRows, used, served, tabs, faults, history>>

(* createDefaultRole; the INSERT refers to the server.                      *)
CreateDefaultRole(q) ==
  /\ At(q, "create", "role")
  /\ server = "live"
  /\ roles' = roles \cup {DefaultRole}
  /\ grants' = [grants EXCEPT ![DefaultRole] = {}]
  /\ used' = used \cup {DefaultRole}
  /\ Goto(q, "members")
  /\ UNCHANGED <<server, owner, rank, look, channelRows, served, tabs, faults, history>>

UpdateName(q) ==
  /\ At(q, "update", "name")
  /\ server = "live"
  /\ look' = look \cup {"name"}
  /\ Goto(q, "get")
  /\ UNCHANGED <<server, owner, rank, roles, grants, channelRows, used, served, tabs, faults, history>>

(* Update reads the server for its answer before it tells anybody, and a    *)
(* caller who has been removed by then gets an error.                       *)
Get(q) ==
  /\ At(q, "update", "get")
  /\ IsMember(req[q].by)
  /\ Goto(q, "announce")
  /\ UNCHANGED <<serverRows, channelRows, used, served, tabs, faults, history>>

(* UpsertIcon and UpsertBanner.                                             *)
UpsertImage(q) ==
  /\ At(q, "image", "upload")
  /\ server = "live"
  /\ look' = look \cup req[q].input
  /\ Goto(q, "announce")
  /\ UNCHANGED <<server, owner, rank, roles, grants, channelRows, used, served, tabs, faults, history>>

(* DeleteIcon and DeleteBanner.                                             *)
DeleteImage(q) ==
  /\ At(q, "image", "remove")
  /\ look' = look \ req[q].input
  /\ Goto(q, "announce")
  /\ UNCHANGED <<server, owner, rank, roles, grants, channelRows, used, served, tabs, faults, history>>

(* The rows that a DeleteRole transaction has updated are locked until it   *)
(* commits.                                                                 *)
Locked(u) == \E q \in Active({"deleteRole"}) : req[q].pc = "commit" /\ u \in req[q].who

(* AddMember gives the default role to a new row and leaves an old one be.  *)
InsertMember(q) ==
  LET u == req[q].user IN
  /\ At(q, "addMember", "insert")
  /\ server = "live" /\ DefaultRole \in roles
  /\ rank' = IF rank[u] = Absent THEN [rank EXCEPT ![u] = DefaultRole] ELSE rank
  /\ hasty' = IF rank[u] = Absent THEN hasty \ {u} ELSE hasty
  /\ Goto(q, "list")
  /\ UNCHANGED <<server, owner, roles, grants, look, channelRows, used, served, tabs,
                 faults, untold, settled>>

(* AddMember and RemoveMember read the channels before they touch any.      *)
ListChannels(q) ==
  /\ At(q, "addMember", "list") \/ At(q, "removeMember", "list")
  /\ req' = [req EXCEPT ![q].todo = channels, ![q].pc = "each"]
  /\ UNCHANGED <<serverRows, channelRows, used, served, tabs, faults, history>>

(* conversations.AddMember for one listed channel; the INSERT refers to the *)
(* conversation.                                                            *)
AddToChannel(q, c) ==
  /\ At(q, "addMember", "each")
  /\ c \in req[q].todo \cap convs
  /\ inside' = [inside EXCEPT ![c] = @ \cup {req[q].user}]
  /\ req' = [req EXCEPT ![q].todo = @ \ {c}]
  /\ UNCHANGED <<serverRows, channels, position, convs, used, served, tabs, faults, history>>

MemberAdded(q) ==
  /\ At(q, "addMember", "each")
  /\ req[q].todo = {}
  /\ Goto(q, "announce")
  /\ UNCHANGED <<serverRows, channelRows, used, served, tabs, faults, history>>

RemoveFromChannel(q, c) ==
  /\ At(q, "removeMember", "each")
  /\ c \in req[q].todo
  /\ inside' = [inside EXCEPT ![c] = @ \ {req[q].user}]
  /\ req' = [req EXCEPT ![q].todo = @ \ {c}]
  /\ UNCHANGED <<serverRows, channels, position, convs, used, served, tabs, faults, history>>

(* conversations.Service.AddMember, which knows of no server; without the   *)
(* conversation it is an error.  A removal of the user that is under way is *)
(* disturbed.  The tabs' lists are not told.                                *)
InsertConversationMember(q) ==
  LET c == req[q].channel
      m == req[q].user
  IN
  /\ At(q, "addToConversation", "put")
  /\ IF c \in convs
       THEN /\ inside' = [inside EXCEPT ![c] = @ \cup {m}]
            /\ settled' = IF m \in Members THEN settled ELSE settled \ {m}
            /\ req' = [p \in Requests |->
                         IF p = q THEN Idle
                         ELSE IF req[p].op = "removeMember" /\ req[p].user = m
                           THEN [req[p] EXCEPT !.alone = FALSE]
                         ELSE req[p]]
       ELSE req' = [req EXCEPT ![q] = Idle] /\ UNCHANGED <<inside, settled>>
  /\ UNCHANGED <<serverRows, channels, position, convs, used, served, tabs, faults, untold, hasty>>

DeleteMember(q) ==
  LET u == req[q].user IN
  /\ At(q, "removeMember", "each")
  /\ req[q].todo = {}
  /\ ~Locked(u)
  /\ rank' = [rank EXCEPT ![u] = Absent]
  /\ Goto(q, "announce")
  /\ UNCHANGED <<server, owner, roles, grants, look, channelRows, used, served, tabs, faults, history>>

(* The UPDATE of AssignRole spares the owner, touches no row of a user who  *)
(* is no member, and refers to the role.                                    *)
SetRole(q) ==
  LET u == req[q].user
      r == req[q].role
  IN
  /\ At(q, "assignRole", "assign")
  /\ ~Locked(u)
  /\ IF IsMember(u) /\ u # owner
       THEN /\ r \in roles
            /\ rank' = [rank EXCEPT ![u] = r]
            /\ hasty' = IF \E p \in Active({"deleteRole"}) : req[p].pc = "commit" /\ req[p].role = r
                          THEN hasty \cup {u} ELSE hasty \ {u}
       ELSE UNCHANGED <<rank, hasty>>
  /\ Goto(q, "announce")
  /\ UNCHANGED <<server, owner, roles, grants, look, channelRows, used, served, tabs,
                 faults, untold, settled>>

InsertRole(q) ==
  /\ At(q, "createRole", "make")
  /\ server = "live"
  /\ \E r \in Roles \ used :
       /\ roles' = roles \cup {r}
       /\ grants' = [grants EXCEPT ![r] = req[q].input]
       /\ used' = used \cup {r}
  /\ Goto(q, "announce")
  /\ UNCHANGED <<server, owner, rank, look, channelRows, served, tabs, faults, history>>

SetGrants(q) ==
  /\ At(q, "updateRole", "edit")
  /\ req[q].role \in roles
  /\ grants' = [grants EXCEPT ![req[q].role] = req[q].input]
  /\ Goto(q, "announce")
  /\ UNCHANGED <<server, owner, rank, roles, look, channelRows, used, served, tabs, faults, history>>

(* DeleteRole's transaction: first the UPDATE of the members that have the  *)
(* role, which nobody else sees before the commit ...                       *)
MoveMembers(q) ==
  LET moved == {u \in Members : rank[u] = req[q].role} IN
  /\ At(q, "deleteRole", "move")
  /\ \A u \in moved : ~Locked(u)
  /\ req' = [req EXCEPT ![q].who = moved, ![q].pc = "commit"]
  /\ UNCHANGED <<serverRows, channelRows, used, served, tabs, faults, history>>

(* Faulty: the members keep a role that goes.                               *)
DropRoleOnly(q) ==
  LET r == req[q].role IN
  /\ At(q, "deleteRole", "commit")
  /\ roles' = roles \ {r}
  /\ rank' = [u \in Users |-> IF rank[u] = r THEN NoRole ELSE rank[u]]
  /\ Goto(q, "announce")
  /\ UNCHANGED <<server, owner, grants, look, channelRows, used, served, tabs, faults, history>>

(* ... then the DELETE, by which a member given the role since gets none    *)
(* (ON DELETE SET NULL), and the commit.  The rows it so changes must not   *)
(* be locked by another transaction.                                        *)
DropRole(q) ==
  LET r == req[q].role IN
  /\ At(q, "deleteRole", "commit")
  /\ \A u \in Users : rank[u] = r /\ Locked(u) => u \in req[q].who
  /\ roles' = roles \ {r}
  /\ rank' = [u \in Users |-> IF u \in req[q].who THEN DefaultRole
                              ELSE IF rank[u] = r THEN NoRole ELSE rank[u]]
  /\ Goto(q, "announce")
  /\ UNCHANGED <<server, owner, grants, look, channelRows, used, served, tabs, faults, history>>

(* CreateChannel, also Create's last part, in four statements.              *)
Creating(q, pc) == At(q, "create", pc) \/ At(q, "createChannel", pc)

ListMemberIDs(q) ==
  /\ Creating(q, "members")
  /\ req' = [req EXCEPT ![q].who = Members, ![q].pc = "conversation"]
  /\ UNCHANGED <<serverRows, channelRows, used, served, tabs, faults, history>>

(* Faulty: conversations.Create, with the caller as the only member.        *)
CreateForCreator(q) ==
  /\ Creating(q, "conversation")
  /\ \E c \in Channels \ used :
       /\ req[q].op = "create" <=> c = General
       /\ convs' = convs \cup {c}
       /\ inside' = [inside EXCEPT ![c] = {req[q].by}]
       /\ used' = used \cup {c}
       /\ req' = [req EXCEPT ![q].channel = c, ![q].pc = "position"]
  /\ UNCHANGED <<serverRows, channels, position, served, tabs, faults, history>>

(* conversations.CreateWithMembers, one transaction.                        *)
CreateWithMembers(q) ==
  /\ Creating(q, "conversation")
  /\ \E c \in Channels \ used :
       /\ req[q].op = "create" <=> c = General
       /\ convs' = convs \cup {c}
       /\ inside' = [inside EXCEPT ![c] = req[q].who]
       /\ used' = used \cup {c}
       /\ req' = [req EXCEPT ![q].channel = c, ![q].pc = "position"]
  /\ UNCHANGED <<serverRows, channels, position, served, tabs, faults, history>>

(* COALESCE(MAX(position) + 1, 0).                                          *)
EndOfList ==
  LET ends == {0} \cup {position[c] + 1 : c \in channels} IN
  CHOOSE n \in ends : \A m \in ends : m <= n

ReadPosition(q) ==
  /\ Creating(q, "position")
  /\ req' = [req EXCEPT ![q].at = EndOfList, ![q].pc = "channel"]
  /\ UNCHANGED <<serverRows, channelRows, used, served, tabs, faults, history>>

InsertChannel(q) ==
  LET c == req[q].channel IN
  /\ Creating(q, "channel")
  /\ untold' = (untold \/ (req[q].op = "create" /\ Members # {req[q].by}))
  /\ server = "live"
  /\ channels' = channels \cup {c}
  /\ position' = [position EXCEPT ![c] = req[q].at]
  /\ Goto(q, IF req[q].op = "create" THEN "tell" ELSE "announce")
  /\ UNCHANGED <<serverRows, convs, inside, used, served, tabs, faults, settled, hasty>>

(* ReorderChannels: each position in one transaction, or none when a row is *)
(* missing.  The list is the one the drag held, which is trusted to name    *)
(* every channel.                                                           *)
SetPositions(q) ==
  LET order == req[q].order IN
  /\ At(q, "reorder", "order")
  /\ DOMAIN order \subseteq channels
  /\ position' = [c \in Channels |-> IF c \in DOMAIN order THEN order[c] ELSE position[c]]
  /\ Goto(q, "announce")
  /\ UNCHANGED <<serverRows, channels, convs, inside, used, served, tabs, faults, history>>

Rejected(q) ==
  \/ At(q, "reorder", "forbidden")
  \/ At(q, "reorder", "order") /\ ~(DOMAIN req[q].order \subseteq channels)

(* Faulty: the order is not rolled back, nor is the list fetched.           *)
KeepOrder(q) ==
  /\ Rejected(q)
  /\ req' = [req EXCEPT ![q] = Idle]
  /\ UNCHANGED <<serverRows, channelRows, used, served, tabs, faults, history>>

(* The permission is missing, or ErrChannelNotFound, which rolls back the   *)
(* transaction.                                                             *)
RejectOrder(q) ==
  /\ Rejected(q)
  /\ OnError(q)
  /\ req' = [req EXCEPT ![q] = Idle]
  /\ UNCHANGED <<serverRows, channelRows, used, served, reading, held, faults, history>>

(* Faulty: only the channel's row goes.                                     *)
DropChannelRow(q) ==
  /\ At(q, "deleteChannel", "drop")
  /\ channels' = channels \ {req[q].channel}
  /\ Goto(q, "announce")
  /\ UNCHANGED <<serverRows, position, convs, inside, used, served, tabs, faults, history>>

(* The DELETE of the conversation takes the channel's row with it.          *)
DropChannel(q) ==
  LET c == req[q].channel IN
  /\ At(q, "deleteChannel", "drop")
  /\ convs' = convs \ {c}
  /\ inside' = [inside EXCEPT ![c] = {}]
  /\ channels' = channels \ {c}
  /\ Goto(q, "announce")
  /\ UNCHANGED <<serverRows, position, used, served, tabs, faults, history>>

(* The handler lists whom to tell before it deletes; the conversations go   *)
(* first, then the server and every row that refers to it.                  *)
ListEveryone(q) ==
  /\ At(q, "deleteServer", "list")
  /\ req' = [req EXCEPT ![q].who = Members, ![q].pc = "conversations"]
  /\ UNCHANGED <<serverRows, channelRows, used, served, tabs, faults, history>>

DropConversations(q) ==
  /\ At(q, "deleteServer", "conversations")
  /\ convs' = convs \ channels
  /\ inside' = [c \in Channels |-> IF c \in channels THEN {} ELSE inside[c]]
  /\ channels' = {}
  /\ Goto(q, "server")
  /\ UNCHANGED <<serverRows, position, used, served, tabs, faults, history>>

DropServer(q) ==
  /\ At(q, "deleteServer", "server")
  /\ \A u \in Users : ~Locked(u)
  /\ server' = "gone"
  /\ rank' = [u \in Users |-> Absent]
  /\ roles' = {} /\ look' = {} /\ channels' = {}
  /\ Goto(q, "tell")
  /\ UNCHANGED <<owner, grants, position, convs, inside, used, served, tabs, faults, history>>

(* A statement refers to a row that is no longer there: a foreign key, or   *)
(* no row where one is expected.                                            *)
Missing(q) ==
  /\ \/ At(q, "create", "role") /\ server # "live"
     \/ At(q, "update", "name") /\ server # "live"
     \/ At(q, "update", "get") /\ ~IsMember(req[q].by)
     \/ At(q, "image", "upload") /\ server # "live"
     \/ At(q, "addMember", "insert") /\ ~(server = "live" /\ DefaultRole \in roles)
     \/ At(q, "addMember", "each") /\ ~(req[q].todo \subseteq convs)
     \/ At(q, "assignRole", "assign") /\ IsMember(req[q].user)
          /\ req[q].user # owner /\ req[q].role \notin roles
     \/ At(q, "createRole", "make") /\ server # "live"
     \/ At(q, "updateRole", "edit") /\ req[q].role \notin roles
     \/ Creating(q, "channel") /\ server # "live"
  /\ Abort(q)
  /\ UNCHANGED faults

-----------------------------------------------------------------------------
(* The list in a tab                                                        *)

(* ListForUser's first query finds the user's servers, and that is all when *)
(* there are none.                                                          *)
StartList(u) ==
  /\ u \in due
  /\ due' = due \ {u}
  /\ IF IsMember(u)
       THEN reading' = [reading EXCEPT ![u] = {look}] /\ UNCHANGED <<view, held>>
       ELSE /\ reading' = [reading EXCEPT ![u] = {}]
            /\ view' = [view EXCEPT ![u] = {}] /\ held' = [held EXCEPT ![u] = {}]
  /\ UNCHANGED <<serverRows, channelRows, used, req, served, faults, history>>

(* The others read permissions, channels, members and roles; a user who has *)
(* been removed in between gets an error, and the tab keeps the list it has.*)
FinishList(u) ==
  /\ reading[u] # {}
  /\ view' = IF IsMember(u)
                THEN [view EXCEPT ![u] = {Summary(d) : d \in reading[u]}] ELSE view
  /\ reading' = [reading EXCEPT ![u] = {}]
  /\ UNCHANGED <<serverRows, channelRows, used, req, served, held, due, faults, history>>

-----------------------------------------------------------------------------
Receive(q, u) ==
  \/ Create(q, u) \/ Update(q, u) \/ CreateChannel(q, u) \/ DeleteServer(q, u)
  \/ \E image \in {"icon", "banner"} : UploadServerImage(q, u, image) \/ DeleteServerImage(q, u, image)
  \/ \E m \in Users : AddMember(q, u, m) \/ RemoveMember(q, u, m)
  \/ \E c \in Channels, m \in Users : AddToConversation(q, u, c, m)
  \/ \E m \in Users, r \in Roles : AssignRole(q, u, m, r)
  \/ \E input \in RoleInputs : CreateRole(q, u, input)
  \/ \E r \in Roles, input \in RoleInputs : UpdateRole(q, u, r, input)
  \/ \E r \in Roles : DeleteRole(q, u, r)
  \/ \E c \in Channels : DeleteChannel(q, u, c)
  \/ \E order \in Orders(u) : ReorderChannels(q, u, order)

Statement(q) ==
  \/ InsertServer(q) \/ CreateDefaultRole(q) \/ UpdateName(q) \/ Get(q) \/ UpsertImage(q)
  \/ DeleteImage(q) \/ InsertMember(q) \/ ListChannels(q) \/ MemberAdded(q)
  \/ InsertConversationMember(q) \/ DeleteMember(q) \/ SetRole(q) \/ InsertRole(q)
  \/ SetGrants(q) \/ MoveMembers(q)
  \/ DropRole(q) \/ ListMemberIDs(q) \/ CreateWithMembers(q) \/ ReadPosition(q)
  \/ InsertChannel(q) \/ SetPositions(q) \/ RejectOrder(q) \/ DropChannel(q)
  \/ ListEveryone(q) \/ DropConversations(q) \/ DropServer(q) \/ Missing(q)
  \/ \E c \in Channels : AddToChannel(q, c) \/ RemoveFromChannel(q, c)

Next ==
  \/ \E q \in Requests, u \in Users : Receive(q, u)
  \/ \E q \in Requests : Statement(q) \/ Announce(q) \/ Tell(q) \/ Fail(q)
  \/ \E u \in Users : StartList(u) \/ FinishList(u) \/ Drag(u)

Spec == Init /\ [][Next]_vars

-----------------------------------------------------------------------------
(* Properties                                                               *)

Ops == {"none", "create", "update", "image", "addMember", "removeMember",
        "addToConversation", "assignRole",
        "createRole", "updateRole", "deleteRole", "createChannel", "reorder",
        "deleteChannel", "deleteServer"}

PCs == {"idle", "server", "role", "members", "conversation", "position", "channel",
        "name", "get", "upload", "remove", "insert", "list", "each", "put", "assign", "make",
        "edit", "move", "commit", "order", "forbidden", "drop", "conversations", "announce", "tell"}

TypeOK ==
  /\ server \in {"unmade", "live", "gone"}
  /\ owner \in Users \cup {NoUser}
  /\ rank \in [Users -> Roles \cup {NoRole, Absent}]
  /\ roles \subseteq Roles
  /\ grants \in [Roles -> RoleInputs]
  /\ look \subseteq Decor
  /\ channels \subseteq Channels
  /\ position \in [Channels -> Nat]
  /\ convs \subseteq Channels
  /\ inside \in [Channels -> SUBSET Users]
  /\ used \subseteq Roles \cup Channels
  /\ \A q \in Requests :
       /\ req[q].pc \in PCs /\ req[q].op \in Ops
       /\ req[q].by \in Users \cup {NoUser} /\ req[q].user \in Users \cup {NoUser}
       /\ req[q].role \in Roles \cup {NoRole} /\ req[q].channel \in Channels \cup {NoChannel}
       /\ req[q].todo \subseteq Channels /\ req[q].who \subseteq Users
       /\ req[q].at \in Nat /\ req[q].alone \in BOOLEAN
  /\ served \in 0..MaxRequests /\ faults \in 0..MaxFaults
  /\ \A u \in Users : reading[u] \subseteq SUBSET Decor /\ held[u] \subseteq SUBSET Channels
  /\ due \subseteq Users
  /\ untold \in BOOLEAN /\ settled \subseteq Users /\ hasty \subseteq Users

(* handler.go:210 "a server is never left ownerless": whatever runs         *)
(* together, the owner stays a member with no role to lose, and is in the   *)
(* conversation of every channel.                                           *)
OwnerStays ==
  server = "live" =>
    /\ owner \in Members /\ rank[owner] = NoRole
    /\ \A c \in channels : owner \in inside[c]

(* service.go:638 "so nobody is left without one": next to an owner who     *)
(* stays, every other member has a role that exists, unless it was assigned *)
(* while it was being deleted.                                              *)
EveryMemberHasRole ==
  /\ OwnerStays
  /\ server = "live" =>
       \A u \in Members \ {owner} : rank[u] \in roles \/ (u \in hasty /\ rank[u] = NoRole)

(* A request about a member's place that ran to its end undisturbed leaves  *)
(* the user in the conversations of all channels, or of none, whatever the  *)
(* requests that failed before it had left behind; and that stays so, until *)
(* someone in a channel adds the user, who is no member of the server, to   *)
(* the conversation behind it.                                              *)
ChannelsFollowMembership ==
  server = "live" =>
    \A u \in settled, c \in channels : u \in inside[c] <=> u \in Members

(* Each conversation made for a channel gets its channel: without failures  *)
(* none is left over to be listed among the direct ones while the server    *)
(* lives (conversations ListForUser).                                       *)
NoOrphans ==
  server = "live" /\ ~untold =>
    \A c \in convs \ channels : \E q \in Making : req[q].channel = c

(* When everything has settled and no request broke off, every tab shows    *)
(* the server as it is, and the tabs of removed users do not show it.       *)
ViewsConverge ==
  server = "live" /\ ~untold /\ due = {}
    /\ (\A q \in Requests : req[q].pc = "idle") /\ (\A u \in Users : reading[u] = {}) =>
      \A u \in Tabs : view[u] = IF u \in Members THEN {Summary(look)} ELSE {}
=============================================================================
