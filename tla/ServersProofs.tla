--------------------------- MODULE ServersProofs ---------------------------
(* Theorems about Servers: whatever requests run together, for any number   *)
(* of users, roles, channels and goroutines, every member has a role, the   *)
(* channels follow the membership, no conversation is left without its      *)
(* channel, and the lists in the tabs come to show what the server is.      *)
(* Last come the types of all that the module keeps.                        *)
EXTENDS Servers, FiniteSetTheorems, WellFoundedInduction, TLAPS

Fields == {"pc", "op", "by", "user", "role", "channel", "input", "todo", "who", "at",
           "order", "prior", "alone"}
Creates == {"create", "createChannel"}
Moves == {"addMember", "removeMember"}
Placing == {"position", "channel"}
Ending == {"announce", "tell"}

rows == <<server, owner, rank, roles, channels, convs, inside, used>>

Wellformed(r) ==
  /\ DOMAIN r = Fields
  /\ r.user \in Users \cup {NoUser} /\ r.role \in Roles \cup {NoRole}
  /\ r.channel \in Channels \cup {NoChannel}
  /\ r.todo \subseteq Channels /\ r.who \subseteq Users /\ r.alone \in BOOLEAN

(* As much of the types as the rest needs.                                  *)
Typed ==
  /\ server \in {"unmade", "live", "gone"}
  /\ owner \in Users \cup {NoUser}
  /\ rank \in [Users -> Roles \cup {NoRole, Absent}]
  /\ roles \subseteq Roles
  /\ channels \subseteq Channels /\ convs \subseteq Channels
  /\ channels \subseteq used /\ convs \subseteq used
  /\ inside \in [Channels -> SUBSET Users]
  /\ untold \in BOOLEAN /\ settled \subseteq Users /\ hasty \subseteq Users
  /\ DOMAIN req = Requests
  /\ \A q \in Requests : Wellformed(req[q])

(* A request is about what its handler has checked that it is about.        *)
Fits(r) ==
  /\ r.pc = "idle" => r.op = "none"
  /\ r.op \notin {"none", "create", "reorder", "addToConversation"} => server # "unmade"
  /\ r.op = "create" => r.by \in Users /\ (r.pc # "server" => server # "unmade")
  /\ r.op \in Moves \cup {"addToConversation"} => r.user \in Users
  /\ r.op = "addToConversation" => r.channel \in Channels /\ r.pc = "put"
  /\ r.op = "removeMember" => r.user # owner
  /\ r.op = "deleteRole" => r.role \in Roles \ {DefaultRole}
  /\ r.op = "deleteChannel" => r.channel \in used \cap Channels
  /\ r.op = "createChannel" /\ r.pc \in {"members", "conversation"} => r.channel = NoChannel
  /\ r.op = "create" /\ r.pc \in {"server", "role", "members", "conversation"} =>
       r.channel = General

(* Who has which role.  Without a default role there is nobody to need it.  *)
Ranks ==
  /\ server # "live" => channels = {} /\ \A u \in Users : rank[u] = Absent
  /\ server = "live" =>
       /\ owner \in Users /\ rank[owner] = NoRole
       /\ DefaultRole \notin roles => \A u \in Users \ {owner} : rank[u] = Absent
       /\ \A u \in Users \ {owner} :
            rank[u] \in roles \cup {Absent} \/ (u \in hasty /\ rank[u] = NoRole)

(* A DeleteRole that has moved the members: those it has locked still have  *)
(* the role, and who has it since was given it hastily.                     *)
Moving(r) ==
  r.op = "deleteRole" /\ r.pc = "commit" =>
    \A u \in Users : IF u \in r.who THEN rank[u] = r.role ELSE rank[u] = r.role => u \in hasty

(* A channel being made: its conversation has the owner, and of those whose *)
(* place is settled the members.                                            *)
Made(r) ==
  r.op \in Creates =>
    /\ r.pc = "conversation" /\ server = "live" =>
         owner \in r.who /\ \A u \in settled : u \in r.who <=> rank[u] # Absent
    /\ r.pc \in Placing =>
         /\ r.channel \in (Channels \cap used) \ channels
         /\ server = "live" =>
              /\ owner \in inside[r.channel]
              /\ \A u \in settled : u \in inside[r.channel] <=> rank[u] # Absent
    /\ r.pc \in Ending =>
         /\ r.channel \in Channels \cap used
         /\ server # "gone" /\ r.channel \in convs => r.channel \in channels

(* An undisturbed request about a member's place and how far it has come.   *)
Alone(q) ==
  req[q].op \in Moves /\ req[q].alone =>
    \A p \in Requests :
      /\ req[p].op \notin Creates
      /\ p # q /\ req[p].op \in Moves => req[p].user # req[q].user

Placed(r) ==
  r.alone /\ server = "live" =>
    /\ r.op = "addMember" =>
         /\ r.pc \in {"list", "each", "announce"} => rank[r.user] # Absent
         /\ r.pc = "each" => \A c \in channels \ r.todo : r.user \in inside[c]
         /\ r.pc = "announce" => \A c \in channels : r.user \in inside[c]
    /\ r.op = "removeMember" =>
         /\ r.pc = "each" => \A c \in channels \ r.todo : r.user \notin inside[c]
         /\ r.pc = "announce" =>
              rank[r.user] = Absent /\ \A c \in channels : r.user \notin inside[c]

(* Two requests at once move different members and make different channels, *)
(* and none deletes a channel that is still being made.                     *)
Apart(q, p) ==
  /\ At(q, "deleteRole", "commit") /\ At(p, "deleteRole", "commit") =>
       req[q].who \cap req[p].who = {}
  /\ req[q].op \in Creates /\ req[q].pc \in Placing =>
       /\ req[p].op \in Creates /\ req[p].pc \in Placing => req[p].channel # req[q].channel
       /\ req[p].op = "deleteChannel" => req[p].channel # req[q].channel

Rest ==
  /\ \A q \in Requests : req[q].op \in Moves => req[q].user \notin settled
  /\ server = "live" =>
       \A u \in settled, c \in channels : u \in inside[c] <=> rank[u] # Absent

Owned == server = "live" => \A c \in channels : owner \in inside[c]

Homes ==
  server # "gone" /\ ~untold =>
    \A c \in convs \ channels : \E q \in Requests : req[q].op \in Creates /\ req[q].channel = c

Each(q) == Fits(req[q]) /\ Moving(req[q]) /\ Made(req[q]) /\ Alone(q) /\ Placed(req[q])
Pairs == \A q, p \in Requests : q # p => Apart(q, p)

IInv == Typed /\ Ranks /\ Rest /\ Owned /\ Homes /\ Pairs /\ \A q \in Requests : Each(q)

-----------------------------------------------------------------------------
(* How requests change                                                      *)

(* Request q is now r, and the others are as they were.                     *)
Becomes(q, r) == req' = [req EXCEPT ![q] = r]

LEMMA IdleFields ==
  /\ Wellformed(Idle) /\ Idle.pc = "idle" /\ Idle.op = "none" /\ Idle.by = NoUser
  /\ Idle.user = NoUser /\ Idle.role = NoRole /\ Idle.channel = NoChannel
  /\ Idle.todo = {} /\ Idle.who = {} /\ Idle.alone = TRUE
BY DEF Idle, Wellformed, Fields

LEMMA BecomesIt ==
  ASSUME DOMAIN req = Requests, NEW q \in Requests, NEW r, Becomes(q, r)
  PROVE  DOMAIN req' = Requests /\ req'[q] = r /\ \A p \in Requests \ {q} : req'[p] = req[p]
BY DEF Becomes

(* Only the label of q has changed.                                         *)
Turned(q, pc) ==
  /\ DOMAIN req' = Requests /\ \A p \in Requests \ {q} : req'[p] = req[p]
  /\ Wellformed(req'[q]) /\ req'[q].pc = pc
  /\ req'[q].op = req[q].op /\ req'[q].by = req[q].by /\ req'[q].user = req[q].user
  /\ req'[q].role = req[q].role /\ req'[q].alone = req[q].alone

LEMMA GotoIt ==
  ASSUME Typed, NEW q \in Requests, NEW pc, Goto(q, pc)
  PROVE  /\ Turned(q, pc)
         /\ req'[q].channel = req[q].channel /\ req'[q].todo = req[q].todo
         /\ req'[q].who = req[q].who
BY DEF Typed, Goto, Turned, Wellformed, Fields

(* Steps that touch nothing the invariant speaks of.                        *)
LEMMA Same ==
  ASSUME IInv, UNCHANGED <<rows, req, history>>
  PROVE  IInv'
BY DEF IInv, rows, history, Typed, Ranks, Rest, Owned, Homes, Pairs, Each, Fits, Moving, Made,
       Alone, Placed, Apart, At

-----------------------------------------------------------------------------
(* A request that arrives and is about nobody's place                       *)

LEMMA Arrive ==
  ASSUME IInv, NEW q \in Requests, req[q].pc = "idle",
         NEW r, Becomes(q, r), Wellformed(r), Fits(r),
         r.op \notin Moves \cup {"createChannel"},
         r.op = "create" => server = "unmade" /\ r.pc = "server",
         r.op = "deleteRole" => r.pc # "commit",
         r.op = "deleteChannel" => r.channel \in channels,
         UNCHANGED <<rows, history>>
  PROVE  IInv'
<1>1. DOMAIN req' = Requests /\ req'[q] = r /\ \A p \in Requests \ {q} : req'[p] = req[p]
  BY BecomesIt DEF IInv, Typed
<1>2. req[q].op = "none"
  BY DEF IInv, Each, Fits
<1>3. Typed'
  BY <1>1 DEF IInv, Typed, rows, history
<1>4. Ranks' /\ Owned'
  BY DEF IInv, Ranks, Owned, rows, history
<1>5. Rest'
  BY <1>1 DEF IInv, Rest, rows, history
<1>6. Homes'
  BY <1>1, <1>2 DEF IInv, Homes, rows, history, Creates
<1>7. Pairs'
  BY <1>1 DEF IInv, Pairs, Each, Made, Apart, At, rows, Creates, Placing, Fits
<1>8. \A p \in Requests : Fits(req[p])' /\ Moving(req[p])'
  BY <1>1 DEF IInv, Each, Fits, Moving, rows, history
<1>9. \A p \in Requests : Made(req[p])' /\ Placed(req[p])'
  BY <1>1 DEF IInv, Each, Made, Placed, rows, history, Creates, Moves, Placing, Ending
<1>10. \A p \in Requests : Alone(p)'
  BY <1>1 DEF IInv, Each, Alone, Fits, rows, Creates, Moves
<1> QED BY <1>3, <1>4, <1>5, <1>6, <1>7, <1>8, <1>9, <1>10 DEF IInv, Each

-----------------------------------------------------------------------------
(* A request that goes on without effect, and one that ends                 *)

LEMMA Advance ==
  ASSUME IInv, NEW q \in Requests, NEW pc, Turned(q, pc), pc \notin {"idle", "commit"},
         req'[q].channel = req[q].channel,
         req[q].op \notin Creates \cup Moves \cup {"addToConversation"},
         UNCHANGED <<rows, history>>
  PROVE  IInv'
<1>1. Turned(q, pc) /\ req'[q].channel = req[q].channel
  OBVIOUS
<1>2. Typed'
  BY <1>1 DEF IInv, Typed, Turned, rows, history
<1>3. Ranks' /\ Owned'
  BY DEF IInv, Ranks, Owned, rows, history
<1>4. Rest' /\ Homes'
  BY <1>1 DEF IInv, Rest, Homes, Turned, rows, history
<1>5. Pairs'
  BY <1>1 DEF IInv, Pairs, Apart, At, Turned
<1>6. \A p \in Requests : Fits(req[p])' /\ Moving(req[p])'
  BY <1>1 DEF IInv, Each, Fits, Moving, Turned, rows, history, Creates, Moves
<1>7. \A p \in Requests : Made(req[p])' /\ Placed(req[p])'
  BY <1>1 DEF IInv, Each, Made, Placed, Turned, rows, history, Creates, Moves
<1>8. \A p \in Requests : Alone(p)'
  BY <1>1 DEF IInv, Each, Alone, Turned
<1> QED BY <1>2, <1>3, <1>4, <1>5, <1>6, <1>7, <1>8 DEF IInv, Each

LEMMA Done ==
  ASSUME IInv, NEW q \in Requests, Becomes(q, Idle),
         untold' \in BOOLEAN, untold => untold',
         untold' \/ req[q].op \notin Creates \/ req[q].pc \in Ending,
         UNCHANGED <<rows, settled, hasty>>
  PROVE  IInv'
<1>1. DOMAIN req' = Requests /\ req'[q] = Idle /\ \A p \in Requests \ {q} : req'[p] = req[p]
  BY BecomesIt DEF IInv, Typed
<1>2. Typed'
  BY <1>1, IdleFields DEF IInv, Typed, rows
<1>3. Ranks' /\ Owned'
  BY DEF IInv, Ranks, Owned, rows
<1>4. Rest'
  BY <1>1, IdleFields DEF IInv, Rest, rows, Moves
<1>5. Homes'
  BY <1>1 DEF IInv, Homes, Each, Made, rows
<1>6. Pairs'
  BY <1>1, IdleFields DEF IInv, Pairs, Apart, At, Creates
<1>7. \A p \in Requests : Fits(req[p])' /\ Moving(req[p])'
  BY <1>1, IdleFields DEF IInv, Each, Fits, Moving, rows, Moves
<1>8. \A p \in Requests : Made(req[p])' /\ Placed(req[p])'
  BY <1>1, IdleFields DEF IInv, Each, Made, Placed, rows, Creates
<1>9. \A p \in Requests : Alone(p)'
  BY <1>1, IdleFields DEF IInv, Each, Alone, Creates, Moves
<1> QED BY <1>2, <1>3, <1>4, <1>5, <1>6, <1>7, <1>8, <1>9 DEF IInv, Each

(* One about a member's place that nobody has disturbed: it is settled.     *)
LEMMA Settle ==
  ASSUME IInv, NEW q \in Requests, Becomes(q, Idle),
         req[q].op \in Moves, req[q].pc = "announce", req[q].alone,
         settled' = settled \cup {req[q].user},
         untold' \in BOOLEAN, untold => untold',
         UNCHANGED <<rows, hasty>>
  PROVE  IInv'
<1>1. DOMAIN req' = Requests /\ req'[q] = Idle /\ \A p \in Requests \ {q} : req'[p] = req[p]
  BY BecomesIt DEF IInv, Typed
<1>2. \A p \in Requests :
        /\ req[p].op \notin Creates
        /\ p # q /\ req[p].op \in Moves => req[p].user # req[q].user
  BY DEF IInv, Each, Alone
<1>3. Typed'
  BY <1>1, IdleFields DEF IInv, Typed, Each, Fits, rows
<1>4. Ranks' /\ Owned'
  BY DEF IInv, Ranks, Owned, rows
<1>5. Rest'
  <2>1. \A p \in Requests : req'[p].op \in Moves => req'[p].user \notin settled'
    BY <1>1, <1>2, IdleFields DEF IInv, Rest, Moves
  <2>2. server = "live" =>
          \A c \in channels : req[q].user \in inside[c] <=> rank[req[q].user] # Absent
    BY DEF IInv, Each, Placed, Moves
  <2> QED BY <2>1, <2>2 DEF IInv, Rest, rows
<1>6. Homes'
  BY <1>1, <1>2 DEF IInv, Homes, rows
<1>7. Pairs'
  BY <1>1, IdleFields DEF IInv, Pairs, Apart, At, Creates
<1>8. \A p \in Requests : Fits(req[p])' /\ Moving(req[p])'
  BY <1>1, IdleFields DEF IInv, Each, Fits, Moving, rows, Moves
<1>9. \A p \in Requests : Made(req[p])' /\ Placed(req[p])'
  BY <1>1, <1>2, IdleFields DEF IInv, Each, Made, Placed, rows, Creates
<1>10. \A p \in Requests : Alone(p)'
  BY <1>1, IdleFields DEF IInv, Each, Alone, Creates, Moves
<1> QED BY <1>3, <1>4, <1>5, <1>6, <1>7, <1>8, <1>9, <1>10 DEF IInv, Each

LEMMA AbortKeeps ==
  ASSUME IInv, NEW q \in Requests, Abort(q)
  PROVE  IInv'
BY Done DEF Abort, Becomes, serverRows, channelRows, rows

LEMMA AnnounceKeeps ==
  ASSUME IInv, NEW q \in Requests, Announce(q)
  PROVE  IInv'
<1>1. /\ Becomes(q, Idle) /\ req[q].pc = "announce"
      /\ UNCHANGED <<rows, hasty>>
      /\ untold' \in BOOLEAN /\ (untold => untold')
      /\ settled' = IF req[q].op \in Moves /\ req[q].alone THEN settled \cup {req[q].user} ELSE settled
  BY DEF IInv, Typed, Announce, Becomes, serverRows, channelRows, rows, Moves
<1>2. CASE req[q].op \in Moves /\ req[q].alone
  BY <1>1, <1>2, Settle
<1>3. CASE ~(req[q].op \in Moves /\ req[q].alone)
  BY <1>1, <1>3, Done DEF Ending
<1> QED BY <1>2, <1>3

-----------------------------------------------------------------------------
(* The requests that arrive                                                 *)

LEMMA ArriveLive ==
  ASSUME IInv, NEW q \in Requests, req[q].pc = "idle", server = "live",
         NEW r, Becomes(q, r), Wellformed(r), r.pc \notin {"idle", "commit"},
         r.op \in {"update", "image", "assignRole", "createRole", "updateRole", "deleteRole",
                  "deleteChannel", "deleteServer"},
         r.op = "deleteRole" => r.role \in Roles \ {DefaultRole},
         r.op = "deleteChannel" => r.channel \in channels,
         UNCHANGED <<rows, history>>
  PROVE  IInv'
<1>1. Fits(r)
  BY DEF IInv, Typed, Fits, Moves
<1> QED BY <1>1, Arrive DEF Moves

LEMMA UpdateKeeps ==
  ASSUME IInv, NEW q \in Requests, NEW u \in Users, Update(q, u)
  PROVE  IInv'
<1> DEFINE n == [Idle EXCEPT !.pc = "name", !.op = "update", !.by = u]
<1>1. Wellformed(n) /\ n.pc = "name" /\ n.op = "update"
  BY IdleFields DEF Update, Wellformed, Fields
<1>2. /\ req[q].pc = "idle" /\ server = "live"
      /\ Becomes(q, n) /\ UNCHANGED <<rows, history>>
  BY DEF Update, May, IsMember, Begin, Becomes, serverRows, channelRows, rows
<1> HIDE DEF n
<1> QED BY <1>1, <1>2, ArriveLive

LEMMA UploadServerImageKeeps ==
  ASSUME IInv, NEW q \in Requests, NEW u \in Users, NEW image \in {"icon", "banner"},
         UploadServerImage(q, u, image)
  PROVE  IInv'
<1> DEFINE n == [Idle EXCEPT !.pc = "upload", !.op = "image", !.by = u, !.input = {image}]
<1>1. Wellformed(n) /\ n.pc = "upload" /\ n.op = "image"
  BY IdleFields DEF UploadServerImage, Wellformed, Fields
<1>2. /\ req[q].pc = "idle" /\ server = "live"
      /\ Becomes(q, n) /\ UNCHANGED <<rows, history>>
  BY DEF UploadServerImage, May, IsMember, Begin, Becomes, serverRows, channelRows, rows
<1> HIDE DEF n
<1> QED BY <1>1, <1>2, ArriveLive

LEMMA DeleteServerImageKeeps ==
  ASSUME IInv, NEW q \in Requests, NEW u \in Users, NEW image \in {"icon", "banner"},
         DeleteServerImage(q, u, image)
  PROVE  IInv'
<1> DEFINE n == [Idle EXCEPT !.pc = "remove", !.op = "image", !.by = u, !.input = {image}]
<1>1. Wellformed(n) /\ n.pc = "remove" /\ n.op = "image"
  BY IdleFields DEF DeleteServerImage, Wellformed, Fields
<1>2. /\ req[q].pc = "idle" /\ server = "live"
      /\ Becomes(q, n) /\ UNCHANGED <<rows, history>>
  BY DEF DeleteServerImage, May, IsMember, Begin, Becomes, serverRows, channelRows, rows
<1> HIDE DEF n
<1> QED BY <1>1, <1>2, ArriveLive

LEMMA AssignRoleKeeps ==
  ASSUME IInv, NEW q \in Requests, NEW u \in Users, NEW m \in Users, NEW r \in Roles,
         AssignRole(q, u, m, r)
  PROVE  IInv'
<1> DEFINE n == [Idle EXCEPT !.pc = "assign", !.op = "assignRole", !.by = u, !.user = m,
       !.role = r]
<1>1. Wellformed(n) /\ n.pc = "assign" /\ n.op = "assignRole"
  BY IdleFields DEF AssignRole, Wellformed, Fields
<1>2. /\ req[q].pc = "idle" /\ server = "live"
      /\ Becomes(q, n) /\ UNCHANGED <<rows, history>>
  BY DEF AssignRole, May, IsMember, Begin, Becomes, serverRows, channelRows, rows
<1> HIDE DEF n
<1> QED BY <1>1, <1>2, ArriveLive

LEMMA AddToConversationKeeps ==
  ASSUME IInv, NEW q \in Requests, NEW u \in Users, NEW c \in Channels, NEW m \in Users,
         AddToConversation(q, u, c, m)
  PROVE  IInv'
<1> DEFINE n == [Idle EXCEPT !.pc = "put", !.op = "addToConversation", !.by = u,
                             !.user = m, !.channel = c]
<1>1. /\ Wellformed(n) /\ n.pc = "put" /\ n.op = "addToConversation"
      /\ n.user = m /\ n.channel = c
  BY IdleFields DEF Wellformed, Fields
<1>2. /\ req[q].pc = "idle"
      /\ Becomes(q, n) /\ UNCHANGED <<rows, history>>
  BY DEF AddToConversation, Begin, Becomes, serverRows, channelRows, rows
<1> HIDE DEF n
<1>3. Fits(n)
  BY <1>1 DEF Fits, Moves
<1> QED BY <1>1, <1>2, <1>3, Arrive DEF Moves

LEMMA CreateRoleKeeps ==
  ASSUME IInv, NEW q \in Requests, NEW u \in Users, NEW input \in RoleInputs, CreateRole(q, u,
         input)
  PROVE  IInv'
<1> DEFINE n == [Idle EXCEPT !.pc = "make", !.op = "createRole", !.by = u, !.input = input]
<1>1. Wellformed(n) /\ n.pc = "make" /\ n.op = "createRole"
  BY IdleFields DEF CreateRole, Wellformed, Fields
<1>2. /\ req[q].pc = "idle" /\ server = "live"
      /\ Becomes(q, n) /\ UNCHANGED <<rows, history>>
  BY DEF CreateRole, May, IsMember, Begin, Becomes, serverRows, channelRows, rows
<1> HIDE DEF n
<1> QED BY <1>1, <1>2, ArriveLive

LEMMA UpdateRoleKeeps ==
  ASSUME IInv, NEW q \in Requests, NEW u \in Users, NEW r \in Roles, NEW input \in RoleInputs,
         UpdateRole(q, u, r, input)
  PROVE  IInv'
<1> DEFINE n == [Idle EXCEPT !.pc = "edit", !.op = "updateRole", !.by = u, !.role = r,
       !.input = input]
<1>1. Wellformed(n) /\ n.pc = "edit" /\ n.op = "updateRole"
  BY IdleFields DEF UpdateRole, Wellformed, Fields
<1>2. /\ req[q].pc = "idle" /\ server = "live"
      /\ Becomes(q, n) /\ UNCHANGED <<rows, history>>
  BY DEF UpdateRole, May, IsMember, Begin, Becomes, serverRows, channelRows, rows
<1> HIDE DEF n
<1> QED BY <1>1, <1>2, ArriveLive

LEMMA DeleteRoleKeeps ==
  ASSUME IInv, NEW q \in Requests, NEW u \in Users, NEW r \in Roles, DeleteRole(q, u, r)
  PROVE  IInv'
<1> DEFINE n == [Idle EXCEPT !.pc = "move", !.op = "deleteRole", !.by = u, !.role = r]
<1>1. Wellformed(n) /\ n.pc = "move" /\ n.op = "deleteRole" /\ n.role \in Roles \ {DefaultRole}
  BY IdleFields DEF DeleteRole, Wellformed, Fields
<1>2. /\ req[q].pc = "idle" /\ server = "live"
      /\ Becomes(q, n) /\ UNCHANGED <<rows, history>>
  BY DEF DeleteRole, May, IsMember, Begin, Becomes, serverRows, channelRows, rows
<1> HIDE DEF n
<1> QED BY <1>1, <1>2, ArriveLive

LEMMA DeleteChannelKeeps ==
  ASSUME IInv, NEW q \in Requests, NEW u \in Users, NEW c \in Channels, DeleteChannel(q, u, c)
  PROVE  IInv'
<1> DEFINE n == [Idle EXCEPT !.pc = "drop", !.op = "deleteChannel", !.by = u, !.channel = c]
<1>1. Wellformed(n) /\ n.pc = "drop" /\ n.op = "deleteChannel" /\ n.channel = c
  BY IdleFields DEF DeleteChannel, Wellformed, Fields
<1>2. /\ req[q].pc = "idle" /\ server = "live" /\ c \in channels
      /\ Becomes(q, n) /\ UNCHANGED <<rows, history>>
  BY DEF DeleteChannel, May, IsMember, Begin, Becomes, serverRows, channelRows, rows
<1> HIDE DEF n
<1> QED BY <1>1, <1>2, ArriveLive

LEMMA DeleteServerKeeps ==
  ASSUME IInv, NEW q \in Requests, NEW u \in Users, DeleteServer(q, u)
  PROVE  IInv'
<1> DEFINE n == [Idle EXCEPT !.pc = "list", !.op = "deleteServer", !.by = u]
<1>1. Wellformed(n) /\ n.pc = "list" /\ n.op = "deleteServer"
  BY IdleFields DEF DeleteServer, Wellformed, Fields
<1>2. /\ req[q].pc = "idle" /\ server = "live"
      /\ Becomes(q, n) /\ UNCHANGED <<rows, history>>
  BY DEF DeleteServer, May, IsMember, Begin, Becomes, serverRows, channelRows, rows
<1> HIDE DEF n
<1> QED BY <1>1, <1>2, ArriveLive

LEMMA CreateKeeps ==
  ASSUME IInv, NEW q \in Requests, NEW u \in Users, Create(q, u)
  PROVE  IInv'
<1> DEFINE n == [Idle EXCEPT !.pc = "server", !.op = "create", !.by = u, !.channel = General]
<1>1. Wellformed(n) /\ n.pc = "server" /\ n.op = "create" /\ n.by = u /\ n.channel = General
  BY IdleFields, ServersAssumption DEF Wellformed, Fields
<1>2. /\ req[q].pc = "idle" /\ server = "unmade" /\ Becomes(q, n)
      /\ UNCHANGED <<rows, history>>
  BY DEF Create, Begin, Becomes, serverRows, channelRows, rows
<1> HIDE DEF n
<1>3. Fits(n)
  BY <1>1 DEF Fits, Moves
<1> QED BY <1>1, <1>2, <1>3, Arrive DEF Moves

LEMMA ReorderChannelsKeeps ==
  ASSUME IInv, NEW q \in Requests, NEW u \in Users, NEW order, ReorderChannels(q, u, order)
  PROVE  IInv'
<1> DEFINE n == [Idle EXCEPT !.pc = IF May(u, "channels") THEN "order" ELSE "forbidden",
                             !.op = "reorder", !.by = u, !.order = order, !.prior = view[u]]
<1>1. Wellformed(n) /\ n.pc \in {"order", "forbidden"} /\ n.op = "reorder"
  BY IdleFields DEF Wellformed, Fields
<1>2. /\ req[q].pc = "idle" /\ Becomes(q, n)
      /\ UNCHANGED <<rows, history>>
  BY DEF ReorderChannels, Begin, Becomes, serverRows, channelRows, rows
<1> HIDE DEF n
<1>3. Fits(n)
  BY <1>1 DEF Fits, Moves
<1> QED BY <1>1, <1>2, <1>3, Arrive DEF Moves

(* Another request has come: p goes on, perhaps no longer undisturbed.      *)
GoesOn(p) ==
  /\ Wellformed(req'[p])
  /\ req'[p].pc = req[p].pc /\ req'[p].op = req[p].op /\ req'[p].by = req[p].by
  /\ req'[p].user = req[p].user /\ req'[p].role = req[p].role
  /\ req'[p].channel = req[p].channel /\ req'[p].todo = req[p].todo
  /\ req'[p].who = req[p].who /\ (req'[p].alone => req[p].alone)

LEMMA Disturbed ==
  ASSUME NEW r, Wellformed(r)
  PROVE  LET s == [r EXCEPT !.alone = FALSE] IN
         /\ Wellformed(s) /\ ~s.alone
         /\ s.pc = r.pc /\ s.op = r.op /\ s.by = r.by /\ s.user = r.user /\ s.role = r.role
         /\ s.channel = r.channel /\ s.todo = r.todo /\ s.who = r.who
BY DEF Wellformed, Fields

LEMMA PlaceArrives ==
  ASSUME IInv, NEW q \in Requests, NEW r, BeginMembership(q, r), Wellformed(r),
         (r.op = "addMember" /\ r.pc = "insert") \/ (r.op = "removeMember" /\ r.pc = "list"),
         r.user \in Users, r.op = "removeMember" => r.user # owner,
         server = "live",
         UNCHANGED <<rows, untold, hasty>>
  PROVE  IInv'
<1>1. DOMAIN req' = Requests
  BY DEF BeginMembership
<1>2. ASSUME NEW p \in Requests \ {q}
      PROVE  GoesOn(p) /\ (req'[p].alone /\ req[p].op \in Moves => req[p].user # r.user)
  <2>1. req'[p] = IF p \in About(r.user) THEN [req[p] EXCEPT !.alone = FALSE] ELSE req[p]
    BY DEF BeginMembership
  <2>2. Wellformed(req[p])
    BY DEF IInv, Typed
  <2>3. CASE p \in About(r.user)
    <3>1. req'[p] = [req[p] EXCEPT !.alone = FALSE]
      BY <2>1, <2>3
    <3>2. /\ Wellformed(req'[p]) /\ ~req'[p].alone
          /\ req'[p].pc = req[p].pc /\ req'[p].op = req[p].op /\ req'[p].by = req[p].by
          /\ req'[p].user = req[p].user /\ req'[p].role = req[p].role
          /\ req'[p].channel = req[p].channel /\ req'[p].todo = req[p].todo
          /\ req'[p].who = req[p].who
      BY <2>2, <3>1, Disturbed
    <3> QED BY <3>2 DEF GoesOn
  <2>4. CASE p \notin About(r.user)
    BY <2>1, <2>2, <2>4 DEF GoesOn, About, Active, Moves
  <2> QED BY <2>3, <2>4
<1>3. /\ Wellformed(req'[q]) /\ req'[q].pc = r.pc /\ req'[q].op = r.op
      /\ req'[q].user = r.user
      /\ req'[q].alone <=> About(r.user) = {} /\ Making = {}
  <2>1. req'[q] = [r EXCEPT !.alone = About(r.user) = {} /\ Making = {}]
    BY DEF BeginMembership
  <2> QED BY <2>1 DEF Wellformed, Fields
<1>4. req[q].pc = "idle" /\ req[q].op = "none" /\ settled' = settled \ {r.user}
  BY DEF IInv, Each, Fits, BeginMembership
<1>5. Typed'
  BY <1>1, <1>2, <1>3, <1>4 DEF IInv, Typed, GoesOn, rows
<1>6. Ranks' /\ Owned'
  BY DEF IInv, Ranks, Owned, rows
<1>7. Rest'
  BY <1>1, <1>2, <1>3, <1>4 DEF IInv, Rest, GoesOn, rows
<1>8. Homes'
  BY <1>1, <1>2, <1>4 DEF IInv, Homes, GoesOn, rows, Creates
<1>9. Pairs'
  BY <1>1, <1>2, <1>3 DEF IInv, Pairs, Apart, At, GoesOn, Creates
<1>10. \A p \in Requests : Fits(req[p])' /\ Moving(req[p])'
  BY <1>1, <1>2, <1>3 DEF IInv, Each, Fits, Moving, GoesOn, rows, Moves
<1>11. \A p \in Requests : Made(req[p])'
  BY <1>1, <1>2, <1>3, <1>4 DEF IInv, Each, Made, GoesOn, rows, Creates
<1>12. \A p \in Requests : Placed(req[p])'
  BY <1>1, <1>2, <1>3 DEF IInv, Each, Placed, GoesOn, rows
<1>13. Alone(q)'
  BY <1>1, <1>2, <1>3 DEF Alone, GoesOn, About, Making, Active, Creates, Moves
<1>14. \A p \in Requests \ {q} : Alone(p)'
  BY <1>1, <1>2, <1>3 DEF IInv, Each, Alone, GoesOn, Creates, Moves
<1> QED BY <1>5, <1>6, <1>7, <1>8, <1>9, <1>10, <1>11, <1>12, <1>13, <1>14 DEF IInv, Each

LEMMA AddMemberKeeps ==
  ASSUME IInv, NEW q \in Requests, NEW u \in Users, NEW m \in Users, AddMember(q, u, m)
  PROVE  IInv'
<1> DEFINE n == [Idle EXCEPT !.pc = "insert", !.op = "addMember", !.by = u, !.user = m]
<1>1. Wellformed(n) /\ n.pc = "insert" /\ n.op = "addMember" /\ n.user = m
  BY IdleFields DEF Wellformed, Fields
<1>2. server = "live" /\ BeginMembership(q, n) /\ UNCHANGED <<rows, untold, hasty>>
  BY DEF AddMember, IsMember, serverRows, channelRows, rows
<1> HIDE DEF n
<1> QED BY <1>1, <1>2, PlaceArrives

LEMMA RemoveMemberKeeps ==
  ASSUME IInv, NEW q \in Requests, NEW u \in Users, NEW m \in Users, RemoveMember(q, u, m)
  PROVE  IInv'
<1> DEFINE n == [Idle EXCEPT !.pc = "list", !.op = "removeMember", !.by = u, !.user = m]
<1>1. Wellformed(n) /\ n.pc = "list" /\ n.op = "removeMember" /\ n.user = m
  BY IdleFields DEF Wellformed, Fields
<1>2. /\ server = "live" /\ m # owner /\ BeginMembership(q, n)
      /\ UNCHANGED <<rows, untold, hasty>>
  BY DEF RemoveMember, IsMember, serverRows, channelRows, rows
<1> HIDE DEF n
<1> QED BY <1>1, <1>2, PlaceArrives

LEMMA CreateChannelKeeps ==
  ASSUME IInv, NEW q \in Requests, NEW u \in Users, CreateChannel(q, u)
  PROVE  IInv'
<1> DEFINE n == [Idle EXCEPT !.pc = "members", !.op = "createChannel", !.by = u]
<1>0. Wellformed(n) /\ n.pc = "members" /\ n.op = "createChannel" /\ n.channel = NoChannel
  BY IdleFields DEF Wellformed, Fields
<1>1. /\ DOMAIN req' = Requests /\ req'[q] = n
      /\ \A p \in Requests \ {q} :
           req'[p] = IF req[p].op \in Moves THEN [req[p] EXCEPT !.alone = FALSE] ELSE req[p]
      /\ req[q].pc = "idle" /\ server = "live" /\ UNCHANGED <<rows, history>>
  BY DEF CreateChannel, May, IsMember, serverRows, channelRows, rows, Moves
<1> HIDE DEF n
<1>2. ASSUME NEW p \in Requests \ {q}
      PROVE  GoesOn(p) /\ (req[p].op \in Moves => ~req'[p].alone)
  <2>2. Wellformed(req[p])
    BY DEF IInv, Typed
  <2>3. CASE req[p].op \in Moves
    <3>1. req'[p] = [req[p] EXCEPT !.alone = FALSE]
      BY <1>1, <2>3
    <3>2. /\ Wellformed(req'[p]) /\ ~req'[p].alone
          /\ req'[p].pc = req[p].pc /\ req'[p].op = req[p].op /\ req'[p].by = req[p].by
          /\ req'[p].user = req[p].user /\ req'[p].role = req[p].role
          /\ req'[p].channel = req[p].channel /\ req'[p].todo = req[p].todo
          /\ req'[p].who = req[p].who
      BY <2>2, <3>1, Disturbed
    <3> QED BY <3>2 DEF GoesOn
  <2>4. CASE req[p].op \notin Moves
    BY <1>1, <2>2, <2>4 DEF GoesOn
  <2> QED BY <2>3, <2>4
<1>4. req[q].op = "none"
  BY <1>1 DEF IInv, Each, Fits
<1>5. Typed'
  BY <1>0, <1>1, <1>2 DEF IInv, Typed, GoesOn, rows, history
<1>6. Ranks' /\ Owned'
  BY <1>1 DEF IInv, Ranks, Owned, rows, history
<1>7. Rest'
  BY <1>0, <1>1, <1>2 DEF IInv, Rest, GoesOn, rows, history, Moves
<1>8. Homes'
  BY <1>1, <1>2, <1>4 DEF IInv, Homes, GoesOn, rows, history, Creates
<1>9. Pairs'
  BY <1>0, <1>1, <1>2 DEF IInv, Pairs, Apart, At, GoesOn, Creates, Placing
<1>10. \A p \in Requests : Fits(req[p])' /\ Moving(req[p])'
  BY <1>0, <1>1, <1>2 DEF IInv, Each, Fits, Moving, GoesOn, rows, history, Moves
<1>11. \A p \in Requests : Made(req[p])'
  BY <1>0, <1>1, <1>2 DEF IInv, Each, Made, GoesOn, rows, history, Creates, Placing, Ending
<1>12. \A p \in Requests : Placed(req[p])'
  BY <1>0, <1>1, <1>2 DEF IInv, Each, Placed, GoesOn, rows
<1>13. \A p \in Requests : Alone(p)'
  BY <1>0, <1>1, <1>2 DEF IInv, Each, Alone, GoesOn, Creates, Moves
<1> QED BY <1>5, <1>6, <1>7, <1>8, <1>9, <1>10, <1>11, <1>12, <1>13 DEF IInv, Each

LEMMA ReceiveKeeps ==
  ASSUME IInv, NEW q \in Requests, NEW u \in Users, Receive(q, u)
  PROVE  IInv'
BY UpdateKeeps, UploadServerImageKeeps, DeleteServerImageKeeps, AssignRoleKeeps,
   AddToConversationKeeps, CreateRoleKeeps,
   UpdateRoleKeeps, DeleteRoleKeeps, DeleteChannelKeeps, DeleteServerKeeps, CreateKeeps,
   ReorderChannelsKeeps, AddMemberKeeps, RemoveMemberKeeps, CreateChannelKeeps
   DEF Receive

-----------------------------------------------------------------------------
(* Statements that touch names, images, permissions and positions           *)

LEMMA PlainKeeps ==
  ASSUME IInv, NEW q \in Requests,
         UpdateName(q) \/ Get(q) \/ UpsertImage(q) \/ DeleteImage(q) \/ SetGrants(q)
         \/ SetPositions(q)
  PROVE  IInv'
<1>1. CASE UpdateName(q)
  BY <1>1, GotoIt, Advance DEF IInv, UpdateName, At, channelRows, rows, Creates, Moves
<1>2. CASE Get(q)
  BY <1>2, GotoIt, Advance DEF IInv, Get, At, serverRows, channelRows, rows, Creates, Moves
<1>3. CASE UpsertImage(q)
  BY <1>3, GotoIt, Advance DEF IInv, UpsertImage, At, channelRows, rows, Creates, Moves
<1>4. CASE DeleteImage(q)
  BY <1>4, GotoIt, Advance DEF IInv, DeleteImage, At, channelRows, rows, Creates, Moves
<1>5. CASE SetGrants(q)
  BY <1>5, GotoIt, Advance DEF IInv, SetGrants, At, channelRows, rows, Creates, Moves
<1>6. CASE SetPositions(q)
  BY <1>6, GotoIt, Advance DEF IInv, SetPositions, At, serverRows, rows, Creates, Moves
<1> QED BY <1>1, <1>2, <1>3, <1>4, <1>5, <1>6

-----------------------------------------------------------------------------
(* The making of a server                                                   *)

LEMMA InsertServerKeeps ==
  ASSUME IInv, NEW q \in Requests, InsertServer(q)
  PROVE  IInv'
<1>1. /\ Turned(q, "role") /\ req'[q].channel = req[q].channel
      /\ req'[q].todo = req[q].todo /\ req'[q].who = req[q].who
  BY GotoIt DEF IInv, InsertServer
<1>2. /\ req[q].op = "create" /\ req[q].pc = "server"
      /\ server = "unmade" /\ server' = "live" /\ owner' = req[q].by
      /\ rank' = [rank EXCEPT ![req[q].by] = NoRole]
      /\ UNCHANGED <<roles, channels, convs, inside, used, untold, settled, hasty>>
  BY DEF InsertServer, At, Creating, serverRows, channelRows, history, Creates
<1>3. /\ channels = {} /\ req[q].by \in Users
      /\ \A p \in Requests :
           /\ req[p].op \in {"none", "create", "reorder", "addToConversation"}
           /\ req[p].op = "create" => req[p].pc = "server"
  BY <1>2 DEF IInv, Ranks, Each, Fits
<1>4. Typed'
  BY <1>1, <1>2, <1>3 DEF IInv, Typed, Turned, Wellformed
<1>5. Ranks'
  BY <1>1, <1>2, <1>3, ServersAssumption DEF IInv, Ranks, Typed
<1>6. Owned'
  BY <1>1, <1>2, <1>3 DEF IInv, Owned
<1>7. Rest'
  BY <1>1, <1>2, <1>3 DEF IInv, Rest, Turned, Creates, Moves
<1>8. Homes'
  BY <1>1, <1>2, <1>3 DEF IInv, Homes, Turned, Each, Made, Ending, Creates, Moves
<1>9. Pairs'
  BY <1>1, <1>2, <1>3 DEF IInv, Pairs, Apart, At, Turned, Placing, Creates, Moves
<1>10. \A p \in Requests : Fits(req[p])'
  BY <1>1, <1>2, <1>3 DEF IInv, Each, Fits, Turned, Creates, Moves
<1>11. \A p \in Requests : Moving(req[p])'
  BY <1>1, <1>2, <1>3 DEF IInv, Each, Moving, Turned
<1>12. \A p \in Requests : Made(req[p])'
  BY <1>1, <1>2, <1>3 DEF IInv, Each, Made, Turned, Placing, Ending, Creates, Moves
<1>13. \A p \in Requests : Alone(p)'
  BY <1>1, <1>2, <1>3 DEF IInv, Each, Alone, Turned, Creates, Moves
<1>14. \A p \in Requests : Placed(req[p])'
  BY <1>1, <1>2, <1>3 DEF IInv, Each, Placed, Turned, Creates, Moves
<1> QED BY <1>4, <1>5, <1>6, <1>7, <1>8, <1>9, <1>10, <1>11, <1>12, <1>13, <1>14 DEF IInv, Each

LEMMA CreateDefaultRoleKeeps ==
  ASSUME IInv, NEW q \in Requests, CreateDefaultRole(q)
  PROVE  IInv'
<1>1. /\ Turned(q, "members") /\ req'[q].channel = req[q].channel
      /\ req'[q].todo = req[q].todo /\ req'[q].who = req[q].who
  BY GotoIt DEF IInv, CreateDefaultRole
<1>2. /\ req[q].op = "create" /\ req[q].pc = "role"
      /\ server = "live" /\ roles' = roles \cup {DefaultRole}
      /\ used' = used \cup {DefaultRole}
      /\ UNCHANGED <<server, owner, rank, channels, convs, inside, untold, settled, hasty>>
  BY DEF CreateDefaultRole, At, Creating, serverRows, channelRows, history, Creates
<1>4. Typed'
  BY <1>1, <1>2, ServersAssumption DEF IInv, Typed, Turned, Wellformed
<1>5. Ranks'
  BY <1>1, <1>2 DEF IInv, Ranks
<1>6. Owned'
  BY <1>1, <1>2 DEF IInv, Owned
<1>7. Rest'
  BY <1>1, <1>2 DEF IInv, Rest, Turned, Creates, Moves
<1>8. Homes'
  BY <1>1, <1>2 DEF IInv, Homes, Turned, Each, Made, Ending, Creates, Moves
<1>9. Pairs'
  BY <1>1, <1>2 DEF IInv, Pairs, Apart, At, Turned, Placing, Creates, Moves
<1>10. \A p \in Requests : Fits(req[p])'
  BY <1>1, <1>2 DEF IInv, Each, Fits, Turned, Creates, Moves
<1>11. \A p \in Requests : Moving(req[p])'
  BY <1>1, <1>2 DEF IInv, Each, Moving, Turned
<1>12. \A p \in Requests : Made(req[p])'
  BY <1>1, <1>2 DEF IInv, Each, Made, Turned, Placing, Ending, Creates, Moves
<1>13. \A p \in Requests : Alone(p)'
  BY <1>1, <1>2 DEF IInv, Each, Alone, Turned, Creates, Moves
<1>14. \A p \in Requests : Placed(req[p])'
  BY <1>1, <1>2 DEF IInv, Each, Placed, Turned, Creates, Moves
<1> QED BY <1>4, <1>5, <1>6, <1>7, <1>8, <1>9, <1>10, <1>11, <1>12, <1>13, <1>14 DEF IInv, Each

-----------------------------------------------------------------------------
(* Members                                                                  *)

LEMMA InsertMemberKeeps ==
  ASSUME IInv, NEW q \in Requests, InsertMember(q)
  PROVE  IInv'
<1>1. /\ Turned(q, "list") /\ req'[q].channel = req[q].channel
      /\ req'[q].todo = req[q].todo /\ req'[q].who = req[q].who
  BY GotoIt DEF IInv, InsertMember
<1>2. /\ req[q].op = "addMember" /\ req[q].pc = "insert"
      /\ server = "live" /\ DefaultRole \in roles
      /\ rank' = IF rank[req[q].user] = Absent
                   THEN [rank EXCEPT ![req[q].user] = DefaultRole] ELSE rank
      /\ hasty' = IF rank[req[q].user] = Absent THEN hasty \ {req[q].user} ELSE hasty
      /\ UNCHANGED <<server, owner, roles, channels, convs, inside, used, untold, settled>>
  BY DEF InsertMember, At, Creating, serverRows, channelRows, history, Creates
<1>3. req[q].user \in Users /\ req[q].user \notin settled
  BY <1>2 DEF IInv, Each, Fits, Rest, Moves
<1>4. Typed'
  BY <1>1, <1>2, <1>3, ServersAssumption DEF IInv, Typed, Turned, Wellformed
<1>5. Ranks'
  BY <1>1, <1>2, <1>3, ServersAssumption DEF IInv, Ranks, Typed
<1>6. Owned'
  BY <1>1, <1>2, <1>3 DEF IInv, Owned
<1>7. Rest'
  BY <1>1, <1>2, <1>3, ServersAssumption DEF IInv, Rest, Turned, Creates, Moves, Typed
<1>8. Homes'
  BY <1>1, <1>2, <1>3 DEF IInv, Homes, Turned, Each, Made, Ending, Creates, Moves
<1>9. Pairs'
  BY <1>1, <1>2, <1>3 DEF IInv, Pairs, Apart, At, Turned, Placing, Creates, Moves
<1>10. \A p \in Requests : Fits(req[p])'
  BY <1>1, <1>2, <1>3 DEF IInv, Each, Fits, Turned, Creates, Moves
<1>11. \A p \in Requests : Moving(req[p])'
  BY <1>1, <1>2, <1>3, ServersAssumption DEF IInv, Each, Moving, Turned, Typed, Fits
<1>12. \A p \in Requests : Made(req[p])'
  BY <1>1, <1>2, <1>3, ServersAssumption DEF IInv, Each, Made, Turned, Placing, Ending,
     Creates, Moves, Typed
<1>13. \A p \in Requests : Alone(p)'
  BY <1>1, <1>2, <1>3 DEF IInv, Each, Alone, Turned, Creates, Moves
<1>14. \A p \in Requests : Placed(req[p])'
  BY <1>1, <1>2, <1>3, ServersAssumption DEF IInv, Each, Placed, Turned, Creates, Moves, Typed,
     Fits, Alone
<1> QED BY <1>4, <1>5, <1>6, <1>7, <1>8, <1>9, <1>10, <1>11, <1>12, <1>13, <1>14 DEF IInv, Each

LEMMA ListChannelsKeeps ==
  ASSUME IInv, NEW q \in Requests, ListChannels(q)
  PROVE  IInv'
<1>1. Turned(q, "each") /\ req'[q].channel = req[q].channel
      /\ req'[q].todo = channels /\ req'[q].who = req[q].who
  BY DEF IInv, Typed, ListChannels, Turned, Wellformed, Fields
<1>2. /\ req[q].op \in Moves /\ req[q].pc = "list"
      /\ UNCHANGED <<server, owner, rank, roles, channels, convs, inside, used, untold,
                     settled, hasty>>
  BY DEF ListChannels, At, Moves, Creating, serverRows, channelRows, history, Creates
<1>4. Typed'
  BY <1>1, <1>2 DEF IInv, Typed, Turned, Wellformed
<1>5. Ranks'
  BY <1>1, <1>2 DEF IInv, Ranks
<1>6. Owned'
  BY <1>1, <1>2 DEF IInv, Owned
<1>7. Rest'
  BY <1>1, <1>2 DEF IInv, Rest, Turned, Creates, Moves
<1>8. Homes'
  BY <1>1, <1>2 DEF IInv, Homes, Turned, Each, Made, Ending, Creates, Moves
<1>9. Pairs'
  BY <1>1, <1>2 DEF IInv, Pairs, Apart, At, Turned, Placing, Creates, Moves
<1>10. \A p \in Requests : Fits(req[p])'
  BY <1>1, <1>2 DEF IInv, Each, Fits, Turned, Creates, Moves
<1>11. \A p \in Requests : Moving(req[p])'
  BY <1>1, <1>2 DEF IInv, Each, Moving, Turned
<1>12. \A p \in Requests : Made(req[p])'
  BY <1>1, <1>2 DEF IInv, Each, Made, Turned, Placing, Ending, Creates, Moves
<1>13. \A p \in Requests : Alone(p)'
  BY <1>1, <1>2 DEF IInv, Each, Alone, Turned, Creates, Moves
<1>14. \A p \in Requests : Placed(req[p])'
  BY <1>1, <1>2 DEF IInv, Each, Placed, Turned, Creates, Moves
<1> QED BY <1>4, <1>5, <1>6, <1>7, <1>8, <1>9, <1>10, <1>11, <1>12, <1>13, <1>14 DEF IInv, Each

LEMMA AddToChannelKeeps ==
  ASSUME IInv, NEW q \in Requests, NEW c \in Channels, AddToChannel(q, c)
  PROVE  IInv'
<1>1. Turned(q, "each") /\ req'[q].channel = req[q].channel
      /\ req'[q].todo = req[q].todo \ {c} /\ req'[q].who = req[q].who
  BY DEF IInv, Typed, AddToChannel, At, Turned, Wellformed, Fields
<1>2. /\ req[q].op = "addMember" /\ req[q].pc = "each"
      /\ inside' = [inside EXCEPT ![c] = @ \cup {req[q].user}]
      /\ UNCHANGED <<server, owner, rank, roles, channels, convs, used, untold, settled, hasty>>
  BY DEF AddToChannel, At, Creating, serverRows, channelRows, history, Creates
<1>3. req[q].user \in Users /\ req[q].user \notin settled
  BY <1>2 DEF IInv, Each, Fits, Rest, Moves
<1>4. Typed'
  BY <1>1, <1>2, <1>3 DEF IInv, Typed, Turned, Wellformed
<1>5. Ranks'
  BY <1>1, <1>2, <1>3 DEF IInv, Ranks
<1>6. Owned'
  BY <1>1, <1>2, <1>3 DEF IInv, Owned, Typed
<1>7. Rest'
  BY <1>1, <1>2, <1>3 DEF IInv, Rest, Turned, Creates, Moves, Typed
<1>8. Homes'
  BY <1>1, <1>2, <1>3 DEF IInv, Homes, Turned, Each, Made, Ending, Creates, Moves
<1>9. Pairs'
  BY <1>1, <1>2, <1>3 DEF IInv, Pairs, Apart, At, Turned, Placing, Creates, Moves
<1>10. \A p \in Requests : Fits(req[p])'
  BY <1>1, <1>2, <1>3 DEF IInv, Each, Fits, Turned, Creates, Moves
<1>11. \A p \in Requests : Moving(req[p])'
  BY <1>1, <1>2, <1>3 DEF IInv, Each, Moving, Turned
<1>12. \A p \in Requests : Made(req[p])'
  BY <1>1, <1>2, <1>3 DEF IInv, Each, Made, Turned, Placing, Ending, Creates, Moves, Typed
<1>13. \A p \in Requests : Alone(p)'
  BY <1>1, <1>2, <1>3 DEF IInv, Each, Alone, Turned, Creates, Moves
<1>14. \A p \in Requests : Placed(req[p])'
  BY <1>1, <1>2, <1>3 DEF IInv, Each, Placed, Turned, Creates, Moves, Typed, Alone, Fits
<1> QED BY <1>4, <1>5, <1>6, <1>7, <1>8, <1>9, <1>10, <1>11, <1>12, <1>13, <1>14 DEF IInv, Each

LEMMA MemberAddedKeeps ==
  ASSUME IInv, NEW q \in Requests, MemberAdded(q)
  PROVE  IInv'
<1>1. /\ Turned(q, "announce") /\ req'[q].channel = req[q].channel
      /\ req'[q].todo = req[q].todo /\ req'[q].who = req[q].who
  BY GotoIt DEF IInv, MemberAdded
<1>2. /\ req[q].op = "addMember" /\ req[q].pc = "each" /\ req[q].todo = {}
      /\ UNCHANGED <<server, owner, rank, roles, channels, convs, inside, used, untold,
                     settled, hasty>>
  BY DEF MemberAdded, At, Creating, serverRows, channelRows, history, Creates
<1>4. Typed'
  BY <1>1, <1>2 DEF IInv, Typed, Turned, Wellformed
<1>5. Ranks'
  BY <1>1, <1>2 DEF IInv, Ranks
<1>6. Owned'
  BY <1>1, <1>2 DEF IInv, Owned
<1>7. Rest'
  BY <1>1, <1>2 DEF IInv, Rest, Turned, Creates, Moves
<1>8. Homes'
  BY <1>1, <1>2 DEF IInv, Homes, Turned, Each, Made, Ending, Creates, Moves
<1>9. Pairs'
  BY <1>1, <1>2 DEF IInv, Pairs, Apart, At, Turned, Placing, Creates, Moves
<1>10. \A p \in Requests : Fits(req[p])'
  BY <1>1, <1>2 DEF IInv, Each, Fits, Turned, Creates, Moves
<1>11. \A p \in Requests : Moving(req[p])'
  BY <1>1, <1>2 DEF IInv, Each, Moving, Turned
<1>12. \A p \in Requests : Made(req[p])'
  BY <1>1, <1>2 DEF IInv, Each, Made, Turned, Placing, Ending, Creates, Moves
<1>13. \A p \in Requests : Alone(p)'
  BY <1>1, <1>2 DEF IInv, Each, Alone, Turned, Creates, Moves
<1>14. \A p \in Requests : Placed(req[p])'
  BY <1>1, <1>2 DEF IInv, Each, Placed, Turned, Creates, Moves
<1> QED BY <1>4, <1>5, <1>6, <1>7, <1>8, <1>9, <1>10, <1>11, <1>12, <1>13, <1>14 DEF IInv, Each

LEMMA RemoveFromChannelKeeps ==
  ASSUME IInv, NEW q \in Requests, NEW c \in Channels, RemoveFromChannel(q, c)
  PROVE  IInv'
<1>1. Turned(q, "each") /\ req'[q].channel = req[q].channel
      /\ req'[q].todo = req[q].todo \ {c} /\ req'[q].who = req[q].who
  BY DEF IInv, Typed, RemoveFromChannel, At, Turned, Wellformed, Fields
<1>2. /\ req[q].op = "removeMember" /\ req[q].pc = "each"
      /\ inside' = [inside EXCEPT ![c] = @ \ {req[q].user}]
      /\ UNCHANGED <<server, owner, rank, roles, channels, convs, used, untold, settled, hasty>>
  BY DEF RemoveFromChannel, At, Creating, serverRows, channelRows, history, Creates
<1>3. req[q].user \in Users /\ req[q].user \notin settled /\ req[q].user # owner
  BY <1>2 DEF IInv, Each, Fits, Rest, Moves
<1>4. Typed'
  BY <1>1, <1>2, <1>3 DEF IInv, Typed, Turned, Wellformed
<1>5. Ranks'
  BY <1>1, <1>2, <1>3 DEF IInv, Ranks
<1>6. Owned'
  BY <1>1, <1>2, <1>3 DEF IInv, Owned, Typed
<1>7. Rest'
  BY <1>1, <1>2, <1>3 DEF IInv, Rest, Turned, Creates, Moves, Typed
<1>8. Homes'
  BY <1>1, <1>2, <1>3 DEF IInv, Homes, Turned, Each, Made, Ending, Creates, Moves
<1>9. Pairs'
  BY <1>1, <1>2, <1>3 DEF IInv, Pairs, Apart, At, Turned, Placing, Creates, Moves
<1>10. \A p \in Requests : Fits(req[p])'
  BY <1>1, <1>2, <1>3 DEF IInv, Each, Fits, Turned, Creates, Moves
<1>11. \A p \in Requests : Moving(req[p])'
  BY <1>1, <1>2, <1>3 DEF IInv, Each, Moving, Turned
<1>12. \A p \in Requests : Made(req[p])'
  BY <1>1, <1>2, <1>3 DEF IInv, Each, Made, Turned, Placing, Ending, Creates, Moves, Typed
<1>13. \A p \in Requests : Alone(p)'
  BY <1>1, <1>2, <1>3 DEF IInv, Each, Alone, Turned, Creates, Moves
<1>14. \A p \in Requests : Placed(req[p])'
  BY <1>1, <1>2, <1>3 DEF IInv, Each, Placed, Turned, Creates, Moves, Typed, Alone, Fits
<1> QED BY <1>4, <1>5, <1>6, <1>7, <1>8, <1>9, <1>10, <1>11, <1>12, <1>13, <1>14 DEF IInv, Each

(* What adding a user to one conversation does: a member is in the channels *)
(* already, and of a user who is none nothing is said any more.             *)
LEMMA InsertConversationMemberKeeps ==
  ASSUME IInv, NEW q \in Requests, InsertConversationMember(q)
  PROVE  IInv'
<1> PICK c \in {req[q].channel} : TRUE
  OBVIOUS
<1> PICK m \in {req[q].user} : TRUE
  OBVIOUS
<1>1. /\ c = req[q].channel /\ m = req[q].user
      /\ req[q].op = "addToConversation" /\ req[q].pc = "put"
      /\ UNCHANGED <<server, owner, rank, roles, channels, convs, used, untold, hasty>>
  BY DEF InsertConversationMember, At, serverRows
<1>2. m \in Users /\ c \in Channels
  BY <1>1 DEF IInv, Each, Fits
<1>3. CASE c \notin convs
  <2>1. Becomes(q, Idle) /\ UNCHANGED <<rows, settled, hasty>>
    BY <1>1, <1>3 DEF InsertConversationMember, Becomes, serverRows, rows
  <2> QED BY <1>1, <2>1, Done DEF IInv, Typed, Creates
<1>4. CASE c \in convs
  <2>1. /\ inside' = [inside EXCEPT ![c] = @ \cup {m}]
        /\ settled' = IF m \in Members THEN settled ELSE settled \ {m}
        /\ DOMAIN req' = Requests /\ req'[q] = Idle
        /\ \A p \in Requests \ {q} :
             req'[p] = IF req[p].op = "removeMember" /\ req[p].user = m
                         THEN [req[p] EXCEPT !.alone = FALSE] ELSE req[p]
    BY <1>1, <1>4 DEF InsertConversationMember
  <2>2. ASSUME NEW p \in Requests \ {q}
        PROVE  GoesOn(p) /\ (req[p].op = "removeMember" /\ req[p].user = m => ~req'[p].alone)
    <3>1. Wellformed(req[p])
      BY DEF IInv, Typed
    <3>2. CASE req[p].op = "removeMember" /\ req[p].user = m
      <4>1. req'[p] = [req[p] EXCEPT !.alone = FALSE]
        BY <2>1, <3>2
      <4>2. /\ Wellformed(req'[p]) /\ ~req'[p].alone
            /\ req'[p].pc = req[p].pc /\ req'[p].op = req[p].op /\ req'[p].by = req[p].by
            /\ req'[p].user = req[p].user /\ req'[p].role = req[p].role
            /\ req'[p].channel = req[p].channel /\ req'[p].todo = req[p].todo
            /\ req'[p].who = req[p].who
        BY <3>1, <4>1, Disturbed
      <4> QED BY <4>2 DEF GoesOn
    <3>3. CASE ~(req[p].op = "removeMember" /\ req[p].user = m)
      BY <2>1, <3>1, <3>3 DEF GoesOn
    <3> QED BY <3>2, <3>3
  <2>3. /\ \A d \in Channels, u \in Users : u \in inside'[d] <=> (u \in inside[d] \/ (d = c /\ u = m))
        /\ inside' \in [Channels -> SUBSET Users]
    BY <1>2, <2>1 DEF IInv, Typed
  <2>4. settled' \subseteq settled /\ (m \in settled' => rank[m] # Absent)
    BY <1>2, <2>1 DEF Members
  <2>5. channels \subseteq Channels /\ settled \subseteq Users /\ owner \in Users \cup {NoUser}
    BY DEF IInv, Typed
  <2>6. Typed'
    BY <1>1, <2>1, <2>2, <2>3, <2>4, IdleFields DEF IInv, Typed, GoesOn
  <2>7. Ranks'
    BY <1>1 DEF IInv, Ranks
  <2>8. Owned'
    BY <1>1, <2>3, <2>5 DEF IInv, Owned, Ranks
  <2>9. Rest'
    <3>1. \A p \in Requests : req'[p].op \in Moves => req'[p].user \notin settled'
      BY <2>1, <2>2, <2>4, IdleFields DEF IInv, Rest, GoesOn, Moves
    <3>2. server = "live" =>
            \A u \in settled', d \in channels : u \in inside'[d] <=> rank[u] # Absent
      BY <2>3, <2>4, <2>5 DEF IInv, Rest
    <3> QED BY <1>1, <3>1, <3>2 DEF Rest
  <2>10. Homes'
    BY <1>1, <2>1, <2>2 DEF IInv, Homes, GoesOn, Creates
  <2>11. Pairs'
    BY <2>1, <2>2, IdleFields DEF IInv, Pairs, Apart, At, GoesOn, Creates
  <2>12. \A p \in Requests : Fits(req[p])' /\ Moving(req[p])'
    BY <1>1, <2>1, <2>2, IdleFields DEF IInv, Each, Fits, Moving, GoesOn, Moves
  <2>13. ASSUME NEW p \in Requests PROVE Made(req[p])'
    <3>1. CASE p = q
      BY <2>1, <3>1, IdleFields DEF Made, Creates
    <3>2. CASE p # q /\ req[p].op \in Creates
      <4>1. GoesOn(p) /\ Made(req[p])
        BY <2>2, <3>2 DEF IInv, Each
      <4> QED BY <1>1, <2>3, <2>4, <2>5, <3>2, <4>1 DEF Made, GoesOn, IInv, Ranks
    <3>3. CASE p # q /\ req[p].op \notin Creates
      BY <2>2, <3>3 DEF Made, GoesOn
    <3> QED BY <3>1, <3>2, <3>3
  <2>14. \A p \in Requests : Alone(p)'
    BY <2>1, <2>2, IdleFields DEF IInv, Each, Alone, GoesOn, Creates, Moves
  <2>15. ASSUME NEW p \in Requests PROVE Placed(req[p])'
    <3>1. CASE p = q
      BY <2>1, <3>1, IdleFields DEF Placed
    <3>2. CASE p # q
      <4>1. /\ GoesOn(p) /\ Placed(req[p]) /\ Fits(req[p])
            /\ req[p].op = "removeMember" /\ req[p].user = m => ~req'[p].alone
        BY <2>2, <3>2 DEF IInv, Each
      <4> QED BY <1>1, <2>3, <2>5, <4>1 DEF Placed, GoesOn, Fits, Moves
    <3> QED BY <3>1, <3>2
  <2> QED BY <2>6, <2>7, <2>8, <2>9, <2>10, <2>11, <2>12, <2>13, <2>14, <2>15 DEF IInv, Each
<1> QED BY <1>3, <1>4

LEMMA DeleteMemberKeeps ==
  ASSUME IInv, NEW q \in Requests, DeleteMember(q)
  PROVE  IInv'
<1>1. /\ Turned(q, "announce") /\ req'[q].channel = req[q].channel
      /\ req'[q].todo = req[q].todo /\ req'[q].who = req[q].who
  BY GotoIt DEF IInv, DeleteMember
<1>2. /\ req[q].op = "removeMember" /\ req[q].pc = "each" /\ req[q].todo = {}
      /\ ~Locked(req[q].user)
      /\ rank' = [rank EXCEPT ![req[q].user] = Absent]
      /\ UNCHANGED <<server, owner, roles, channels, convs, inside, used, untold, settled,
                     hasty>>
  BY DEF DeleteMember, At, Creating, serverRows, channelRows, history, Creates
<1>3. req[q].user \in Users /\ req[q].user \notin settled /\ req[q].user # owner
  BY <1>2 DEF IInv, Each, Fits, Rest, Moves
<1>4. Typed'
  BY <1>1, <1>2, <1>3 DEF IInv, Typed, Turned, Wellformed
<1>5. Ranks'
  BY <1>1, <1>2, <1>3, ServersAssumption DEF IInv, Ranks, Typed
<1>6. Owned'
  BY <1>1, <1>2, <1>3 DEF IInv, Owned
<1>7. Rest'
  BY <1>1, <1>2, <1>3 DEF IInv, Rest, Turned, Creates, Moves, Typed
<1>8. Homes'
  BY <1>1, <1>2, <1>3 DEF IInv, Homes, Turned, Each, Made, Ending, Creates, Moves
<1>9. Pairs'
  BY <1>1, <1>2, <1>3 DEF IInv, Pairs, Apart, At, Turned, Placing, Creates, Moves
<1>10. \A p \in Requests : Fits(req[p])'
  BY <1>1, <1>2, <1>3 DEF IInv, Each, Fits, Turned, Creates, Moves
<1>11. \A p \in Requests : Moving(req[p])'
  BY <1>1, <1>2, <1>3, ServersAssumption DEF IInv, Each, Moving, Turned, Typed, Fits, Locked,
     Active
<1>12. \A p \in Requests : Made(req[p])'
  BY <1>1, <1>2, <1>3 DEF IInv, Each, Made, Turned, Placing, Ending, Creates, Moves, Typed
<1>13. \A p \in Requests : Alone(p)'
  BY <1>1, <1>2, <1>3 DEF IInv, Each, Alone, Turned, Creates, Moves
<1>14. \A p \in Requests : Placed(req[p])'
  BY <1>1, <1>2, <1>3 DEF IInv, Each, Placed, Turned, Creates, Moves, Typed, Alone, Fits
<1> QED BY <1>4, <1>5, <1>6, <1>7, <1>8, <1>9, <1>10, <1>11, <1>12, <1>13, <1>14 DEF IInv, Each

-----------------------------------------------------------------------------
(* Roles                                                                    *)

LEMMA SetRoleKeeps ==
  ASSUME IInv, NEW q \in Requests, SetRole(q)
  PROVE  IInv'
<1>1. /\ Turned(q, "announce") /\ req'[q].channel = req[q].channel
      /\ req'[q].todo = req[q].todo /\ req'[q].who = req[q].who
  BY GotoIt DEF IInv, SetRole
<1>2. /\ req[q].op = "assignRole" /\ ~Locked(req[q].user)
      /\ IF IsMember(req[q].user) /\ req[q].user # owner
           THEN /\ req[q].role \in roles
                /\ rank' = [rank EXCEPT ![req[q].user] = req[q].role]
                /\ hasty' = IF \E p \in Active({"deleteRole"}) :
                                  req[p].pc = "commit" /\ req[p].role = req[q].role
                              THEN hasty \cup {req[q].user} ELSE hasty \ {req[q].user}
           ELSE UNCHANGED <<rank, hasty>>
      /\ UNCHANGED <<server, owner, roles, channels, convs, inside, used, untold, settled>>
  BY DEF SetRole, At, Creating, serverRows, channelRows, history, Creates
<1>3. /\ \A u \in Users : rank'[u] = Absent <=> rank[u] = Absent
      /\ \A u \in Users \ {req[q].user} : rank'[u] = rank[u] /\ (u \in hasty' <=> u \in hasty)
  BY <1>2, ServersAssumption DEF IInv, Typed, IsMember, Members
<1>4. Typed'
  BY <1>1, <1>2, <1>3 DEF IInv, Typed, Turned, Wellformed, IsMember, Members
<1>5. Ranks'
  BY <1>1, <1>2, <1>3, ServersAssumption DEF IInv, Ranks, Typed, IsMember, Members
<1>6. Owned'
  BY <1>1, <1>2, <1>3 DEF IInv, Owned
<1>7. Rest'
  BY <1>1, <1>2, <1>3 DEF IInv, Rest, Turned, Creates, Moves, Typed
<1>8. Homes'
  BY <1>1, <1>2, <1>3 DEF IInv, Homes, Turned, Each, Made, Ending, Creates, Moves
<1>9. Pairs'
  BY <1>1, <1>2, <1>3 DEF IInv, Pairs, Apart, At, Turned, Placing, Creates, Moves
<1>10. \A p \in Requests : Fits(req[p])'
  BY <1>1, <1>2, <1>3 DEF IInv, Each, Fits, Turned, Creates, Moves
<1>11. \A p \in Requests : Moving(req[p])'
  BY <1>1, <1>2, <1>3, ServersAssumption DEF IInv, Each, Moving, Turned, Typed, Fits, Locked,
     Active, IsMember, Members
<1>12. \A p \in Requests : Made(req[p])'
  BY <1>1, <1>2, <1>3 DEF IInv, Each, Made, Turned, Placing, Ending, Creates, Moves, Typed
<1>13. \A p \in Requests : Alone(p)'
  BY <1>1, <1>2, <1>3 DEF IInv, Each, Alone, Turned, Creates, Moves
<1>14. \A p \in Requests : Placed(req[p])'
  BY <1>1, <1>2, <1>3 DEF IInv, Each, Placed, Turned, Creates, Moves, Typed, Fits
<1> QED BY <1>4, <1>5, <1>6, <1>7, <1>8, <1>9, <1>10, <1>11, <1>12, <1>13, <1>14 DEF IInv, Each

LEMMA InsertRoleKeeps ==
  ASSUME IInv, NEW q \in Requests, InsertRole(q)
  PROVE  IInv'
<1>1. /\ Turned(q, "announce") /\ req'[q].channel = req[q].channel
      /\ req'[q].todo = req[q].todo /\ req'[q].who = req[q].who
  BY GotoIt DEF IInv, InsertRole
<1>2. /\ req[q].op = "createRole"
      /\ roles' \subseteq Roles /\ roles \subseteq roles' /\ used \subseteq used'
      /\ UNCHANGED <<server, owner, rank, channels, convs, inside, untold, settled, hasty>>
  BY DEF IInv, Typed, InsertRole, At, channelRows, history
<1>4. Typed'
  BY <1>1, <1>2 DEF IInv, Typed, Turned, Wellformed
<1>5. Ranks'
  BY <1>1, <1>2 DEF IInv, Ranks
<1>6. Owned'
  BY <1>1, <1>2 DEF IInv, Owned
<1>7. Rest'
  BY <1>1, <1>2 DEF IInv, Rest, Turned, Creates, Moves
<1>8. Homes'
  BY <1>1, <1>2 DEF IInv, Homes, Turned, Each, Made, Ending, Creates, Moves
<1>9. Pairs'
  BY <1>1, <1>2 DEF IInv, Pairs, Apart, At, Turned, Placing, Creates, Moves
<1>10. \A p \in Requests : Fits(req[p])'
  BY <1>1, <1>2 DEF IInv, Each, Fits, Turned, Creates, Moves
<1>11. \A p \in Requests : Moving(req[p])'
  BY <1>1, <1>2 DEF IInv, Each, Moving, Turned
<1>12. \A p \in Requests : Made(req[p])'
  BY <1>1, <1>2 DEF IInv, Each, Made, Turned, Placing, Ending, Creates, Moves
<1>13. \A p \in Requests : Alone(p)'
  BY <1>1, <1>2 DEF IInv, Each, Alone, Turned, Creates, Moves
<1>14. \A p \in Requests : Placed(req[p])'
  BY <1>1, <1>2 DEF IInv, Each, Placed, Turned, Creates, Moves
<1> QED BY <1>4, <1>5, <1>6, <1>7, <1>8, <1>9, <1>10, <1>11, <1>12, <1>13, <1>14 DEF IInv, Each

LEMMA MoveMembersKeeps ==
  ASSUME IInv, NEW q \in Requests, MoveMembers(q)
  PROVE  IInv'
<1>1. Turned(q, "commit") /\ req'[q].channel = req[q].channel
      /\ req'[q].who = {u \in Members : rank[u] = req[q].role}
  BY DEF IInv, Typed, MoveMembers, Turned, Wellformed, Fields, Members
<1>2. /\ req[q].op = "deleteRole"
      /\ \A u \in {u \in Members : rank[u] = req[q].role} : ~Locked(u)
      /\ UNCHANGED <<server, owner, rank, roles, channels, convs, inside, used, untold,
                     settled, hasty>>
  BY DEF MoveMembers, At, Creating, serverRows, channelRows, history, Creates
<1>4. Typed'
  BY <1>1, <1>2 DEF IInv, Typed, Turned, Wellformed
<1>5. Ranks'
  BY <1>1, <1>2 DEF IInv, Ranks
<1>6. Owned'
  BY <1>1, <1>2 DEF IInv, Owned
<1>7. Rest'
  BY <1>1, <1>2 DEF IInv, Rest, Turned, Creates, Moves
<1>8. Homes'
  BY <1>1, <1>2 DEF IInv, Homes, Turned, Each, Made, Ending, Creates, Moves
<1>9. Pairs'
  BY <1>1, <1>2 DEF IInv, Pairs, Apart, At, Turned, Placing, Creates, Moves, Locked, Active
<1>10. \A p \in Requests : Fits(req[p])'
  BY <1>1, <1>2 DEF IInv, Each, Fits, Turned, Creates, Moves
<1>11. \A p \in Requests : Moving(req[p])'
  BY <1>1, <1>2, ServersAssumption DEF IInv, Each, Moving, Turned, Fits, Members
<1>12. \A p \in Requests : Made(req[p])'
  BY <1>1, <1>2 DEF IInv, Each, Made, Turned, Placing, Ending, Creates, Moves
<1>13. \A p \in Requests : Alone(p)'
  BY <1>1, <1>2 DEF IInv, Each, Alone, Turned, Creates, Moves
<1>14. \A p \in Requests : Placed(req[p])'
  BY <1>1, <1>2 DEF IInv, Each, Placed, Turned, Creates, Moves
<1> QED BY <1>4, <1>5, <1>6, <1>7, <1>8, <1>9, <1>10, <1>11, <1>12, <1>13, <1>14 DEF IInv, Each

LEMMA DropRoleKeeps ==
  ASSUME IInv, NEW q \in Requests, DropRole(q)
  PROVE  IInv'
<1>1. /\ Turned(q, "announce") /\ req'[q].channel = req[q].channel
      /\ req'[q].todo = req[q].todo /\ req'[q].who = req[q].who
  BY GotoIt DEF IInv, DropRole
<1>2. /\ req[q].op = "deleteRole" /\ req[q].pc = "commit"
      /\ \A u \in Users : rank[u] = req[q].role /\ Locked(u) => u \in req[q].who
      /\ roles' = roles \ {req[q].role}
      /\ rank' = [u \in Users |-> IF u \in req[q].who THEN DefaultRole
                                  ELSE IF rank[u] = req[q].role THEN NoRole ELSE rank[u]]
      /\ UNCHANGED <<server, owner, channels, convs, inside, used, untold, settled, hasty>>
  BY DEF DropRole, At, Creating, serverRows, channelRows, history, Creates
<1>3. /\ req[q].role \in Roles \ {DefaultRole}
      /\ \A u \in Users : IF u \in req[q].who THEN rank[u] = req[q].role
                           ELSE rank[u] = req[q].role => u \in hasty
      /\ \A u \in Users : rank'[u] = Absent <=> rank[u] = Absent
  BY <1>2, ServersAssumption DEF IInv, Typed, Each, Fits, Moving
<1>4. Typed'
  BY <1>1, <1>2, <1>3, ServersAssumption DEF IInv, Typed, Turned, Wellformed
<1>5. Ranks'
  BY <1>1, <1>2, <1>3, ServersAssumption DEF IInv, Ranks, Typed
<1>6. Owned'
  BY <1>1, <1>2, <1>3 DEF IInv, Owned
<1>7. Rest'
  BY <1>1, <1>2, <1>3 DEF IInv, Rest, Turned, Creates, Moves, Typed
<1>8. Homes'
  BY <1>1, <1>2, <1>3 DEF IInv, Homes, Turned, Each, Made, Ending, Creates, Moves
<1>9. Pairs'
  BY <1>1, <1>2, <1>3 DEF IInv, Pairs, Apart, At, Turned, Placing, Creates, Moves
<1>10. \A p \in Requests : Fits(req[p])'
  BY <1>1, <1>2, <1>3 DEF IInv, Each, Fits, Turned, Creates, Moves
<1>11. \A p \in Requests : Moving(req[p])'
  BY <1>1, <1>2, <1>3, ServersAssumption DEF IInv, Each, Moving, Turned, Typed, Fits, Locked,
     Active, Pairs, Apart, At
<1>12. \A p \in Requests : Made(req[p])'
  BY <1>1, <1>2, <1>3 DEF IInv, Each, Made, Turned, Placing, Ending, Creates, Moves, Typed,
     Wellformed
<1>13. \A p \in Requests : Alone(p)'
  BY <1>1, <1>2, <1>3 DEF IInv, Each, Alone, Turned, Creates, Moves
<1>14. \A p \in Requests : Placed(req[p])'
  BY <1>1, <1>2, <1>3 DEF IInv, Each, Placed, Turned, Creates, Moves, Typed, Fits
<1> QED BY <1>4, <1>5, <1>6, <1>7, <1>8, <1>9, <1>10, <1>11, <1>12, <1>13, <1>14 DEF IInv, Each

-----------------------------------------------------------------------------
(* Channels                                                                 *)

LEMMA ListMemberIDsKeeps ==
  ASSUME IInv, NEW q \in Requests, ListMemberIDs(q)
  PROVE  IInv'
<1>1. Turned(q, "conversation") /\ req'[q].channel = req[q].channel
      /\ req'[q].who = Members
  BY DEF IInv, Typed, ListMemberIDs, Turned, Wellformed, Fields, Members
<1>2. /\ req[q].op \in Creates /\ req[q].pc = "members"
      /\ UNCHANGED <<server, owner, rank, roles, channels, convs, inside, used, untold,
                     settled, hasty>>
  BY DEF ListMemberIDs, At, Creating, serverRows, channelRows, history, Creates
<1>4. Typed'
  BY <1>1, <1>2 DEF IInv, Typed, Turned, Wellformed
<1>5. Ranks'
  BY <1>1, <1>2 DEF IInv, Ranks
<1>6. Owned'
  BY <1>1, <1>2 DEF IInv, Owned
<1>7. Rest'
  BY <1>1, <1>2 DEF IInv, Rest, Turned, Creates, Moves
<1>8. Homes'
  BY <1>1, <1>2 DEF IInv, Homes, Turned, Each, Made, Ending, Creates, Moves
<1>9. Pairs'
  BY <1>1, <1>2 DEF IInv, Pairs, Apart, At, Turned, Placing, Creates, Moves
<1>10. \A p \in Requests : Fits(req[p])'
  BY <1>1, <1>2 DEF IInv, Each, Fits, Turned, Creates, Moves
<1>11. \A p \in Requests : Moving(req[p])'
  BY <1>1, <1>2 DEF IInv, Each, Moving, Turned
<1>12. \A p \in Requests : Made(req[p])'
  BY <1>1, <1>2, ServersAssumption DEF IInv, Each, Made, Turned, Placing, Ending, Creates,
     Moves, Ranks, Members, Typed
<1>13. \A p \in Requests : Alone(p)'
  BY <1>1, <1>2 DEF IInv, Each, Alone, Turned, Creates, Moves
<1>14. \A p \in Requests : Placed(req[p])'
  BY <1>1, <1>2 DEF IInv, Each, Placed, Turned, Creates, Moves
<1> QED BY <1>4, <1>5, <1>6, <1>7, <1>8, <1>9, <1>10, <1>11, <1>12, <1>13, <1>14 DEF IInv, Each

LEMMA CreateWithMembersKeeps ==
  ASSUME IInv, NEW q \in Requests, CreateWithMembers(q)
  PROVE  IInv'
<1>1. PICK c \in Channels \ used :
        /\ req[q].op = "create" <=> c = General
        /\ convs' = convs \cup {c}
        /\ inside' = [inside EXCEPT ![c] = req[q].who]
        /\ used' = used \cup {c}
        /\ req' = [req EXCEPT ![q].channel = c, ![q].pc = "position"]
  BY DEF CreateWithMembers
<1>2. /\ req[q].op \in Creates /\ req[q].pc = "conversation"
      /\ UNCHANGED <<server, owner, rank, roles, channels, untold, settled, hasty>>
  BY DEF CreateWithMembers, At, Creating, serverRows, channelRows, history, Creates
<1>3. Turned(q, "position") /\ req'[q].channel = c /\ req'[q].who = req[q].who
  BY <1>1 DEF IInv, Typed, Turned, Wellformed, Fields
<1>4. Typed'
  BY <1>1, <1>2, <1>3 DEF IInv, Typed, Turned, Wellformed
<1>5. Ranks'
  BY <1>1, <1>2, <1>3 DEF IInv, Ranks
<1>6. Owned'
  BY <1>1, <1>2, <1>3 DEF IInv, Owned, Typed
<1>7. Rest'
  BY <1>1, <1>2, <1>3 DEF IInv, Rest, Turned, Creates, Moves, Typed
<1>8. Homes'
  BY <1>1, <1>2, <1>3, ServersAssumption DEF IInv, Homes, Turned, Each, Made, Ending, Creates,
     Moves, Typed, Fits
<1>9. Pairs'
  BY <1>1, <1>2, <1>3 DEF IInv, Pairs, Apart, At, Turned, Placing, Creates, Moves, Typed, Each,
     Made, Fits
<1>10. \A p \in Requests : Fits(req[p])'
  BY <1>1, <1>2, <1>3 DEF IInv, Each, Fits, Turned, Creates, Moves, Typed
<1>11. \A p \in Requests : Moving(req[p])'
  BY <1>1, <1>2, <1>3 DEF IInv, Each, Moving, Turned
<1>12. \A p \in Requests : Made(req[p])'
  BY <1>1, <1>2, <1>3 DEF IInv, Each, Made, Turned, Placing, Ending, Creates, Moves, Typed,
     Wellformed
<1>13. \A p \in Requests : Alone(p)'
  BY <1>1, <1>2, <1>3 DEF IInv, Each, Alone, Turned, Creates, Moves
<1>14. \A p \in Requests : Placed(req[p])'
  BY <1>1, <1>2, <1>3 DEF IInv, Each, Placed, Turned, Creates, Moves, Typed
<1> QED BY <1>4, <1>5, <1>6, <1>7, <1>8, <1>9, <1>10, <1>11, <1>12, <1>13, <1>14 DEF IInv, Each

LEMMA ReadPositionKeeps ==
  ASSUME IInv, NEW q \in Requests, ReadPosition(q)
  PROVE  IInv'
<1>1. Turned(q, "channel") /\ req'[q].channel = req[q].channel
      /\ req'[q].who = req[q].who
  BY DEF IInv, Typed, ReadPosition, Turned, Wellformed, Fields
<1>2. /\ req[q].op \in Creates /\ req[q].pc = "position"
      /\ UNCHANGED <<server, owner, rank, roles, channels, convs, inside, used, untold,
                     settled, hasty>>
  BY DEF ReadPosition, At, Creating, serverRows, channelRows, history, Creates
<1>4. Typed'
  BY <1>1, <1>2 DEF IInv, Typed, Turned, Wellformed
<1>5. Ranks'
  BY <1>1, <1>2 DEF IInv, Ranks
<1>6. Owned'
  BY <1>1, <1>2 DEF IInv, Owned
<1>7. Rest'
  BY <1>1, <1>2 DEF IInv, Rest, Turned, Creates, Moves
<1>8. Homes'
  BY <1>1, <1>2 DEF IInv, Homes, Turned, Each, Made, Ending, Creates, Moves
<1>9. Pairs'
  BY <1>1, <1>2 DEF IInv, Pairs, Apart, At, Turned, Placing, Creates, Moves
<1>10. \A p \in Requests : Fits(req[p])'
  BY <1>1, <1>2 DEF IInv, Each, Fits, Turned, Creates, Moves
<1>11. \A p \in Requests : Moving(req[p])'
  BY <1>1, <1>2 DEF IInv, Each, Moving, Turned
<1>12. \A p \in Requests : Made(req[p])'
  BY <1>1, <1>2 DEF IInv, Each, Made, Turned, Placing, Ending, Creates, Moves
<1>13. \A p \in Requests : Alone(p)'
  BY <1>1, <1>2 DEF IInv, Each, Alone, Turned, Creates, Moves
<1>14. \A p \in Requests : Placed(req[p])'
  BY <1>1, <1>2 DEF IInv, Each, Placed, Turned, Creates, Moves
<1> QED BY <1>4, <1>5, <1>6, <1>7, <1>8, <1>9, <1>10, <1>11, <1>12, <1>13, <1>14 DEF IInv, Each

LEMMA InsertChannelKeeps ==
  ASSUME IInv, NEW q \in Requests, InsertChannel(q)
  PROVE  IInv'
<1>1. /\ Turned(q,
       IF req[q].op = "create" THEN "tell" ELSE "announce") /\ req'[q].channel = req[q].channel
      /\ req'[q].todo = req[q].todo /\ req'[q].who = req[q].who
  BY GotoIt DEF IInv, InsertChannel
<1>2. /\ req[q].op \in Creates /\ req[q].pc = "channel" /\ server = "live"
      /\ untold' \in BOOLEAN /\ (untold => untold')
      /\ channels' = channels \cup {req[q].channel}
      /\ UNCHANGED <<server, owner, rank, roles, convs, inside, used, settled, hasty>>
  BY DEF IInv, Typed, InsertChannel, At, Creating, serverRows, Creates
<1>3. /\ req[q].channel \in (Channels \cap used) \ channels /\ owner \in inside[req[q].channel]
      /\ \A u \in settled : u \in inside[req[q].channel] <=> rank[u] # Absent
      /\ \A p \in Requests : req[p].op \in Moves => ~req[p].alone
  BY <1>2 DEF IInv, Each, Made, Alone, Placing, Typed, Wellformed
<1>4. Typed'
  BY <1>1, <1>2, <1>3 DEF IInv, Typed, Turned, Wellformed
<1>5. Ranks'
  BY <1>1, <1>2, <1>3 DEF IInv, Ranks
<1>6. Owned'
  BY <1>1, <1>2, <1>3 DEF IInv, Owned
<1>7. Rest'
  BY <1>1, <1>2, <1>3 DEF IInv, Rest, Turned, Creates, Moves
<1>8. Homes'
  BY <1>1, <1>2, <1>3 DEF IInv, Homes, Turned, Each, Made, Ending, Creates, Moves
<1>9. Pairs'
  BY <1>1, <1>2, <1>3 DEF IInv, Pairs, Apart, At, Turned, Placing, Creates, Moves
<1>10. \A p \in Requests : Fits(req[p])'
  BY <1>1, <1>2, <1>3 DEF IInv, Each, Fits, Turned, Creates, Moves
<1>11. \A p \in Requests : Moving(req[p])'
  BY <1>1, <1>2, <1>3 DEF IInv, Each, Moving, Turned
<1>12. \A p \in Requests : Made(req[p])'
  BY <1>1, <1>2, <1>3 DEF IInv, Each, Made, Turned, Placing, Ending, Creates, Moves, Pairs,
     Apart
<1>13. \A p \in Requests : Alone(p)'
  BY <1>1, <1>2, <1>3 DEF IInv, Each, Alone, Turned, Creates, Moves
<1>14. \A p \in Requests : Placed(req[p])'
  BY <1>1, <1>2, <1>3 DEF IInv, Each, Placed, Turned, Creates, Moves
<1> QED BY <1>4, <1>5, <1>6, <1>7, <1>8, <1>9, <1>10, <1>11, <1>12, <1>13, <1>14 DEF IInv, Each

LEMMA DropChannelKeeps ==
  ASSUME IInv, NEW q \in Requests, DropChannel(q)
  PROVE  IInv'
<1>1. /\ Turned(q, "announce") /\ req'[q].channel = req[q].channel
      /\ req'[q].todo = req[q].todo /\ req'[q].who = req[q].who
  BY GotoIt DEF IInv, DropChannel
<1>2. /\ req[q].op = "deleteChannel"
      /\ convs' = convs \ {req[q].channel} /\ channels' = channels \ {req[q].channel}
      /\ inside' = [inside EXCEPT ![req[q].channel] = {}]
      /\ UNCHANGED <<server, owner, rank, roles, used, untold, settled, hasty>>
  BY DEF DropChannel, At, Creating, serverRows, channelRows, history, Creates
<1>3. req[q].channel \in used \cap Channels
  BY <1>2 DEF IInv, Each, Fits
<1>4. Typed'
  BY <1>1, <1>2, <1>3 DEF IInv, Typed, Turned, Wellformed
<1>5. Ranks'
  BY <1>1, <1>2, <1>3 DEF IInv, Ranks
<1>6. Owned'
  BY <1>1, <1>2, <1>3 DEF IInv, Owned, Typed
<1>7. Rest'
  BY <1>1, <1>2, <1>3 DEF IInv, Rest, Turned, Creates, Moves, Typed
<1>8. Homes'
  BY <1>1, <1>2, <1>3 DEF IInv, Homes, Turned, Each, Made, Ending, Creates, Moves
<1>9. Pairs'
  BY <1>1, <1>2, <1>3 DEF IInv, Pairs, Apart, At, Turned, Placing, Creates, Moves
<1>10. \A p \in Requests : Fits(req[p])'
  BY <1>1, <1>2, <1>3 DEF IInv, Each, Fits, Turned, Creates, Moves
<1>11. \A p \in Requests : Moving(req[p])'
  BY <1>1, <1>2, <1>3 DEF IInv, Each, Moving, Turned
<1>12. \A p \in Requests : Made(req[p])'
  BY <1>1, <1>2, <1>3 DEF IInv, Each, Made, Turned, Placing, Ending, Creates, Moves, Typed,
     Pairs, Apart
<1>13. \A p \in Requests : Alone(p)'
  BY <1>1, <1>2, <1>3 DEF IInv, Each, Alone, Turned, Creates, Moves
<1>14. \A p \in Requests : Placed(req[p])'
  BY <1>1, <1>2, <1>3 DEF IInv, Each, Placed, Turned, Creates, Moves, Typed
<1> QED BY <1>4, <1>5, <1>6, <1>7, <1>8, <1>9, <1>10, <1>11, <1>12, <1>13, <1>14 DEF IInv, Each

LEMMA RejectOrderKeeps ==
  ASSUME IInv, NEW q \in Requests, RejectOrder(q)
  PROVE  IInv'
BY Done DEF IInv, Typed, RejectOrder, Rejected, At, Becomes, serverRows, channelRows, rows,
     history, Creates

-----------------------------------------------------------------------------
(* The deletion of the server                                               *)

LEMMA ListEveryoneKeeps ==
  ASSUME IInv, NEW q \in Requests, ListEveryone(q)
  PROVE  IInv'
<1>1. Turned(q, "conversations") /\ req'[q].channel = req[q].channel
  BY DEF IInv, Typed, ListEveryone, Turned, Wellformed, Fields, Members
<1> QED BY <1>1, Advance DEF ListEveryone, At, serverRows, channelRows, rows, Creates, Moves

LEMMA DropConversationsKeeps ==
  ASSUME IInv, NEW q \in Requests, DropConversations(q)
  PROVE  IInv'
<1>1. /\ Turned(q, "server") /\ req'[q].channel = req[q].channel
      /\ req'[q].todo = req[q].todo /\ req'[q].who = req[q].who
  BY GotoIt DEF IInv, DropConversations
<1>2. /\ req[q].op = "deleteServer"
      /\ convs' = convs \ channels /\ channels' = {}
      /\ inside' = [c \in Channels |-> IF c \in channels THEN {} ELSE inside[c]]
      /\ UNCHANGED <<server, owner, rank, roles, used, untold, settled, hasty>>
  BY DEF DropConversations, At, Creating, serverRows, channelRows, history, Creates
<1>4. Typed'
  BY <1>1, <1>2 DEF IInv, Typed, Turned, Wellformed
<1>5. Ranks'
  BY <1>1, <1>2 DEF IInv, Ranks
<1>6. Owned'
  BY <1>1, <1>2 DEF IInv, Owned
<1>7. Rest'
  BY <1>1, <1>2 DEF IInv, Rest, Turned, Creates, Moves
<1>8. Homes'
  BY <1>1, <1>2 DEF IInv, Homes, Turned, Each, Made, Ending, Creates, Moves
<1>9. Pairs'
  BY <1>1, <1>2 DEF IInv, Pairs, Apart, At, Turned, Placing, Creates, Moves
<1>10. \A p \in Requests : Fits(req[p])'
  BY <1>1, <1>2 DEF IInv, Each, Fits, Turned, Creates, Moves
<1>11. \A p \in Requests : Moving(req[p])'
  BY <1>1, <1>2 DEF IInv, Each, Moving, Turned
<1>12. \A p \in Requests : Made(req[p])'
  BY <1>1, <1>2 DEF IInv, Each, Made, Turned, Placing, Ending, Creates, Moves, Typed
<1>13. \A p \in Requests : Alone(p)'
  BY <1>1, <1>2 DEF IInv, Each, Alone, Turned, Creates, Moves
<1>14. \A p \in Requests : Placed(req[p])'
  BY <1>1, <1>2 DEF IInv, Each, Placed, Turned, Creates, Moves
<1> QED BY <1>4, <1>5, <1>6, <1>7, <1>8, <1>9, <1>10, <1>11, <1>12, <1>13, <1>14 DEF IInv, Each

LEMMA DropServerKeeps ==
  ASSUME IInv, NEW q \in Requests, DropServer(q)
  PROVE  IInv'
<1>1. /\ Turned(q, "tell") /\ req'[q].channel = req[q].channel
      /\ req'[q].todo = req[q].todo /\ req'[q].who = req[q].who
  BY GotoIt DEF IInv, DropServer
<1>2. /\ req[q].op = "deleteServer" /\ \A u \in Users : ~Locked(u)
      /\ server' = "gone" /\ rank' = [u \in Users |-> Absent]
      /\ roles' = {} /\ channels' = {}
      /\ UNCHANGED <<owner, convs, inside, used, untold, settled, hasty>>
  BY DEF DropServer, At, Creating, serverRows, channelRows, history, Creates
<1>4. Typed'
  BY <1>1, <1>2, ServersAssumption DEF IInv, Typed, Turned, Wellformed
<1>5. Ranks'
  BY <1>1, <1>2 DEF IInv, Ranks
<1>6. Owned'
  BY <1>1, <1>2 DEF IInv, Owned
<1>7. Rest'
  BY <1>1, <1>2 DEF IInv, Rest, Turned, Creates, Moves
<1>8. Homes'
  BY <1>1, <1>2 DEF IInv, Homes, Turned, Each, Made, Ending, Creates, Moves
<1>9. Pairs'
  BY <1>1, <1>2 DEF IInv, Pairs, Apart, At, Turned, Placing, Creates, Moves
<1>10. \A p \in Requests : Fits(req[p])'
  BY <1>1, <1>2 DEF IInv, Each, Fits, Turned, Creates, Moves
<1>11. \A p \in Requests : Moving(req[p])'
  BY <1>1, <1>2, ServersAssumption DEF IInv, Each, Moving, Turned, Typed, Wellformed, Fits,
     Locked, Active
<1>12. \A p \in Requests : Made(req[p])'
  BY <1>1, <1>2 DEF IInv, Each, Made, Turned, Placing, Ending, Creates, Moves
<1>13. \A p \in Requests : Alone(p)'
  BY <1>1, <1>2 DEF IInv, Each, Alone, Turned, Creates, Moves
<1>14. \A p \in Requests : Placed(req[p])'
  BY <1>1, <1>2 DEF IInv, Each, Placed, Turned, Creates, Moves
<1> QED BY <1>4, <1>5, <1>6, <1>7, <1>8, <1>9, <1>10, <1>11, <1>12, <1>13, <1>14 DEF IInv, Each

-----------------------------------------------------------------------------
(* The whole                                                                *)

LEMMA TellKeeps ==
  ASSUME IInv, NEW q \in Requests, Tell(q)
  PROVE  IInv'
BY Done DEF IInv, Typed, Tell, Becomes, serverRows, channelRows, history, rows, Ending

LEMMA FailKeeps ==
  ASSUME IInv, NEW q \in Requests, Fail(q)
  PROVE  IInv'
BY AbortKeeps DEF Fail

LEMMA MissingKeeps ==
  ASSUME IInv, NEW q \in Requests, Missing(q)
  PROVE  IInv'
BY AbortKeeps DEF Missing

LEMMA TabsKeep ==
  ASSUME IInv, NEW u \in Users, StartList(u) \/ FinishList(u) \/ Drag(u)
  PROVE  IInv'
BY Same DEF StartList, FinishList, Drag, serverRows, channelRows, rows

LEMMA StatementKeeps ==
  ASSUME IInv, NEW q \in Requests, Statement(q)
  PROVE  IInv'
BY InsertServerKeeps, CreateDefaultRoleKeeps, PlainKeeps, InsertMemberKeeps,
   ListChannelsKeeps, MemberAddedKeeps, InsertConversationMemberKeeps, DeleteMemberKeeps,
   SetRoleKeeps, InsertRoleKeeps,
   MoveMembersKeeps, DropRoleKeeps, ListMemberIDsKeeps, CreateWithMembersKeeps,
   ReadPositionKeeps, InsertChannelKeeps, RejectOrderKeeps, DropChannelKeeps,
   ListEveryoneKeeps, DropConversationsKeeps, DropServerKeeps, MissingKeeps,
   AddToChannelKeeps, RemoveFromChannelKeeps
   DEF Statement

LEMMA InitKeeps ==
  ASSUME Init
  PROVE  IInv
<1>1. PICK b \in Begun :
        /\ server = b.server /\ owner = b.owner /\ rank = b.rank
        /\ roles = b.roles /\ channels = b.channels /\ convs = b.channels
        /\ inside = [c \in Channels |->
                       IF c \in b.channels THEN {u \in Users : b.rank[u] # Absent} ELSE {}]
        /\ used = b.roles \cup b.channels
        /\ req = [q \in Requests |-> Idle]
        /\ untold = FALSE /\ settled = Users /\ hasty = {}
  BY DEF Init
<1>2. \A q \in Requests : req[q] = Idle
  BY <1>1
<1>3. Typed
  BY <1>1, IdleFields, BegunAssumption DEF Typed
<1>4. Ranks
  BY <1>1, BegunAssumption, ServersAssumption DEF Ranks
<1>5. Rest
  BY <1>1, <1>2, IdleFields, BegunAssumption DEF Rest, Moves
<1>6. Owned
  BY <1>1, BegunAssumption, ServersAssumption DEF Owned
<1>7. Homes
  BY <1>1 DEF Homes
<1>8. Pairs
  BY <1>2, IdleFields DEF Pairs, Apart, At, Creates
<1>9. \A q \in Requests : Each(q)
  BY <1>2, IdleFields DEF Each, Fits, Moving, Made, Alone, Placed, Creates, Moves
<1> QED BY <1>3, <1>4, <1>5, <1>6, <1>7, <1>8, <1>9 DEF IInv

LEMMA NextKeeps ==
  ASSUME IInv, [Next]_vars
  PROVE  IInv'
<1>1. CASE \E q \in Requests, u \in Users : Receive(q, u)
  BY <1>1, ReceiveKeeps
<1>2. CASE \E q \in Requests : Statement(q) \/ Announce(q) \/ Tell(q) \/ Fail(q)
  BY <1>2, StatementKeeps, AnnounceKeeps, TellKeeps, FailKeeps
<1>3. CASE \E u \in Users : StartList(u) \/ FinishList(u) \/ Drag(u)
  BY <1>3, TabsKeep
<1>4. CASE UNCHANGED vars
  BY <1>4, Same DEF vars, serverRows, channelRows, rows
<1> QED BY <1>1, <1>2, <1>3, <1>4 DEF Next

(* For any number of users, roles and requests that run together, whatever  *)
(* fails and wherever: the owner of a server stays a member, in the         *)
(* conversation of every channel, and every other member has a role that    *)
(* exists, except one who was given it while DeleteRole was deleting it.    *)
THEOREM MembersHaveRoles == Spec => []EveryMemberHasRole
<1>1. IInv => EveryMemberHasRole
  BY ServersAssumption DEF IInv, Typed, Ranks, Owned, EveryMemberHasRole, OwnerStays, Members
<1> QED BY <1>1, InitKeeps, NextKeeps, PTL DEF Spec

(* For any number of users, channels and requests: one who was added or     *)
(* removed by a request that no other disturbed is in the conversation of   *)
(* every channel, or of none, and no later request about others undoes it.  *)
THEOREM MembershipFollowed == Spec => []ChannelsFollowMembership
<1>1. IInv => ChannelsFollowMembership
  BY DEF IInv, Typed, Rest, ChannelsFollowMembership, Members
<1> QED BY <1>1, InitKeeps, NextKeeps, PTL DEF Spec

(* For any number of channels being made and deleted together: as long as   *)
(* no request breaks off, the conversation behind a channel has its channel *)
(* or a request that is about to insert it.                                 *)
THEOREM NoConversationOrphaned == Spec => []NoOrphans
<1>1. IInv => NoOrphans
  BY DEF IInv, Homes, NoOrphans, Making, Active, Creates
<1> QED BY <1>1, InitKeeps, NextKeeps, PTL DEF Spec
-----------------------------------------------------------------------------
(* The lists in the tabs                                                    *)

(* A request has changed the server and its members are yet to be told.     *)
Changed(r) ==
  \/ r.pc = "announce"
  \/ r.op = "create" /\ r.pc \in {"role", "members", "conversation", "position", "channel"}
  \/ r.op = "update" /\ r.pc = "get"
  \/ r.op = "addMember" /\ r.pc \in {"list", "each"}

(* User u will hear of what request r has done, unless a query fails: as a  *)
(* member, as the caller, as the one removed; or the server is about to go. *)
Reaches(r, u) ==
  \/ Changed(r) /\ (u \in Members \/ u = r.by)
  \/ r.op = "removeMember" /\ r.pc = "announce" /\ u = r.user
  \/ (r.op = "reorder" \/ r.pc = "tell") /\ u = r.by
  \/ r.op = "deleteServer" /\ r.pc = "server"

Shows(u) == view[u] = IF u \in Members THEN {Summary(look)} ELSE {}

(* What the tab of u shows, or what the query it has begun will find, is    *)
(* right, or the tab will ask again.                                        *)
Fine(u) ==
  \/ u \in due
  \/ \E q \in Requests : Reaches(req[q], u)
  \/ IF reading[u] = {} THEN Shows(u) ELSE u \in Members /\ reading[u] = {look}

Tabbed == DOMAIN view = Users /\ DOMAIN reading = Users /\ DOMAIN held = Users

(* A server yet to be made is in nobody's list.                             *)
Unseen ==
  server = "unmade" =>
    /\ \A u \in Users : view[u] = {} /\ reading[u] = {} /\ held[u] = {}
    /\ \A q \in Requests : req[q].op # "reorder"

Fresh == server = "live" /\ ~untold => \A u \in Tabs : Fine(u)

Informed == IInv /\ Tabbed /\ Unseen /\ Fresh

shown == <<look, rank, roles, grants, channels, position>>

(* A step of request q that leaves the tabs alone: whoever's list becomes   *)
(* wrong by it, and whoever was still to hear of q, hears of q from now on. *)
LEMMA Works ==
  ASSUME IInv, Tabbed, Unseen, Fresh, NEW q \in Requests,
         \A p \in Requests \ {q} :
           /\ req'[p].pc = req[p].pc /\ req'[p].op = req[p].op
           /\ req'[p].by = req[p].by /\ req'[p].user = req[p].user,
         UNCHANGED tabs, untold => untold',
         server' = "unmade" => server = "unmade" /\ req'[q].op # "reorder",
         server' = "live" => server = "live",
         server' = "live" /\ ~untold' => \A u \in Tabs :
           \/ Reaches(req[q], u)'
           \/ /\ ~Reaches(req[q], u)
              /\ (u \in Members)' <=> u \in Members
              /\ u \notin Members \/ UNCHANGED shown
  PROVE  Tabbed' /\ Unseen' /\ Fresh'
<1>1. Tabbed' /\ Unseen'
  <2>1. \A p \in Requests : server' = "unmade" => req'[p].op # "reorder"
    BY DEF Unseen
  <2> QED BY <2>1 DEF Tabbed, Unseen, tabs
<1>2. ASSUME server' = "live", ~untold', NEW u \in Tabs
      PROVE  Fine(u)'
  <2>1. CASE Reaches(req[q], u)'
    BY <2>1 DEF Fine
  <2>2. CASE ~Reaches(req[q], u)'
    <3>1. /\ ~Reaches(req[q], u) /\ ((u \in Members)' <=> u \in Members)
          /\ u \notin Members \/ UNCHANGED shown
      BY <1>2, <2>2
    <3>2. Fine(u)
      BY <1>2 DEF Fresh
    <3>3. CASE u \in due
      BY <3>3 DEF Fine, tabs
    <3>4. CASE \E p \in Requests : Reaches(req[p], u)
      <4>1. PICK p \in Requests : Reaches(req[p], u)
        BY <3>4
      <4>2. p # q
        BY <3>1, <4>1
      <4>3. Reaches(req[p], u)'
        BY <3>1, <4>1, <4>2 DEF Reaches, Changed
      <4> QED BY <4>3 DEF Fine
    <3>5. CASE IF reading[u] = {} THEN Shows(u) ELSE u \in Members /\ reading[u] = {look}
      <4>1. CASE u \notin Members
        BY <3>1, <3>5, <4>1 DEF Fine, Shows, tabs
      <4>2. CASE u \in Members
        <5>1. look' = look /\ Summary(look)' = Summary(look)
          BY <3>1, <4>2 DEF Summary, shown
        <5> QED BY <3>1, <3>5, <4>2, <5>1 DEF Fine, Shows, tabs
      <4> QED BY <4>1, <4>2
    <3> QED BY <3>2, <3>3, <3>4, <3>5 DEF Fine
  <2> QED BY <2>1, <2>2
<1> QED BY <1>1, <1>2 DEF Fresh

(* A request that tells nobody and changes nothing they see.                *)
LEMMA Unremarkable ==
  ASSUME IInv, Tabbed, Unseen, Fresh, NEW q \in Requests,
         \A p \in Requests \ {q} :
           /\ req'[p].pc = req[p].pc /\ req'[p].op = req[p].op
           /\ req'[p].by = req[p].by /\ req'[p].user = req[p].user,
         UNCHANGED <<tabs, shown, server>>, untold => untold',
         server = "unmade" => req'[q].op # "reorder",
         req[q].op # "reorder",
         req[q].pc = "idle"
           \/ /\ req[q].pc \notin Ending /\ req'[q].op = req[q].op /\ req'[q].by = req[q].by
              /\ Changed(req[q]) => Changed(req'[q])
              /\ req[q].op = "deleteServer" => req[q].pc # "server"
  PROVE  Tabbed' /\ Unseen' /\ Fresh'
<1>1. Members' = Members
  BY DEF Members, shown
<1>2. CASE req[q].pc = "idle"
  <2>1. \A u \in Tabs : ~Reaches(req[q], u)
    BY <1>2 DEF IInv, Each, Fits, Reaches, Changed
  <2> QED BY <1>1, <2>1, Works
<1>3. CASE req[q].pc # "idle"
  <2>1. ASSUME NEW u \in Tabs, Reaches(req[q], u)
        PROVE  Reaches(req[q], u)'
    <3>1. Changed(req[q]) /\ (u \in Members \/ u = req[q].by)
      BY <1>3, <2>1 DEF Reaches, Ending
    <3>2. Changed(req[q])'
      BY <1>3, <3>1 DEF Changed
    <3> QED BY <1>1, <1>3, <3>1, <3>2 DEF Reaches
  <2> QED BY <1>1, <2>1, Works
<1> QED BY <1>2, <1>3

(* One that changes what the members see, and will tell them.               *)
LEMMA Remarkable ==
  ASSUME IInv, Tabbed, Unseen, Fresh, NEW q \in Requests, server # "unmade", server' = server,
         \A p \in Requests \ {q} :
           /\ req'[p].pc = req[p].pc /\ req'[p].op = req[p].op
           /\ req'[p].by = req[p].by /\ req'[p].user = req[p].user,
         UNCHANGED tabs, untold => untold', Changed(req'[q]), req'[q].by = req[q].by,
         req[q].pc \notin Ending, req[q].op = "deleteServer" => req[q].pc # "server",
         \A u \in Users : u \in Members => (u \in Members)' \/ Reaches(req[q], u)'
  PROVE  Tabbed' /\ Unseen' /\ Fresh'
<1>1. ASSUME NEW u \in Tabs, ~Reaches(req[q], u)'
      PROVE  /\ ~Reaches(req[q], u)
             /\ (u \in Members)' <=> u \in Members
             /\ u \notin Members
  <2>1. u \in Users
    BY ServersAssumption
  <2>2. u # req[q].by /\ ~(u \in Members)'
    BY <1>1 DEF Reaches, Changed
  <2>3. u \notin Members
    BY <1>1, <2>1, <2>2
  <2> QED BY <2>2, <2>3 DEF Reaches, Ending
<1> QED BY <1>1, Works

-----------------------------------------------------------------------------
(* What each step does to the lists                                         *)

(* The arrival of a request that leaves the tab as it is.                   *)
Begins(q) ==
  /\ req[q].pc = "idle" /\ req'[q].op # "reorder"
  /\ \A p \in Requests \ {q} :
       /\ req'[p].pc = req[p].pc /\ req'[p].op = req[p].op
       /\ req'[p].by = req[p].by /\ req'[p].user = req[p].user
  /\ UNCHANGED <<tabs, shown, server, untold>>

LEMMA BeginIt ==
  ASSUME Typed, NEW q \in Requests, NEW r, Begin(q, r), r.op # "reorder",
         UNCHANGED <<tabs, shown, server, untold>>
  PROVE  Begins(q)
BY DEF Typed, Begin, Begins

LEMMA BeginMembershipIt ==
  ASSUME Typed, NEW q \in Requests, NEW r, BeginMembership(q, r), Wellformed(r),
         r.op \in Moves, UNCHANGED <<tabs, shown, server, untold>>
  PROVE  Begins(q)
<1>1. /\ req[q].pc = "idle"
      /\ req' = [p \in Requests |->
                   IF p = q THEN [r EXCEPT !.alone = About(r.user) = {} /\ Making = {}]
                   ELSE IF p \in About(r.user) THEN [req[p] EXCEPT !.alone = FALSE]
                   ELSE req[p]]
  BY DEF BeginMembership
<1>2. \A p \in Requests : DOMAIN req[p] = Fields
  BY DEF Typed, Wellformed
<1>3. req'[q].op = r.op
  BY <1>1 DEF Wellformed, Fields
<1>4. ASSUME NEW p \in Requests \ {q}
      PROVE  /\ req'[p].pc = req[p].pc /\ req'[p].op = req[p].op
             /\ req'[p].by = req[p].by /\ req'[p].user = req[p].user
  BY <1>1, <1>2 DEF Fields
<1> QED BY <1>1, <1>3, <1>4 DEF Begins, Moves

LEMMA BeginsInforms ==
  ASSUME Informed, NEW q \in Requests, Begins(q)
  PROVE  Tabbed' /\ Unseen' /\ Fresh'
<1>1. req[q].op # "reorder"
  BY DEF Informed, IInv, Each, Fits, Begins
<1> QED BY <1>1, Unremarkable DEF Informed, Begins

(* Every request but a new order of the channels leaves the tab alone.      *)
LEMMA ReceiveBegins ==
  ASSUME Typed, NEW q \in Requests, NEW u \in Users, Receive(q, u),
         ~\E order \in Orders(u) : ReorderChannels(q, u, order)
  PROVE  Begins(q)
<1> USE DEF serverRows, channelRows, history, shown
<1>1. ASSUME Create(q, u)
      PROVE  Begins(q)
  BY <1>1, BeginIt DEF Create, Idle
<1>2. ASSUME Update(q, u)
      PROVE  Begins(q)
  BY <1>2, BeginIt DEF Update, Idle
<1>3. ASSUME CreateChannel(q, u)
      PROVE  Begins(q)
  <2>1. \A p \in Requests : DOMAIN req[p] = Fields
    BY DEF Typed, Wellformed
  <2>2. \A p \in Requests \ {q} :
          /\ req'[p].pc = req[p].pc /\ req'[p].op = req[p].op
          /\ req'[p].by = req[p].by /\ req'[p].user = req[p].user
    BY <1>3, <2>1 DEF CreateChannel, Fields
  <2>3. req'[q].op = "createChannel"
    BY <1>3 DEF CreateChannel, Idle
  <2> QED BY <1>3, <2>2, <2>3 DEF CreateChannel, Begins
<1>4. ASSUME DeleteServer(q, u)
      PROVE  Begins(q)
  BY <1>4, BeginIt DEF DeleteServer, Idle
<1>5. ASSUME NEW image \in {"icon", "banner"}, UploadServerImage(q, u, image)
      PROVE  Begins(q)
  BY <1>5, BeginIt DEF UploadServerImage, Idle
<1>6. ASSUME NEW image \in {"icon", "banner"}, DeleteServerImage(q, u, image)
      PROVE  Begins(q)
  BY <1>6, BeginIt DEF DeleteServerImage, Idle
<1>7. ASSUME NEW m \in Users, AddMember(q, u, m)
      PROVE  Begins(q)
  <2> DEFINE n == [Idle EXCEPT !.pc = "insert", !.op = "addMember", !.by = u, !.user = m]
  <2>1. Wellformed(n) /\ n.op = "addMember"
    BY IdleFields DEF Wellformed, Fields
  <2>2. BeginMembership(q, n) /\ UNCHANGED <<tabs, shown, server, untold>>
    BY <1>7 DEF AddMember
  <2> HIDE DEF n
  <2> QED BY <2>1, <2>2, BeginMembershipIt DEF Moves
<1>8. ASSUME NEW m \in Users, RemoveMember(q, u, m)
      PROVE  Begins(q)
  <2> DEFINE n == [Idle EXCEPT !.pc = "list", !.op = "removeMember", !.by = u, !.user = m]
  <2>1. Wellformed(n) /\ n.op = "removeMember"
    BY IdleFields DEF Wellformed, Fields
  <2>2. BeginMembership(q, n) /\ UNCHANGED <<tabs, shown, server, untold>>
    BY <1>8 DEF RemoveMember
  <2> HIDE DEF n
  <2> QED BY <2>1, <2>2, BeginMembershipIt DEF Moves
<1>9. ASSUME NEW m \in Users, NEW r \in Roles, AssignRole(q, u, m, r)
      PROVE  Begins(q)
  BY <1>9, BeginIt DEF AssignRole, Idle
<1>10. ASSUME NEW input \in RoleInputs, CreateRole(q, u, input)
      PROVE  Begins(q)
  BY <1>10, BeginIt DEF CreateRole, Idle
<1>11. ASSUME NEW r \in Roles, NEW input \in RoleInputs, UpdateRole(q, u, r, input)
      PROVE  Begins(q)
  BY <1>11, BeginIt DEF UpdateRole, Idle
<1>12. ASSUME NEW r \in Roles, DeleteRole(q, u, r)
      PROVE  Begins(q)
  BY <1>12, BeginIt DEF DeleteRole, Idle
<1>13. ASSUME NEW c \in Channels, DeleteChannel(q, u, c)
      PROVE  Begins(q)
  BY <1>13, BeginIt DEF DeleteChannel, Idle
<1>14. ASSUME NEW c \in Channels, NEW m \in Users, AddToConversation(q, u, c, m)
       PROVE  Begins(q)
  BY <1>14, BeginIt DEF AddToConversation, Idle
<1> QED BY <1>1, <1>2, <1>3, <1>4, <1>5, <1>6, <1>7, <1>8, <1>9, <1>10, <1>11, <1>12, <1>13,
           <1>14 DEF Receive

(* Request q goes on to label pc.                                           *)
Goes(q, pc) ==
  /\ \A p \in Requests \ {q} : req'[p] = req[p]
  /\ req'[q].pc = pc /\ req'[q].op = req[q].op
  /\ req'[q].by = req[q].by /\ req'[q].user = req[q].user

LEMMA GoesIt ==
  ASSUME Typed, NEW q \in Requests, NEW pc, Goto(q, pc)
  PROVE  Goes(q, pc)
BY DEF Typed, Goto, Goes, Wellformed, Fields

(* A statement that only reads, or writes what no list shows.               *)
Passes(q, pc) ==
  /\ Goes(q, pc) /\ UNCHANGED <<tabs, shown, server, untold>>
  /\ req[q].op # "reorder" /\ req[q].pc \notin Ending
  /\ Changed(req[q]) => Changed(req'[q])
  /\ req[q].op = "deleteServer" => req[q].pc # "server"

LEMMA PassesInforms ==
  ASSUME Informed, NEW q \in Requests, NEW pc, Passes(q, pc)
  PROVE  Tabbed' /\ Unseen' /\ Fresh'
BY Unremarkable DEF Informed, Passes, Goes

LEMMA ReadsPass ==
  ASSUME Typed, NEW q \in Requests
  PROVE  /\ Get(q) => Passes(q, "announce")
         /\ ListChannels(q) => Passes(q, "each")
         /\ MemberAdded(q) => Passes(q, "announce")
         /\ MoveMembers(q) => Passes(q, "commit")
         /\ ListMemberIDs(q) => Passes(q, "conversation")
         /\ CreateWithMembers(q) => Passes(q, "position")
         /\ ReadPosition(q) => Passes(q, "channel")
         /\ ListEveryone(q) => Passes(q, "conversations")
         /\ \A c \in Channels : AddToChannel(q, c) \/ RemoveFromChannel(q, c) => Passes(q, "each")
<1>1. DOMAIN req = Requests /\ \A p \in Requests : DOMAIN req[p] = Fields
  BY DEF Typed, Wellformed
<1>2. ASSUME Get(q)
      PROVE  Passes(q, "announce")
  <2>1. Goes(q, "announce")
    BY <1>2, GoesIt DEF Get
  <2>2. UNCHANGED <<tabs, shown, server, untold>>
    BY <1>2 DEF Get, serverRows, channelRows, history, shown
  <2>3. /\ req[q].op # "reorder" /\ req[q].pc \notin Ending
        /\ Changed(req[q]) => Changed(req'[q])
        /\ req[q].op = "deleteServer" => req[q].pc # "server"
    BY <1>2, <2>1 DEF Get, At, Creating, Goes, Changed, Ending
  <2> QED BY <2>1, <2>2, <2>3 DEF Passes
<1>3. ASSUME ListChannels(q)
      PROVE  Passes(q, "each")
  <2>1. Goes(q, "each")
    BY <1>3, <1>1 DEF ListChannels, Goes, Fields, At, Creating
  <2>2. UNCHANGED <<tabs, shown, server, untold>>
    BY <1>3 DEF ListChannels, serverRows, channelRows, history, shown
  <2>3. /\ req[q].op # "reorder" /\ req[q].pc \notin Ending
        /\ Changed(req[q]) => Changed(req'[q])
        /\ req[q].op = "deleteServer" => req[q].pc # "server"
    BY <1>3, <2>1 DEF ListChannels, At, Creating, Goes, Changed, Ending
  <2> QED BY <2>1, <2>2, <2>3 DEF Passes
<1>4. ASSUME MemberAdded(q)
      PROVE  Passes(q, "announce")
  <2>1. Goes(q, "announce")
    BY <1>4, GoesIt DEF MemberAdded
  <2>2. UNCHANGED <<tabs, shown, server, untold>>
    BY <1>4 DEF MemberAdded, serverRows, channelRows, history, shown
  <2>3. /\ req[q].op # "reorder" /\ req[q].pc \notin Ending
        /\ Changed(req[q]) => Changed(req'[q])
        /\ req[q].op = "deleteServer" => req[q].pc # "server"
    BY <1>4, <2>1 DEF MemberAdded, At, Creating, Goes, Changed, Ending
  <2> QED BY <2>1, <2>2, <2>3 DEF Passes
<1>5. ASSUME MoveMembers(q)
      PROVE  Passes(q, "commit")
  <2>1. Goes(q, "commit")
    BY <1>5, <1>1 DEF MoveMembers, Goes, Fields, At, Creating
  <2>2. UNCHANGED <<tabs, shown, server, untold>>
    BY <1>5 DEF MoveMembers, serverRows, channelRows, history, shown
  <2>3. /\ req[q].op # "reorder" /\ req[q].pc \notin Ending
        /\ Changed(req[q]) => Changed(req'[q])
        /\ req[q].op = "deleteServer" => req[q].pc # "server"
    BY <1>5, <2>1 DEF MoveMembers, At, Creating, Goes, Changed, Ending
  <2> QED BY <2>1, <2>2, <2>3 DEF Passes
<1>6. ASSUME ListMemberIDs(q)
      PROVE  Passes(q, "conversation")
  <2>1. Goes(q, "conversation")
    BY <1>6, <1>1 DEF ListMemberIDs, Goes, Fields, At, Creating
  <2>2. UNCHANGED <<tabs, shown, server, untold>>
    BY <1>6 DEF ListMemberIDs, serverRows, channelRows, history, shown
  <2>3. /\ req[q].op # "reorder" /\ req[q].pc \notin Ending
        /\ Changed(req[q]) => Changed(req'[q])
        /\ req[q].op = "deleteServer" => req[q].pc # "server"
    BY <1>6, <2>1 DEF ListMemberIDs, At, Creating, Goes, Changed, Ending
  <2> QED BY <2>1, <2>2, <2>3 DEF Passes
<1>7. ASSUME CreateWithMembers(q)
      PROVE  Passes(q, "position")
  <2>1. Goes(q, "position")
    BY <1>7, <1>1 DEF CreateWithMembers, Goes, Fields, At, Creating
  <2>2. UNCHANGED <<tabs, shown, server, untold>>
    BY <1>7 DEF CreateWithMembers, serverRows, channelRows, history, shown
  <2>3. /\ req[q].op # "reorder" /\ req[q].pc \notin Ending
        /\ Changed(req[q]) => Changed(req'[q])
        /\ req[q].op = "deleteServer" => req[q].pc # "server"
    BY <1>7, <2>1 DEF CreateWithMembers, At, Creating, Goes, Changed, Ending
  <2> QED BY <2>1, <2>2, <2>3 DEF Passes
<1>8. ASSUME ReadPosition(q)
      PROVE  Passes(q, "channel")
  <2>1. Goes(q, "channel")
    BY <1>8, <1>1 DEF ReadPosition, Goes, Fields, At, Creating
  <2>2. UNCHANGED <<tabs, shown, server, untold>>
    BY <1>8 DEF ReadPosition, serverRows, channelRows, history, shown
  <2>3. /\ req[q].op # "reorder" /\ req[q].pc \notin Ending
        /\ Changed(req[q]) => Changed(req'[q])
        /\ req[q].op = "deleteServer" => req[q].pc # "server"
    BY <1>8, <2>1 DEF ReadPosition, At, Creating, Goes, Changed, Ending
  <2> QED BY <2>1, <2>2, <2>3 DEF Passes
<1>9. ASSUME ListEveryone(q)
      PROVE  Passes(q, "conversations")
  <2>1. Goes(q, "conversations")
    BY <1>9, <1>1 DEF ListEveryone, Goes, Fields, At, Creating
  <2>2. UNCHANGED <<tabs, shown, server, untold>>
    BY <1>9 DEF ListEveryone, serverRows, channelRows, history, shown
  <2>3. /\ req[q].op # "reorder" /\ req[q].pc \notin Ending
        /\ Changed(req[q]) => Changed(req'[q])
        /\ req[q].op = "deleteServer" => req[q].pc # "server"
    BY <1>9, <2>1 DEF ListEveryone, At, Creating, Goes, Changed, Ending
  <2> QED BY <2>1, <2>2, <2>3 DEF Passes
<1>10. ASSUME NEW c \in Channels, AddToChannel(q, c)
      PROVE  Passes(q, "each")
  <2>1. Goes(q, "each")
    BY <1>10, <1>1 DEF AddToChannel, Goes, Fields, At, Creating
  <2>2. UNCHANGED <<tabs, shown, server, untold>>
    BY <1>10 DEF AddToChannel, serverRows, channelRows, history, shown
  <2>3. /\ req[q].op # "reorder" /\ req[q].pc \notin Ending
        /\ Changed(req[q]) => Changed(req'[q])
        /\ req[q].op = "deleteServer" => req[q].pc # "server"
    BY <1>10, <2>1 DEF AddToChannel, At, Creating, Goes, Changed, Ending
  <2> QED BY <2>1, <2>2, <2>3 DEF Passes
<1>11. ASSUME NEW c \in Channels, RemoveFromChannel(q, c)
      PROVE  Passes(q, "each")
  <2>1. Goes(q, "each")
    BY <1>11, <1>1 DEF RemoveFromChannel, Goes, Fields, At, Creating
  <2>2. UNCHANGED <<tabs, shown, server, untold>>
    BY <1>11 DEF RemoveFromChannel, serverRows, channelRows, history, shown
  <2>3. /\ req[q].op # "reorder" /\ req[q].pc \notin Ending
        /\ Changed(req[q]) => Changed(req'[q])
        /\ req[q].op = "deleteServer" => req[q].pc # "server"
    BY <1>11, <2>1 DEF RemoveFromChannel, At, Creating, Goes, Changed, Ending
  <2> QED BY <2>1, <2>2, <2>3 DEF Passes
<1> QED BY <1>2, <1>3, <1>4, <1>5, <1>6, <1>7, <1>8, <1>9, <1>10, <1>11

(* Statements after which the members are told.                             *)
Writes(q, pc) ==
  /\ Goes(q, pc) /\ UNCHANGED <<tabs, server, untold>> /\ server # "unmade"
  /\ req[q].pc \notin Ending /\ req[q].op # "deleteServer"
  /\ Changed(req'[q])
  /\ \A u \in Users : u \in Members => (u \in Members)' \/ Reaches(req[q], u)'

LEMMA WritesInforms ==
  ASSUME Informed, NEW q \in Requests, NEW pc, Writes(q, pc)
  PROVE  Tabbed' /\ Unseen' /\ Fresh'
BY Remarkable DEF Informed, Writes, Goes

LEMMA StatementsWrite ==
  ASSUME IInv, Unseen, NEW q \in Requests
  PROVE  /\ CreateDefaultRole(q) => Writes(q, "members")
         /\ UpdateName(q) => Writes(q, "get")
         /\ InsertMember(q) => Writes(q, "list")
         /\ (\/ UpsertImage(q) \/ DeleteImage(q) \/ DeleteMember(q) \/ SetRole(q)
             \/ InsertRole(q) \/ SetGrants(q) \/ DropRole(q) \/ SetPositions(q)
             \/ DropChannel(q))
              => Writes(q, "announce")
<1>1. Typed /\ Fits(req[q]) /\ Wellformed(req[q])
  BY DEF IInv, Each, Typed
<1>2. ASSUME CreateDefaultRole(q)
      PROVE  Writes(q, "members")
  <2>1. Goes(q, "members") /\ Changed(req'[q])
    BY <1>2, <1>1, GoesIt DEF CreateDefaultRole, At, Goes, Changed
  <2>2. UNCHANGED <<tabs, server, untold>>
    BY <1>2 DEF CreateDefaultRole, serverRows, channelRows, history
  <2>3. server # "unmade" /\ req[q].pc \notin Ending /\ req[q].op # "deleteServer"
    BY <1>2, <1>1 DEF CreateDefaultRole, At, Fits, Unseen, Ending
  <2>4. \A u \in Users : u \in Members => (u \in Members)' \/ Reaches(req[q], u)'
    BY <1>2, <1>1, <2>1 DEF CreateDefaultRole, At, serverRows, Members
  <2> QED BY <2>1, <2>2, <2>3, <2>4 DEF Writes
<1>3. ASSUME UpdateName(q)
      PROVE  Writes(q, "get")
  <2>1. Goes(q, "get") /\ Changed(req'[q])
    BY <1>3, <1>1, GoesIt DEF UpdateName, At, Goes, Changed
  <2>2. UNCHANGED <<tabs, server, untold>>
    BY <1>3 DEF UpdateName, serverRows, channelRows, history
  <2>3. server # "unmade" /\ req[q].pc \notin Ending /\ req[q].op # "deleteServer"
    BY <1>3, <1>1 DEF UpdateName, At, Fits, Unseen, Ending
  <2>4. \A u \in Users : u \in Members => (u \in Members)' \/ Reaches(req[q], u)'
    BY <1>3, <1>1, <2>1 DEF UpdateName, At, serverRows, Members
  <2> QED BY <2>1, <2>2, <2>3, <2>4 DEF Writes
<1>4. ASSUME InsertMember(q)
      PROVE  Writes(q, "list")
  <2>1. Goes(q, "list") /\ Changed(req'[q])
    BY <1>4, <1>1, GoesIt DEF InsertMember, At, Goes, Changed
  <2>2. UNCHANGED <<tabs, server, untold>>
    BY <1>4 DEF InsertMember, serverRows, channelRows, history
  <2>3. server # "unmade" /\ req[q].pc \notin Ending /\ req[q].op # "deleteServer"
    BY <1>4, <1>1 DEF InsertMember, At, Fits, Unseen, Ending
  <2>4. \A u \in Users : u \in Members => (u \in Members)' \/ Reaches(req[q], u)'
    BY <1>4, <1>1, ServersAssumption, <2>1 DEF InsertMember, At, serverRows, Typed, Members
  <2> QED BY <2>1, <2>2, <2>3, <2>4 DEF Writes
<1>5. ASSUME UpsertImage(q)
      PROVE  Writes(q, "announce")
  <2>1. Goes(q, "announce") /\ Changed(req'[q])
    BY <1>5, <1>1, GoesIt DEF UpsertImage, At, Goes, Changed
  <2>2. UNCHANGED <<tabs, server, untold>>
    BY <1>5 DEF UpsertImage, serverRows, channelRows, history
  <2>3. server # "unmade" /\ req[q].pc \notin Ending /\ req[q].op # "deleteServer"
    BY <1>5, <1>1 DEF UpsertImage, At, Fits, Unseen, Ending
  <2>4. \A u \in Users : u \in Members => (u \in Members)' \/ Reaches(req[q], u)'
    BY <1>5, <1>1, <2>1 DEF UpsertImage, At, serverRows, Members
  <2> QED BY <2>1, <2>2, <2>3, <2>4 DEF Writes
<1>6. ASSUME DeleteImage(q)
      PROVE  Writes(q, "announce")
  <2>1. Goes(q, "announce") /\ Changed(req'[q])
    BY <1>6, <1>1, GoesIt DEF DeleteImage, At, Goes, Changed
  <2>2. UNCHANGED <<tabs, server, untold>>
    BY <1>6 DEF DeleteImage, serverRows, channelRows, history
  <2>3. server # "unmade" /\ req[q].pc \notin Ending /\ req[q].op # "deleteServer"
    BY <1>6, <1>1 DEF DeleteImage, At, Fits, Unseen, Ending
  <2>4. \A u \in Users : u \in Members => (u \in Members)' \/ Reaches(req[q], u)'
    BY <1>6, <1>1, <2>1 DEF DeleteImage, At, serverRows, Members
  <2> QED BY <2>1, <2>2, <2>3, <2>4 DEF Writes
<1>7. ASSUME DeleteMember(q)
      PROVE  Writes(q, "announce")
  <2>1. Goes(q, "announce") /\ Changed(req'[q])
    BY <1>7, <1>1, GoesIt DEF DeleteMember, At, Goes, Changed
  <2>2. UNCHANGED <<tabs, server, untold>>
    BY <1>7 DEF DeleteMember, serverRows, channelRows, history
  <2>3. server # "unmade" /\ req[q].pc \notin Ending /\ req[q].op # "deleteServer"
    BY <1>7, <1>1 DEF DeleteMember, At, Fits, Unseen, Ending
  <2>4. \A u \in Users : u \in Members => (u \in Members)' \/ Reaches(req[q], u)'
    BY <1>7, <1>1, <2>1 DEF DeleteMember, At, serverRows, Typed, Reaches, Goes, Members
  <2> QED BY <2>1, <2>2, <2>3, <2>4 DEF Writes
<1>8. ASSUME SetRole(q)
      PROVE  Writes(q, "announce")
  <2>1. Goes(q, "announce") /\ Changed(req'[q])
    BY <1>8, <1>1, GoesIt DEF SetRole, At, Goes, Changed
  <2>2. UNCHANGED <<tabs, server, untold>>
    BY <1>8 DEF SetRole, serverRows, channelRows, history
  <2>3. server # "unmade" /\ req[q].pc \notin Ending /\ req[q].op # "deleteServer"
    BY <1>8, <1>1 DEF SetRole, At, Fits, Unseen, Ending
  <2>4. \A u \in Users : u \in Members => (u \in Members)' \/ Reaches(req[q], u)'
    BY <1>8, <1>1, ServersAssumption, <2>1 DEF SetRole, At, serverRows, Typed, Wellformed, Members
  <2> QED BY <2>1, <2>2, <2>3, <2>4 DEF Writes
<1>9. ASSUME InsertRole(q)
      PROVE  Writes(q, "announce")
  <2>1. Goes(q, "announce") /\ Changed(req'[q])
    BY <1>9, <1>1, GoesIt DEF InsertRole, At, Goes, Changed
  <2>2. UNCHANGED <<tabs, server, untold>>
    BY <1>9 DEF InsertRole, serverRows, channelRows, history
  <2>3. server # "unmade" /\ req[q].pc \notin Ending /\ req[q].op # "deleteServer"
    BY <1>9, <1>1 DEF InsertRole, At, Fits, Unseen, Ending
  <2>4. \A u \in Users : u \in Members => (u \in Members)' \/ Reaches(req[q], u)'
    BY <1>9, <1>1, <2>1 DEF InsertRole, At, serverRows, Members
  <2> QED BY <2>1, <2>2, <2>3, <2>4 DEF Writes
<1>10. ASSUME SetGrants(q)
      PROVE  Writes(q, "announce")
  <2>1. Goes(q, "announce") /\ Changed(req'[q])
    BY <1>10, <1>1, GoesIt DEF SetGrants, At, Goes, Changed
  <2>2. UNCHANGED <<tabs, server, untold>>
    BY <1>10 DEF SetGrants, serverRows, channelRows, history
  <2>3. server # "unmade" /\ req[q].pc \notin Ending /\ req[q].op # "deleteServer"
    BY <1>10, <1>1 DEF SetGrants, At, Fits, Unseen, Ending
  <2>4. \A u \in Users : u \in Members => (u \in Members)' \/ Reaches(req[q], u)'
    BY <1>10, <1>1, <2>1 DEF SetGrants, At, serverRows, Members
  <2> QED BY <2>1, <2>2, <2>3, <2>4 DEF Writes
<1>11. ASSUME DropRole(q)
      PROVE  Writes(q, "announce")
  <2>1. Goes(q, "announce") /\ Changed(req'[q])
    BY <1>11, <1>1, GoesIt DEF DropRole, At, Goes, Changed
  <2>2. UNCHANGED <<tabs, server, untold>>
    BY <1>11 DEF DropRole, serverRows, channelRows, history
  <2>3. server # "unmade" /\ req[q].pc \notin Ending /\ req[q].op # "deleteServer"
    BY <1>11, <1>1 DEF DropRole, At, Fits, Unseen, Ending
  <2>4. \A u \in Users : u \in Members => (u \in Members)' \/ Reaches(req[q], u)'
    BY <1>11, <1>1, ServersAssumption, <2>1 DEF DropRole, At, serverRows, IInv, Each, Moving,
       Fits, Typed, Members
  <2> QED BY <2>1, <2>2, <2>3, <2>4 DEF Writes
<1>12. ASSUME SetPositions(q)
      PROVE  Writes(q, "announce")
  <2>1. Goes(q, "announce") /\ Changed(req'[q])
    BY <1>12, <1>1, GoesIt DEF SetPositions, At, Goes, Changed
  <2>2. UNCHANGED <<tabs, server, untold>>
    BY <1>12 DEF SetPositions, serverRows, channelRows, history
  <2>3. server # "unmade" /\ req[q].pc \notin Ending /\ req[q].op # "deleteServer"
    BY <1>12, <1>1 DEF SetPositions, At, Fits, Unseen, Ending
  <2>4. \A u \in Users : u \in Members => (u \in Members)' \/ Reaches(req[q], u)'
    BY <1>12, <1>1, <2>1 DEF SetPositions, At, serverRows, Members
  <2> QED BY <2>1, <2>2, <2>3, <2>4 DEF Writes
<1>13. ASSUME DropChannel(q)
      PROVE  Writes(q, "announce")
  <2>1. Goes(q, "announce") /\ Changed(req'[q])
    BY <1>13, <1>1, GoesIt DEF DropChannel, At, Goes, Changed
  <2>2. UNCHANGED <<tabs, server, untold>>
    BY <1>13 DEF DropChannel, serverRows, channelRows, history
  <2>3. server # "unmade" /\ req[q].pc \notin Ending /\ req[q].op # "deleteServer"
    BY <1>13, <1>1 DEF DropChannel, At, Fits, Unseen, Ending
  <2>4. \A u \in Users : u \in Members => (u \in Members)' \/ Reaches(req[q], u)'
    BY <1>13, <1>1, <2>1 DEF DropChannel, At, serverRows, Members
  <2> QED BY <2>1, <2>2, <2>3, <2>4 DEF Writes
<1> QED BY <1>2, <1>3, <1>4, <1>5, <1>6, <1>7, <1>8, <1>9, <1>10, <1>11, <1>12, <1>13

LEMMA InsertServerInforms ==
  ASSUME Informed, NEW q \in Requests, InsertServer(q)
  PROVE  Tabbed' /\ Unseen' /\ Fresh'
<1>1. /\ Goes(q, "role") /\ req[q].op = "create" /\ req[q].by \in Users
      /\ server = "unmade" /\ server' = "live" /\ rank' = [rank EXCEPT ![req[q].by] = NoRole]
      /\ UNCHANGED tabs
  BY GoesIt DEF Informed, IInv, InsertServer, At, Each, Fits
<1>2. Tabbed' /\ Unseen'
  BY <1>1 DEF Informed, Tabbed, Unseen, tabs
<1>3. ASSUME NEW u \in Tabs
      PROVE  Fine(u)'
  <2>1. u \in Users /\ view'[u] = {} /\ reading'[u] = {}
    BY <1>1, ServersAssumption DEF Informed, Unseen, tabs
  <2>2. CASE u = req[q].by
    BY <1>1, <2>2 DEF Fine, Reaches, Changed, Goes
  <2>3. CASE u # req[q].by
    <3>1. rank'[u] = Absent
      BY <1>1, <2>1, <2>3 DEF Informed, IInv, Typed, Ranks
    <3>2. ~(u \in Members)'
      BY <3>1 DEF Members
    <3>3. Shows(u)'
      BY <2>1, <3>2 DEF Shows
    <3> QED BY <2>1, <3>3 DEF Fine
  <2> QED BY <2>2, <2>3
<1> QED BY <1>2, <1>3 DEF Fresh

LEMMA InsertChannelInforms ==
  ASSUME Informed, NEW q \in Requests, InsertChannel(q)
  PROVE  Tabbed' /\ Unseen' /\ Fresh'
<1>1. /\ Goes(q, IF req[q].op = "create" THEN "tell" ELSE "announce")
      /\ req[q].op \in Creates /\ req[q].pc = "channel" /\ server = "live"
      /\ untold' = (untold \/ (req[q].op = "create" /\ Members # {req[q].by}))
      /\ UNCHANGED <<tabs, server, rank>>
  BY GoesIt DEF Informed, IInv, InsertChannel, Creating, At, Creates, serverRows
<1>2. Members' = Members /\ (untold => untold')
  BY <1>1 DEF Members
<1>3. ASSUME ~untold', NEW u \in Tabs, ~Reaches(req[q], u)'
      PROVE  ~Reaches(req[q], u) /\ u \notin Members
  <2>1. CASE req[q].op = "create"
    BY <1>1, <1>2, <1>3, <2>1 DEF Reaches, Changed, Goes
  <2>2. CASE req[q].op = "createChannel"
    BY <1>1, <1>2, <1>3, <2>2 DEF Reaches, Changed, Goes
  <2> QED BY <1>1, <2>1, <2>2 DEF Creates
<1> QED BY <1>1, <1>2, <1>3, Works DEF Informed, Goes

(* Whom a conversation gets besides its channel's members is in no list.    *)
LEMMA InsertConversationMemberInforms ==
  ASSUME Informed, NEW q \in Requests, InsertConversationMember(q)
  PROVE  Tabbed' /\ Unseen' /\ Fresh'
<1>1. /\ req[q].op = "addToConversation" /\ req[q].pc = "put"
      /\ UNCHANGED <<tabs, shown, server, untold>>
  BY DEF InsertConversationMember, At, serverRows, shown
<1>2. req'[q] = Idle /\ \A p \in Requests \ {q} :
        req'[p] = req[p] \/ req'[p] = [req[p] EXCEPT !.alone = FALSE]
  BY DEF InsertConversationMember, Informed, IInv, Typed
<1>3. \A p \in Requests \ {q} :
        /\ req'[p].pc = req[p].pc /\ req'[p].op = req[p].op
        /\ req'[p].by = req[p].by /\ req'[p].user = req[p].user
  <2>1. \A p \in Requests : DOMAIN req[p] = Fields
    BY DEF Informed, IInv, Typed, Wellformed
  <2> QED BY <1>2, <2>1 DEF Fields
<1>4. Members' = Members /\ \A u \in Tabs : ~Reaches(req[q], u)
  BY <1>1 DEF Members, shown, Reaches, Changed
<1> QED BY <1>1, <1>2, <1>3, <1>4, IdleFields, Works DEF Informed

(* The server is about to go.                                               *)
LEMMA DropConversationsInforms ==
  ASSUME Informed, NEW q \in Requests, DropConversations(q)
  PROVE  Tabbed' /\ Unseen' /\ Fresh'
<1>1. /\ Goes(q, "server") /\ req[q].op = "deleteServer" /\ UNCHANGED <<tabs, server, untold>>
  BY GoesIt DEF Informed, IInv, DropConversations, At, serverRows, history
<1>2. server # "unmade"
  BY <1>1 DEF Informed, IInv, Each, Fits
<1>3. \A u \in Tabs : Reaches(req[q], u)'
  BY <1>1 DEF Goes, Reaches
<1> QED BY <1>1, <1>2, <1>3, Works DEF Informed, Goes

LEMMA DropServerInforms ==
  ASSUME Informed, NEW q \in Requests, DropServer(q)
  PROVE  Tabbed' /\ Unseen' /\ Fresh'
BY DEF Informed, DropServer, Tabbed, Unseen, Fresh, tabs

(* A request that ends: whoever was to hear of it has its list invalidated. *)
LEMMA Ends ==
  ASSUME Informed, NEW q \in Requests, Becomes(q, Idle), UNCHANGED <<shown, server, reading, held>>,
         due \subseteq due', DOMAIN view' = Users, untold => untold',
         server = "unmade" => view' = view,
         server = "live" /\ ~untold' =>
           \A u \in Tabs : u \in due' \/ (~Reaches(req[q], u) /\ view'[u] = view[u])
  PROVE  Tabbed' /\ Unseen' /\ Fresh'
<1>1. req'[q] = Idle /\ \A p \in Requests \ {q} : req'[p] = req[p]
  BY BecomesIt DEF Informed, IInv, Typed
<1>2. Tabbed' /\ Unseen'
  BY <1>1, IdleFields DEF Informed, Tabbed, Unseen
<1>3. Members' = Members /\ look' = look /\ Summary(look)' = Summary(look)
  BY DEF Members, Summary, shown
<1>4. ASSUME server = "live", ~untold', NEW u \in Tabs
      PROVE  Fine(u)'
  <2>1. CASE u \in due'
    BY <2>1 DEF Fine
  <2>2. CASE u \notin due'
    <3>1. ~Reaches(req[q], u) /\ view'[u] = view[u] /\ Fine(u) /\ u \notin due
      BY <1>4, <2>2 DEF Informed, Fresh
    <3>2. ASSUME NEW p \in Requests, Reaches(req[p], u)
          PROVE  Reaches(req[p], u)'
      <4>1. req'[p] = req[p]
        BY <1>1, <3>1, <3>2
      <4> QED BY <1>3, <3>2, <4>1 DEF Reaches, Changed
    <3>3. CASE IF reading[u] = {} THEN Shows(u) ELSE u \in Members /\ reading[u] = {look}
      BY <1>3, <3>1, <3>3 DEF Fine, Shows
    <3> QED BY <3>1, <3>2, <3>3 DEF Fine
  <2> QED BY <2>1, <2>2
<1> QED BY <1>2, <1>4 DEF Fresh

LEMMA AbortInforms ==
  ASSUME Informed, NEW q \in Requests, Abort(q)
  PROVE  Tabbed' /\ Unseen' /\ Fresh'
<1>1. /\ Becomes(q, Idle) /\ untold' /\ UNCHANGED <<shown, server, reading, held>>
  BY DEF Abort, Becomes, serverRows, channelRows, shown
<1>2. due \subseteq due' /\ DOMAIN view' = Users /\ (server = "unmade" => view' = view)
  BY DEF Abort, OnError, Invalidate, Informed, Tabbed, Unseen
<1> QED BY <1>1, <1>2, Ends

LEMMA RejectOrderInforms ==
  ASSUME Informed, NEW q \in Requests, RejectOrder(q)
  PROVE  Tabbed' /\ Unseen' /\ Fresh'
<1>1. /\ Becomes(q, Idle) /\ req[q].op = "reorder" /\ req[q].pc \in {"order", "forbidden"}
      /\ view' = [view EXCEPT ![req[q].by] = req[q].prior]
      /\ due' = due \cup ({req[q].by} \cap Tabs)
      /\ UNCHANGED <<shown, server, untold, reading, held>>
  BY DEF RejectOrder, Rejected, At, Becomes, OnError, Invalidate, serverRows, channelRows,
     history, shown
<1>2. DOMAIN view' = Users /\ (server = "unmade" => view' = view)
  BY <1>1 DEF Informed, Tabbed, Unseen
<1>3. ASSUME NEW u \in Tabs
      PROVE  u \in due' \/ (~Reaches(req[q], u) /\ view'[u] = view[u])
  <2>1. CASE u = req[q].by
    BY <1>1, <2>1
  <2>2. CASE u # req[q].by
    BY <1>1, <2>2, ServersAssumption DEF Informed, Tabbed, Reaches, Changed
  <2> QED BY <2>1, <2>2
<1> QED BY <1>1, <1>2, <1>3, Ends

LEMMA AnnounceInforms ==
  ASSUME Informed, NEW q \in Requests, Announce(q)
  PROVE  Tabbed' /\ Unseen' /\ Fresh'
<1>1. /\ Becomes(q, Idle) /\ req[q].pc = "announce" /\ due \subseteq due'
      /\ UNCHANGED <<view, shown, server, reading, held>> /\ (untold => untold')
  BY DEF Announce, Becomes, Invalidate, serverRows, channelRows, shown
<1>2. ASSUME server = "live", ~untold', NEW u \in Tabs, Reaches(req[q], u)
      PROVE  u \in due'
  <2>1. due' = due \cup (({v \in Users : IsMember(v)}
                           \cup (IF req[q].op = "removeMember" THEN {req[q].user} ELSE {})
                           \cup OnSuccess(q)) \cap Tabs)
    BY <1>2 DEF Announce, Invalidate
  <2>2. u \in Members \/ u = req[q].by \/ (req[q].op = "removeMember" /\ u = req[q].user)
    BY <1>1, <1>2 DEF Reaches
  <2>3. u \in Users
    BY ServersAssumption
  <2> QED BY <1>2, <2>1, <2>2, <2>3 DEF IsMember, OnSuccess
<1> QED BY <1>1, <1>2, Ends DEF Informed, Tabbed

LEMMA TellInforms ==
  ASSUME Informed, NEW q \in Requests, Tell(q)
  PROVE  Tabbed' /\ Unseen' /\ Fresh'
<1>1. /\ Becomes(q, Idle) /\ req[q].pc = "tell"
      /\ due' = due \cup ((req[q].who \cup {req[q].by}) \cap Tabs)
      /\ UNCHANGED <<view, shown, server, untold, reading, held>>
  BY DEF Tell, Becomes, Invalidate, OnSuccess, serverRows, channelRows, history, shown
<1>2. ASSUME NEW u \in Tabs, Reaches(req[q], u)
      PROVE  u \in due'
  BY <1>1, <1>2 DEF Reaches, Changed
<1> QED BY <1>1, <1>2, Ends DEF Informed, Tabbed

(* The tab's own steps.                                                     *)
LEMMA ReorderInforms ==
  ASSUME Informed, NEW q \in Requests, NEW u \in Users, NEW order \in Orders(u),
         ReorderChannels(q, u, order)
  PROVE  Tabbed' /\ Unseen' /\ Fresh'
<1> DEFINE n == [Idle EXCEPT !.pc = IF May(u, "channels") THEN "order" ELSE "forbidden",
                             !.op = "reorder", !.by = u, !.order = order, !.prior = view[u]]
<1>1. n.op = "reorder" /\ n.by = u
  BY DEF Idle
<1>2. req[q].pc = "idle" /\ Becomes(q, n)
  BY DEF ReorderChannels, Begin, Becomes
<1> HIDE DEF n
<1>3. req'[q] = n /\ \A p \in Requests \ {q} : req'[p] = req[p]
  BY <1>2, BecomesIt DEF Informed, IInv, Typed
<1>4. /\ UNCHANGED <<shown, server, untold, due>>
      /\ DOMAIN view' = Users /\ DOMAIN reading' = Users /\ DOMAIN held' = Users
      /\ \A v \in Users \ {u} : view'[v] = view[v] /\ reading'[v] = reading[v]
  BY DEF ReorderChannels, OnMutate, Informed, Tabbed, serverRows, channelRows, history, shown
<1>5. server # "unmade"
  BY DEF Informed, Unseen, Orders
<1>6. \A v \in Tabs : ~Reaches(req[q], v)
  BY <1>2 DEF Informed, IInv, Each, Fits, Reaches, Changed
<1>7. Members' = Members /\ look' = look /\ Summary(look)' = Summary(look)
  BY <1>4 DEF Members, Summary, shown
<1>8. ASSUME server = "live", ~untold, NEW v \in Tabs
      PROVE  Fine(v)'
  <2>1. CASE v = u
    <3>1. Reaches(req[q], v)'
      BY <1>1, <1>3, <2>1 DEF Reaches
    <3> QED BY <3>1 DEF Fine
  <2>2. CASE v # u
    <3>1. v \in Users /\ Fine(v)
      BY <1>8, ServersAssumption DEF Informed, Fresh
    <3>2. ASSUME NEW p \in Requests, Reaches(req[p], v)
          PROVE  Reaches(req[p], v)'
      <4>1. req'[p] = req[p]
        BY <1>3, <1>6, <3>2
      <4> QED BY <1>7, <3>2, <4>1 DEF Reaches, Changed
    <3>3. CASE IF reading[v] = {} THEN Shows(v) ELSE v \in Members /\ reading[v] = {look}
      BY <1>4, <1>7, <2>2, <3>1, <3>3 DEF Fine, Shows
    <3>4. CASE v \in due
      BY <1>4, <3>4 DEF Fine
    <3> QED BY <3>1, <3>2, <3>3, <3>4 DEF Fine
  <2> QED BY <2>1, <2>2
<1> QED BY <1>4, <1>5, <1>8 DEF Tabbed, Unseen, Fresh

(* A tab of user u asks or hears: the lists of the others stay.             *)
LEMMA OwnStep ==
  ASSUME Informed, NEW u \in Users, UNCHANGED <<req, shown, server, untold>>,
         Tabbed', Unseen',
         \A v \in Users \ {u} :
           /\ view'[v] = view[v] /\ reading'[v] = reading[v]
           /\ v \in due => v \in due',
         \/ u \in due'
         \/ IF reading'[u] = {} THEN Shows(u)' ELSE u \in Members /\ reading'[u] = {look}
         \/ u \notin due /\ view'[u] = view[u] /\ reading'[u] = reading[u]
  PROVE  Tabbed' /\ Unseen' /\ Fresh'
<1>1. Members' = Members /\ look' = look /\ Summary(look)' = Summary(look)
  BY DEF Members, Summary, shown
<1>2. ASSUME server = "live", ~untold, NEW v \in Tabs
      PROVE  Fine(v)'
  <2>1. v \in Users /\ Fine(v)
    BY <1>2, ServersAssumption DEF Informed, Fresh
  <2>2. ASSUME NEW p \in Requests, Reaches(req[p], v)
        PROVE  Fine(v)'
    <3>1. Reaches(req[p], v)'
      BY <1>1, <2>2 DEF Reaches, Changed
    <3> QED BY <3>1 DEF Fine
  <2>3. ASSUME view'[v] = view[v], reading'[v] = reading[v],
               IF reading[v] = {} THEN Shows(v) ELSE v \in Members /\ reading[v] = {look}
        PROVE  Fine(v)'
    BY <1>1, <2>3 DEF Fine, Shows
  <2>4. CASE v # u
    <3>1. /\ view'[v] = view[v] /\ reading'[v] = reading[v]
          /\ v \in due => v \in due'
      BY <2>1, <2>4
    <3>2. CASE v \in due
      BY <3>1, <3>2 DEF Fine
    <3>3. CASE IF reading[v] = {} THEN Shows(v) ELSE v \in Members /\ reading[v] = {look}
      BY <2>3, <3>1, <3>3
    <3> QED BY <2>1, <2>2, <3>2, <3>3 DEF Fine
  <2>5. CASE v = u
    <3>1. CASE u \in due'
      BY <2>5, <3>1 DEF Fine
    <3>2. CASE IF reading'[u] = {} THEN Shows(u)' ELSE u \in Members /\ reading'[u] = {look}
      BY <1>1, <2>5, <3>2 DEF Fine
    <3>3. CASE u \notin due /\ view'[u] = view[u] /\ reading'[u] = reading[u]
      BY <2>1, <2>2, <2>3, <2>5, <3>3 DEF Fine
    <3> QED BY <3>1, <3>2, <3>3
  <2> QED BY <2>4, <2>5
<1> QED BY <1>2 DEF Fresh

LEMMA StartListInforms ==
  ASSUME Informed, NEW u \in Users, StartList(u)
  PROVE  Tabbed' /\ Unseen' /\ Fresh'
<1>1. /\ due' = due \ {u} /\ UNCHANGED <<req, shown, server, untold>>
      /\ u \in due
  BY DEF StartList, serverRows, channelRows, history, shown
<1>2. CASE IsMember(u)
  <2>1. /\ u \in Members /\ reading' = [reading EXCEPT ![u] = {look}]
        /\ view' = view /\ held' = held
    BY <1>2 DEF StartList, IsMember
  <2>2. server = "live"
    BY <1>2 DEF IsMember
  <2>3. Tabbed' /\ Unseen'
    BY <1>1, <2>1, <2>2 DEF Informed, Tabbed, Unseen
  <2>4. reading'[u] = {look}
    BY <2>1 DEF Informed, Tabbed
  <2>5. \A v \in Users \ {u} :
          /\ view'[v] = view[v] /\ reading'[v] = reading[v]
          /\ v \in due => v \in due'
    BY <1>1, <2>1 DEF Informed, Tabbed
  <2>6. \/ u \in due'
        \/ IF reading'[u] = {} THEN Shows(u)' ELSE u \in Members /\ reading'[u] = {look}
    BY <2>1, <2>4
  <2> QED BY <1>1, <2>3, <2>5, <2>6, OwnStep
<1>3. CASE ~IsMember(u)
  <2>1. /\ reading' = [reading EXCEPT ![u] = {}]
        /\ view' = [view EXCEPT ![u] = {}] /\ held' = [held EXCEPT ![u] = {}]
    BY <1>3 DEF StartList
  <2>2. /\ view'[u] = {} /\ reading'[u] = {}
        /\ \A v \in Users \ {u} : view'[v] = view[v] /\ reading'[v] = reading[v]
    BY <2>1 DEF Informed, Tabbed
  <2>3. Tabbed' /\ Unseen'
    BY <1>1, <2>1 DEF Informed, Tabbed, Unseen
  <2>4. u \notin Members
    BY <1>3 DEF IsMember, Members, Informed, IInv, Ranks
  <2>5. ~(u \in Members)'
    BY <1>1, <2>4 DEF Members, shown
  <2>6. Shows(u)'
    BY <2>2, <2>5 DEF Shows
  <2> QED BY <1>1, <2>2, <2>3, <2>6, OwnStep
<1> QED BY <1>2, <1>3

LEMMA FinishListInforms ==
  ASSUME Informed, NEW u \in Users, FinishList(u)
  PROVE  Tabbed' /\ Unseen' /\ Fresh'
<1>1. /\ reading[u] # {} /\ reading' = [reading EXCEPT ![u] = {}]
      /\ UNCHANGED <<req, shown, server, untold, held>>
  BY DEF FinishList, serverRows, channelRows, history, shown
<1>2. server # "unmade"
  BY <1>1 DEF Informed, Unseen
<1>3. reading'[u] = {} /\ \A v \in Users \ {u} : reading'[v] = reading[v]
  BY <1>1 DEF Informed, Tabbed
<1>4. CASE ~IsMember(u)
  <2>1. UNCHANGED <<due, view>>
    BY <1>4 DEF FinishList
  <2>2. Tabbed' /\ Unseen'
    BY <1>1, <1>2, <2>1 DEF Informed, Tabbed, Unseen
  <2>3. Members' = Members /\ look' = look /\ Summary(look)' = Summary(look)
    BY <1>1 DEF Members, Summary, shown
  <2>4. ASSUME server = "live", ~untold, NEW v \in Tabs
        PROVE  Fine(v)'
    <3>1. v \in Users /\ Fine(v)
      BY <2>4, ServersAssumption DEF Informed, Fresh
    <3>2. ASSUME NEW p \in Requests, Reaches(req[p], v)
          PROVE  Fine(v)'
      <4>1. Reaches(req[p], v)'
        BY <1>1, <2>3, <3>2 DEF Reaches, Changed
      <4> QED BY <4>1 DEF Fine
    <3>3. CASE v \in due
      BY <2>1, <3>3 DEF Fine
    <3>4. CASE IF reading[v] = {} THEN Shows(v) ELSE v \in Members /\ reading[v] = {look}
      <4>1. v # u
        BY <1>1, <1>4, <2>4, <3>4 DEF IsMember
      <4> QED BY <1>3, <2>1, <2>3, <3>1, <3>4, <4>1 DEF Fine, Shows
    <3> QED BY <3>1, <3>2, <3>3, <3>4 DEF Fine
  <2> QED BY <1>1, <2>2, <2>4 DEF Fresh
<1>5. CASE IsMember(u)
  <2>1. view' = [view EXCEPT ![u] = {Summary(d) : d \in reading[u]}] /\ due' = due
    BY <1>5 DEF FinishList
  <2>2. Tabbed' /\ Unseen'
    BY <1>1, <1>2, <2>1 DEF Informed, Tabbed, Unseen
  <2>3. /\ view'[u] = {Summary(d) : d \in reading[u]}
        /\ \A v \in Users \ {u} : view'[v] = view[v]
    BY <2>1 DEF Informed, Tabbed
  <2>4. Members' = Members /\ look' = look /\ Summary(look)' = Summary(look)
    BY <1>1 DEF Members, Summary, shown
  <2>5. CASE reading[u] = {look}
    <3>1. view'[u] = {Summary(look)}
      BY <2>3, <2>5
    <3>2. Shows(u)'
      BY <1>5, <2>4, <3>1 DEF Shows, IsMember
    <3> QED BY <1>1, <1>3, <2>1, <2>2, <2>3, <3>2, OwnStep
  <2>6. CASE reading[u] # {look}
    <3>1. ASSUME server = "live", ~untold, NEW v \in Tabs
          PROVE  Fine(v)'
      <4>1. v \in Users /\ Fine(v)
        BY <3>1, ServersAssumption DEF Informed, Fresh
      <4>2. ASSUME NEW p \in Requests, Reaches(req[p], v)
            PROVE  Fine(v)'
        <5>1. Reaches(req[p], v)'
          BY <1>1, <2>4, <4>2 DEF Reaches, Changed
        <5> QED BY <5>1 DEF Fine
      <4>3. CASE v \in due
        BY <2>1, <4>3 DEF Fine
      <4>4. CASE IF reading[v] = {} THEN Shows(v) ELSE v \in Members /\ reading[v] = {look}
        <5>1. v # u
          BY <1>1, <1>5, <2>6, <4>4 DEF IsMember
        <5> QED BY <1>3, <2>3, <2>4, <4>1, <4>4, <5>1 DEF Fine, Shows
      <4> QED BY <4>1, <4>2, <4>3, <4>4 DEF Fine
    <3> QED BY <1>1, <2>2, <3>1 DEF Fresh
  <2> QED BY <2>5, <2>6
<1> QED BY <1>4, <1>5

LEMMA DragInforms ==
  ASSUME Informed, NEW u \in Users, Drag(u)
  PROVE  Tabbed' /\ Unseen' /\ Fresh'
<1>1. /\ view[u] # {} /\ DOMAIN held' = Users
      /\ UNCHANGED <<req, shown, server, untold, view, reading, due>>
  BY DEF Drag, serverRows, channelRows, history, shown, Informed, Tabbed
<1>2. server # "unmade"
  BY <1>1 DEF Informed, Unseen
<1>3. Tabbed' /\ Unseen'
  BY <1>1, <1>2 DEF Informed, Tabbed, Unseen
<1> QED BY <1>1, <1>3, OwnStep

-----------------------------------------------------------------------------

LEMMA InitInforms ==
  ASSUME Init
  PROVE  Informed
<1>1. PICK b \in Begun :
        /\ server = b.server /\ rank = b.rank /\ look = {} /\ req = [q \in Requests |-> Idle]
        /\ view = [u \in Users |->
                    IF u \notin Tabs \/ b.rank[u] = Absent THEN {} ELSE {Summary({})}]
        /\ reading = [u \in Users |-> {}] /\ held = [u \in Users |-> {}]
  BY DEF Init
<1>2. Tabbed
  BY <1>1 DEF Tabbed
<1>3. Unseen
  BY <1>1, IdleFields, BegunAssumption DEF Unseen
<1>4. \A u \in Tabs : Fine(u)
  BY <1>1, ServersAssumption DEF Fine, Shows, Members
<1> QED BY <1>2, <1>3, <1>4, InitKeeps DEF Informed, Fresh

LEMMA NextInforms ==
  ASSUME Informed, [Next]_vars
  PROVE  Informed'
<1>1. IInv'
  BY NextKeeps DEF Informed
<1>2. CASE \E q \in Requests, u \in Users : Receive(q, u)
  <2>1. PICK q \in Requests, u \in Users : Receive(q, u)
    BY <1>2
  <2>2. CASE \E order \in Orders(u) : ReorderChannels(q, u, order)
    BY <1>1, <2>2, ReorderInforms DEF Informed
  <2>3. CASE ~\E order \in Orders(u) : ReorderChannels(q, u, order)
    <3>1. Begins(q)
      BY <2>1, <2>3, ReceiveBegins DEF Informed, IInv
    <3> QED BY <1>1, <3>1, BeginsInforms DEF Informed
  <2> QED BY <2>2, <2>3
<1>3. ASSUME NEW q \in Requests, Statement(q)
      PROVE  Tabbed' /\ Unseen' /\ Fresh'
  <2>1. ASSUME \/ CreateDefaultRole(q) \/ UpdateName(q) \/ UpsertImage(q) \/ DeleteImage(q)
               \/ InsertMember(q) \/ DeleteMember(q) \/ SetRole(q) \/ InsertRole(q)
               \/ SetGrants(q) \/ DropRole(q) \/ SetPositions(q) \/ DropChannel(q)
        PROVE  Tabbed' /\ Unseen' /\ Fresh'
    <3>1. IInv /\ Unseen
      BY DEF Informed
    <3>2. \/ Writes(q, "members") \/ Writes(q, "get") \/ Writes(q, "list")
          \/ Writes(q, "announce")
      BY <2>1, <3>1, StatementsWrite
    <3> QED BY <3>2, WritesInforms
  <2>2. ASSUME \/ Get(q) \/ ListChannels(q) \/ MemberAdded(q) \/ MoveMembers(q)
               \/ ListMemberIDs(q) \/ CreateWithMembers(q) \/ ReadPosition(q) \/ ListEveryone(q)
               \/ \E c \in Channels : AddToChannel(q, c) \/ RemoveFromChannel(q, c)
        PROVE  Tabbed' /\ Unseen' /\ Fresh'
    <3>1. \E pc \in PCs : Passes(q, pc)
      BY <2>2, ReadsPass DEF Informed, IInv, PCs
    <3> QED BY <3>1, PassesInforms
  <2>3. Missing(q) => Tabbed' /\ Unseen' /\ Fresh'
    BY AbortInforms DEF Missing
  <2> QED BY <1>3, <2>1, <2>2, <2>3, InsertServerInforms, InsertChannelInforms,
             InsertConversationMemberInforms, DropConversationsInforms, DropServerInforms,
             RejectOrderInforms DEF Statement
<1>4. CASE \E q \in Requests : Statement(q) \/ Announce(q) \/ Tell(q) \/ Fail(q)
  <2>1. \A q \in Requests : Fail(q) => Abort(q)
    BY DEF Fail
  <2> QED BY <1>1, <1>3, <1>4, <2>1, AnnounceInforms, TellInforms, AbortInforms DEF Informed
<1>5. CASE \E u \in Users : StartList(u) \/ FinishList(u) \/ Drag(u)
  BY <1>1, <1>5, StartListInforms, FinishListInforms, DragInforms DEF Informed
<1>6. CASE UNCHANGED vars
  <2>1. UNCHANGED <<req, shown, server, untold, view, reading, due, held>>
    BY <1>6 DEF vars, serverRows, channelRows, history, tabs, shown
  <2>2. Members' = Members /\ look' = look /\ Summary(look)' = Summary(look)
    BY <2>1 DEF Members, Summary, shown
  <2>3. \A u \in Tabs : Fine(u) => Fine(u)'
    BY <2>1, <2>2 DEF Fine, Shows, Reaches, Changed
  <2> QED BY <1>1, <2>1, <2>3 DEF Informed, Tabbed, Unseen, Fresh
<1> QED BY <1>2, <1>4, <1>5, <1>6 DEF Next

(* For any number of users, tabs, requests, roles and channels: once every  *)
(* request has run to its end without breaking off and every tab has        *)
(* fetched what it was told to, the list in each tab shows the server with  *)
(* the members, roles, permissions, channels and places that it has, and    *)
(* the tabs of those who are no members do not show it.                     *)
THEOREM ListsConverge == Spec => []ViewsConverge
<1>1. Informed => ViewsConverge
  <2>1. ASSUME Informed, server = "live", ~untold, due = {}, NEW u \in Tabs,
               \A q \in Requests : req[q].pc = "idle", \A v \in Users : reading[v] = {}
        PROVE  view[u] = IF u \in Members THEN {Summary(look)} ELSE {}
    <3>1. \A q \in Requests : ~Reaches(req[q], u)
      BY <2>1 DEF Informed, IInv, Each, Fits, Reaches, Changed
    <3>2. u \in Users /\ Fine(u)
      BY <2>1, ServersAssumption DEF Informed, Fresh
    <3> QED BY <2>1, <3>1, <3>2 DEF Fine, Shows
  <2> QED BY <2>1 DEF ViewsConverge
<1> QED BY <1>1, InitInforms, NextInforms, PTL DEF Spec

-----------------------------------------------------------------------------
(* What each variable holds                                                 *)

(* A server as a list shows it has channels that exist or existed.          *)
Listing(s) == "places" \in DOMAIN s /\ DOMAIN s.places \subseteq Channels

Shaped(r) ==
  /\ r.pc \in PCs /\ r.op \in Ops /\ r.by \in Users \cup {NoUser} /\ r.at \in Nat
  /\ r.op = "image" => r.input \subseteq Decor
  /\ r.op \in {"createRole", "updateRole"} => r.input \in RoleInputs
  /\ r.op = "reorder" =>
       (\A c \in DOMAIN r.order : r.order[c] \in Nat) /\ \A s \in r.prior : Listing(s)

Shapes == \A q \in Requests : Shaped(req[q])

Stored ==
  /\ grants \in [Roles -> RoleInputs] /\ look \subseteq Decor
  /\ used \subseteq Roles \cup Channels /\ position \in [Channels -> Nat]

Listed ==
  /\ due \subseteq Users
  /\ \A u \in Users :
       /\ reading[u] \subseteq SUBSET Decor /\ held[u] \subseteq SUBSET Channels
       /\ \A s \in view[u] : Listing(s)

Counted == served \in 0..MaxRequests /\ faults \in 0..MaxFaults

Shape == Informed /\ Shapes /\ Stored /\ Listed /\ Counted

(* One of the channels is the last.                                         *)
LEMMA LastChannel ==
  ASSUME Stored, channels \subseteq Channels, channels # {}
  PROVE  \E c \in channels : \A d \in channels : position[d] <= position[c]
<1> DEFINE after(c) == {d \in channels : position[c] < position[d]}
           T == {after(c) : c \in channels}
<1>1. IsFiniteSet(channels) /\ \A c \in channels : position[c] \in Nat
  BY ServersAssumption, FS_Subset DEF Stored
<1>2. \A c \in channels : after(c) \in FiniteSubsetsOf(channels)
  BY <1>1, FS_Subset DEF FiniteSubsetsOf
<1>3. \A c, d \in channels : position[c] < position[d] => after(d) \subseteq after(c)
  BY <1>1
<1>4. \A c, d \in channels : d \in after(c) <=> position[c] < position[d]
  OBVIOUS
<1> HIDE DEF after
<1>5. T \subseteq FiniteSubsetsOf(channels) /\ T # {}
  BY <1>2
<1>6. \E x \in T : \A y \in T : <<y, x>> \notin StrictSubsetOrdering(channels)
  <2> HIDE DEF T
  <2>1. IsWellFoundedOn(StrictSubsetOrdering(channels), FiniteSubsetsOf(channels))
    BY FS_StrictSubsetOrderingWellFounded
  <2> QED BY <1>5, <2>1, WFMin
<1>7. PICK c \in channels :
        \A d \in channels : <<after(d), after(c)>> \notin StrictSubsetOrdering(channels)
  BY <1>6
<1>8. ASSUME NEW d \in channels PROVE position[d] <= position[c]
  <2> SUFFICES ASSUME position[c] < position[d] PROVE FALSE
    BY <1>1
  <2>1. after(d) \subseteq after(c) /\ d \in after(c) /\ d \notin after(d)
    BY <1>1, <1>3, <1>4
  <2>2. after(c) \in SUBSET channels /\ after(d) \in SUBSET channels
    BY <1>2 DEF FiniteSubsetsOf
  <2>3. <<after(d), after(c)>> \in StrictSubsetOrdering(channels)
    BY <2>1, <2>2 DEF StrictSubsetOrdering
  <2> QED BY <1>7, <2>3
<1> QED BY <1>8

LEMMA EndOfListIs ==
  ASSUME Stored, channels \subseteq Channels
  PROVE  EndOfList \in Nat
<1> DEFINE ends == {0} \cup {position[c] + 1 : c \in channels}
<1>1. ends \subseteq Nat
  BY DEF Stored
<1>2. EndOfList = CHOOSE n \in ends : \A m \in ends : m <= n
  BY DEF EndOfList
<1>3. \E n \in ends : \A m \in ends : m <= n
  <2>1. CASE channels = {}
    <3>1. ends = {0}
      BY <2>1
    <3> QED BY <3>1
  <2>2. CASE channels # {}
    <3>1. PICK c \in channels : \A d \in channels : position[d] <= position[c]
      BY <2>2, LastChannel
    <3>2. \A d \in channels : position[d] \in Nat
      BY DEF Stored
    <3>3. position[c] + 1 \in ends /\ \A m \in ends : m <= position[c] + 1
      BY <3>1, <3>2
    <3> QED BY <3>3
  <2> QED BY <2>1, <2>2
<1> HIDE DEF ends
<1> QED BY <1>1, <1>2, <1>3

(* How a request's record goes on.                                          *)
LEMMA BeginShapes ==
  ASSUME Typed, Shapes, NEW q \in Requests, NEW r, Shaped(r), Begin(q, r)
  PROVE  Shapes'
<1>1. DOMAIN req' = Requests /\ req'[q] = r /\ \A p \in Requests \ {q} : req'[p] = req[p]
  BY BecomesIt DEF Typed, Begin, Becomes
<1> QED BY <1>1 DEF Shapes

(* Request q goes on to label pc, and no more changes that Shaped is about. *)
Follows(q, pc) ==
  /\ \A p \in Requests \ {q} : req'[p] = req[p]
  /\ req'[q].pc = pc /\ req'[q].op = req[q].op /\ req'[q].by = req[q].by
  /\ req'[q].input = req[q].input /\ req'[q].order = req[q].order
  /\ req'[q].prior = req[q].prior /\ req'[q].at \in Nat

LEMMA FollowsShapes ==
  ASSUME Shapes, NEW q \in Requests, NEW pc \in PCs, Follows(q, pc)
  PROVE  Shapes'
BY DEF Shapes, Shaped, Follows

LEMMA GotoShapes ==
  ASSUME Typed, Shapes, NEW q \in Requests, NEW pc \in PCs, Goto(q, pc)
  PROVE  Shapes'
<1>1. Follows(q, pc)
  BY DEF Typed, Goto, Follows, Wellformed, Fields, Shapes, Shaped
<1> QED BY <1>1, FollowsShapes

LEMMA EndShapes ==
  ASSUME Typed, Shapes, NEW q \in Requests, Becomes(q, Idle)
  PROVE  Shapes'
<1>1. DOMAIN req' = Requests /\ req'[q] = Idle /\ \A p \in Requests \ {q} : req'[p] = req[p]
  BY BecomesIt DEF Typed
<1>2. Shaped(Idle)
  BY DEF Shaped, Idle, PCs, Ops
<1> QED BY <1>1, <1>2 DEF Shapes

(* Requests that only take away from the others that nobody disturbs them.  *)
LEMMA DisturbShapes ==
  ASSUME Typed, Shapes, NEW q \in Requests, NEW r, Shaped(r), NEW others \in SUBSET Requests,
         req' = [p \in Requests |-> IF p = q THEN r
                                    ELSE IF p \in others THEN [req[p] EXCEPT !.alone = FALSE]
                                    ELSE req[p]]
  PROVE  Shapes'
<1>1. \A p \in Requests : DOMAIN req[p] = Fields /\ Shaped(req[p])
  BY DEF Typed, Wellformed, Shapes
<1>2. ASSUME NEW p \in Requests
      PROVE  Shaped(req'[p])
  <2>1. CASE p = q
    BY <2>1
  <2>2. CASE p # q /\ p \in others
    <3>1. req'[p] = [req[p] EXCEPT !.alone = FALSE]
      BY <2>2
    <3> QED BY <1>1, <3>1 DEF Shaped, Fields
  <2>3. CASE p # q /\ p \notin others
    BY <1>1, <2>3
  <2> QED BY <2>1, <2>2, <2>3
<1> QED BY <1>2 DEF Shapes

LEMMA PlaceShapes ==
  ASSUME Typed, Shapes, NEW q \in Requests, NEW r, Shaped(r), Wellformed(r),
         r.op \in Moves, BeginMembership(q, r)
  PROVE  Shapes'
<1> DEFINE n == [r EXCEPT !.alone = About(r.user) = {} /\ Making = {}]
<1>1. Shaped(n)
  BY DEF Shaped, Wellformed, Fields
<1>2. req' = [p \in Requests |->
                IF p = q THEN n
                ELSE IF p \in About(r.user) THEN [req[p] EXCEPT !.alone = FALSE]
                ELSE req[p]]
  BY DEF BeginMembership
<1> HIDE DEF n
<1>3. About(r.user) \subseteq Requests
  BY DEF About, Active
<1> QED BY <1>1, <1>2, <1>3, DisturbShapes

LEMMA ReceiveShapes ==
  ASSUME Typed, Shapes, Listed, NEW q \in Requests, NEW u \in Users, Receive(q, u)
  PROVE  Shapes'
<1>1. ASSUME Create(q, u)
      PROVE  Shapes'
  <2>1. Shaped([Idle EXCEPT !.pc = "server", !.op = "create", !.by = u, !.channel = General])
    BY DEF Shaped, Idle, PCs, Ops
  <2> QED BY <1>1, <2>1, BeginShapes DEF Create
<1>2. ASSUME Update(q, u)
      PROVE  Shapes'
  <2>1. Shaped([Idle EXCEPT !.pc = "name", !.op = "update", !.by = u])
    BY DEF Shaped, Idle, PCs, Ops
  <2> QED BY <1>2, <2>1, BeginShapes DEF Update
<1>3. ASSUME CreateChannel(q, u)
      PROVE  Shapes'
  <2> DEFINE n == [Idle EXCEPT !.pc = "members", !.op = "createChannel", !.by = u]
             others == {p \in Requests : req[p].op \in {"addMember", "removeMember"}}
  <2>1. Shaped(n)
    BY DEF Shaped, Idle, PCs, Ops
  <2> HIDE DEF n
  <2>2. req' = [p \in Requests |-> IF p = q THEN n
                                   ELSE IF p \in others THEN [req[p] EXCEPT !.alone = FALSE]
                                   ELSE req[p]]
    BY <1>3 DEF CreateChannel, n
  <2> HIDE DEF others
  <2>3. others \in SUBSET Requests
    BY DEF others
  <2> QED BY <2>1, <2>2, <2>3, DisturbShapes
<1>4. ASSUME DeleteServer(q, u)
      PROVE  Shapes'
  <2>1. Shaped([Idle EXCEPT !.pc = "list", !.op = "deleteServer", !.by = u])
    BY DEF Shaped, Idle, PCs, Ops
  <2> QED BY <1>4, <2>1, BeginShapes DEF DeleteServer
<1>5. ASSUME NEW image \in {"icon", "banner"},
             UploadServerImage(q, u, image) \/ DeleteServerImage(q, u, image)
      PROVE  Shapes'
  <2>1. ASSUME NEW pc \in {"upload", "remove"}
        PROVE  Shaped([Idle EXCEPT !.pc = pc, !.op = "image", !.by = u, !.input = {image}])
    BY DEF Shaped, Idle, PCs, Ops, Decor
  <2> QED BY <1>5, <2>1, BeginShapes DEF UploadServerImage, DeleteServerImage
<1>6. ASSUME NEW m \in Users, AddMember(q, u, m)
      PROVE  Shapes'
  <2> DEFINE n == [Idle EXCEPT !.pc = "insert", !.op = "addMember", !.by = u, !.user = m]
  <2>1. Shaped(n) /\ n.op \in Moves /\ Wellformed(n)
    BY DEF Shaped, Idle, PCs, Ops, Moves, Wellformed, Fields
  <2>2. BeginMembership(q, n)
    BY <1>6 DEF AddMember
  <2> HIDE DEF n
  <2> QED BY <2>1, <2>2, PlaceShapes
<1>7. ASSUME NEW m \in Users, RemoveMember(q, u, m)
      PROVE  Shapes'
  <2> DEFINE n == [Idle EXCEPT !.pc = "list", !.op = "removeMember", !.by = u, !.user = m]
  <2>1. Shaped(n) /\ n.op \in Moves /\ Wellformed(n)
    BY DEF Shaped, Idle, PCs, Ops, Moves, Wellformed, Fields
  <2>2. BeginMembership(q, n)
    BY <1>7 DEF RemoveMember
  <2> HIDE DEF n
  <2> QED BY <2>1, <2>2, PlaceShapes
<1>8. ASSUME NEW m \in Users, NEW r \in Roles, AssignRole(q, u, m, r)
      PROVE  Shapes'
  <2>1. Shaped([Idle EXCEPT !.pc = "assign", !.op = "assignRole", !.by = u, !.user = m, !.role = r])
    BY DEF Shaped, Idle, PCs, Ops
  <2> QED BY <1>8, <2>1, BeginShapes DEF AssignRole
<1>9. ASSUME NEW input \in RoleInputs, CreateRole(q, u, input)
      PROVE  Shapes'
  <2>1. Shaped([Idle EXCEPT !.pc = "make", !.op = "createRole", !.by = u, !.input = input])
    BY DEF Shaped, Idle, PCs, Ops
  <2> QED BY <1>9, <2>1, BeginShapes DEF CreateRole
<1>10. ASSUME NEW r \in Roles, NEW input \in RoleInputs, UpdateRole(q, u, r, input)
       PROVE  Shapes'
  <2>1. Shaped([Idle EXCEPT !.pc = "edit", !.op = "updateRole", !.by = u, !.role = r,
                            !.input = input])
    BY DEF Shaped, Idle, PCs, Ops
  <2> QED BY <1>10, <2>1, BeginShapes DEF UpdateRole
<1>11. ASSUME NEW r \in Roles, DeleteRole(q, u, r)
       PROVE  Shapes'
  <2>1. Shaped([Idle EXCEPT !.pc = "move", !.op = "deleteRole", !.by = u, !.role = r])
    BY DEF Shaped, Idle, PCs, Ops
  <2> QED BY <1>11, <2>1, BeginShapes DEF DeleteRole
<1>12. ASSUME NEW c \in Channels, DeleteChannel(q, u, c)
       PROVE  Shapes'
  <2>1. Shaped([Idle EXCEPT !.pc = "drop", !.op = "deleteChannel", !.by = u, !.channel = c])
    BY DEF Shaped, Idle, PCs, Ops
  <2> QED BY <1>12, <2>1, BeginShapes DEF DeleteChannel
<1>13. ASSUME NEW order \in Orders(u), ReorderChannels(q, u, order)
       PROVE  Shapes'
  <2>1. \A c \in DOMAIN order : order[c] \in Nat
    <3>1. PICK kept \in held[u] : order \in [kept -> 0..Cardinality(kept) - 1]
      BY DEF Orders
    <3>2. Cardinality(kept) \in Nat
      BY ServersAssumption, FS_Subset, FS_CardinalityType DEF Listed
    <3> QED BY <3>1, <3>2
  <2>2. \A s \in view[u] : Listing(s)
    BY DEF Listed
  <2>3. ASSUME NEW pc \in {"order", "forbidden"}
        PROVE  Shaped([Idle EXCEPT !.pc = pc, !.op = "reorder", !.by = u, !.order = order,
                                   !.prior = view[u]])
    BY <2>1, <2>2 DEF Shaped, Idle, PCs, Ops
  <2> QED BY <1>13, <2>3, BeginShapes DEF ReorderChannels
<1>14. ASSUME NEW c \in Channels, NEW m \in Users, AddToConversation(q, u, c, m)
       PROVE  Shapes'
  <2>1. Shaped([Idle EXCEPT !.pc = "put", !.op = "addToConversation", !.by = u,
                            !.user = m, !.channel = c])
    BY DEF Shaped, Idle, PCs, Ops
  <2> QED BY <1>14, <2>1, BeginShapes DEF AddToConversation
<1> QED BY <1>1, <1>2, <1>3, <1>4, <1>5, <1>6, <1>7, <1>8, <1>9, <1>10, <1>11, <1>12, <1>13,
           <1>14 DEF Receive

LEMMA StatementShapes ==
  ASSUME Typed, Shapes, Stored, NEW q \in Requests, Statement(q)
  PROVE  Shapes'
<1>1. DOMAIN req = Requests /\ \A p \in Requests : DOMAIN req[p] = Fields /\ req[p].at \in Nat
  BY DEF Typed, Wellformed, Shapes, Shaped
<1>2. CASE \E pc \in PCs : Goto(q, pc)
  BY <1>2, GotoShapes
<1>3. CASE ListChannels(q)
  <2>1. req' = [req EXCEPT ![q].todo = channels, ![q].pc = "each"]
    BY <1>3 DEF ListChannels
  <2>2. Follows(q, "each")
    BY <1>1, <2>1 DEF Follows, Fields
  <2> QED BY <2>2, FollowsShapes DEF PCs
<1>4. ASSUME NEW c \in Channels, AddToChannel(q, c) \/ RemoveFromChannel(q, c)
      PROVE  Shapes'
  <2>1. req[q].pc = "each" /\ req' = [req EXCEPT ![q].todo = @ \ {c}]
    BY <1>4 DEF AddToChannel, RemoveFromChannel, At
  <2>2. Follows(q, "each")
    BY <1>1, <2>1 DEF Follows, Fields
  <2> QED BY <2>2, FollowsShapes DEF PCs
<1>5. CASE MoveMembers(q)
  <2>1. req' = [req EXCEPT ![q].who = {u \in Members : rank[u] = req[q].role}, ![q].pc = "commit"]
    BY <1>5 DEF MoveMembers
  <2>2. Follows(q, "commit")
    BY <1>1, <2>1 DEF Follows, Fields
  <2> QED BY <2>2, FollowsShapes DEF PCs
<1>6. CASE ListMemberIDs(q)
  <2>1. req' = [req EXCEPT ![q].who = Members, ![q].pc = "conversation"]
    BY <1>6 DEF ListMemberIDs
  <2>2. Follows(q, "conversation")
    BY <1>1, <2>1 DEF Follows, Fields
  <2> QED BY <2>2, FollowsShapes DEF PCs
<1>7. CASE CreateWithMembers(q)
  <2>1. PICK c \in Channels \ used :
          req' = [req EXCEPT ![q].channel = c, ![q].pc = "position"]
    BY <1>7 DEF CreateWithMembers
  <2>2. Follows(q, "position")
    BY <1>1, <2>1 DEF Follows, Fields
  <2> QED BY <2>2, FollowsShapes DEF PCs
<1>8. CASE ReadPosition(q)
  <2>1. EndOfList \in Nat
    BY EndOfListIs DEF Typed
  <2>2. req' = [req EXCEPT ![q].at = EndOfList, ![q].pc = "channel"]
    BY <1>8 DEF ReadPosition
  <2>3. Follows(q, "channel")
    BY <1>1, <2>1, <2>2 DEF Follows, Fields
  <2> QED BY <2>3, FollowsShapes DEF PCs
<1>9. CASE ListEveryone(q)
  <2>1. req' = [req EXCEPT ![q].who = Members, ![q].pc = "conversations"]
    BY <1>9 DEF ListEveryone
  <2>2. Follows(q, "conversations")
    BY <1>1, <2>1 DEF Follows, Fields
  <2> QED BY <2>2, FollowsShapes DEF PCs
<1>10. CASE RejectOrder(q) \/ Missing(q)
  <2>1. Becomes(q, Idle)
    BY <1>10 DEF RejectOrder, Missing, Abort, Becomes
  <2> QED BY <2>1, EndShapes
<1>11. CASE \/ InsertServer(q) \/ CreateDefaultRole(q) \/ UpdateName(q) \/ Get(q)
            \/ UpsertImage(q) \/ DeleteImage(q) \/ InsertMember(q) \/ MemberAdded(q)
            \/ DeleteMember(q) \/ SetRole(q) \/ InsertRole(q) \/ SetGrants(q) \/ DropRole(q)
            \/ InsertChannel(q) \/ SetPositions(q) \/ DropChannel(q) \/ DropConversations(q)
            \/ DropServer(q)
  <2>1. \/ Goto(q, "role") \/ Goto(q, "members") \/ Goto(q, "get") \/ Goto(q, "announce")
        \/ Goto(q, "list") \/ Goto(q, "server") \/ Goto(q, "tell")
        \/ Goto(q, IF req[q].op = "create" THEN "tell" ELSE "announce")
    BY <1>11 DEF InsertServer, CreateDefaultRole, UpdateName, Get, UpsertImage, DeleteImage,
       InsertMember, MemberAdded, DeleteMember, SetRole, InsertRole, SetGrants, DropRole,
       InsertChannel, SetPositions, DropChannel, DropConversations, DropServer
  <2>2. {"role", "members", "get", "announce", "list", "server", "tell"} \subseteq PCs
    BY DEF PCs
  <2> QED BY <1>2, <2>1, <2>2
<1>12. CASE InsertConversationMember(q)
  <2>1. CASE req[q].channel \notin convs
    <3>1. Becomes(q, Idle)
      BY <1>12, <2>1 DEF InsertConversationMember, Becomes
    <3> QED BY <3>1, EndShapes
  <2>2. CASE req[q].channel \in convs
    <3> DEFINE others == {p \in Requests : req[p].op = "removeMember" /\ req[p].user = req[q].user}
    <3>1. req' = [p \in Requests |-> IF p = q THEN Idle
                                     ELSE IF p \in others THEN [req[p] EXCEPT !.alone = FALSE]
                                     ELSE req[p]]
      BY <1>12, <2>2 DEF InsertConversationMember
    <3>2. others \in SUBSET Requests /\ Shaped(Idle)
      BY DEF Shaped, Idle, PCs, Ops
    <3> HIDE DEF others
    <3> QED BY <3>1, <3>2, DisturbShapes
  <2> QED BY <2>1, <2>2
<1> QED BY <1>3, <1>4, <1>5, <1>6, <1>7, <1>8, <1>9, <1>10, <1>11, <1>12 DEF Statement

LEMMA NextShapes ==
  ASSUME Typed, Shapes, Stored, Listed, [Next]_vars
  PROVE  Shapes'
<1>1. CASE \E q \in Requests, u \in Users : Receive(q, u)
  BY <1>1, ReceiveShapes
<1>2. ASSUME NEW q \in Requests, Statement(q)
      PROVE  Shapes'
  BY <1>2, StatementShapes
<1>3. ASSUME NEW q \in Requests, Announce(q) \/ Tell(q) \/ Fail(q)
      PROVE  Shapes'
  <2>1. Becomes(q, Idle)
    BY <1>3 DEF Announce, Tell, Fail, Abort, Becomes
  <2> QED BY <2>1, EndShapes
<1>4. CASE UNCHANGED req
  BY <1>4 DEF Shapes, Shaped
<1>5. CASE \E u \in Users : StartList(u) \/ FinishList(u) \/ Drag(u)
  BY <1>4, <1>5 DEF StartList, FinishList, Drag
<1>6. CASE UNCHANGED vars
  BY <1>4, <1>6 DEF vars
<1> QED BY <1>1, <1>2, <1>3, <1>5, <1>6 DEF Next

-----------------------------------------------------------------------------
(* What is stored, what the tabs hold and what is counted                   *)

(* Every step begins a request, runs a query that fails, or does neither.   *)
LEMMA NextCounts ==
  ASSUME Counted, [Next]_vars
  PROVE  Counted'
<1>1. \/ UNCHANGED served
      \/ served < MaxRequests /\ served' = served + 1
  <2>1. ASSUME NEW q \in Requests, NEW u \in Users, Receive(q, u)
        PROVE  served < MaxRequests /\ served' = served + 1
    BY <2>1 DEF Receive, Create, Update, CreateChannel, DeleteServer, UploadServerImage,
       DeleteServerImage, AddMember, RemoveMember, AddToConversation,
       AssignRole, CreateRole, UpdateRole,
       DeleteRole, DeleteChannel, ReorderChannels, Begin, BeginMembership
  <2>2. ASSUME NEW q \in Requests, Statement(q)
        PROVE  UNCHANGED served
    BY <2>2 DEF Statement, InsertServer, CreateDefaultRole, UpdateName, Get, UpsertImage,
       DeleteImage, InsertMember, ListChannels, MemberAdded, InsertConversationMember,
       DeleteMember, SetRole, InsertRole,
       SetGrants, MoveMembers, DropRole, ListMemberIDs, CreateWithMembers, ReadPosition,
       InsertChannel, SetPositions, RejectOrder, DropChannel, ListEveryone, DropConversations,
       DropServer, Missing, Abort, AddToChannel, RemoveFromChannel
  <2>3. ASSUME NEW q \in Requests, Announce(q) \/ Tell(q) \/ Fail(q)
        PROVE  UNCHANGED served
    BY <2>3 DEF Announce, Tell, Fail, Abort
  <2>4. ASSUME NEW u \in Users, StartList(u) \/ FinishList(u) \/ Drag(u)
        PROVE  UNCHANGED served
    BY <2>4 DEF StartList, FinishList, Drag
  <2> QED BY <2>1, <2>2, <2>3, <2>4 DEF Next, vars
<1>2. \/ UNCHANGED faults
      \/ faults < MaxFaults /\ faults' = faults + 1
  <2>1. ASSUME NEW q \in Requests, NEW u \in Users, Receive(q, u)
        PROVE  UNCHANGED faults
    BY <2>1 DEF Receive, Create, Update, CreateChannel, DeleteServer, UploadServerImage,
       DeleteServerImage, AddMember, RemoveMember, AddToConversation,
       AssignRole, CreateRole, UpdateRole,
       DeleteRole, DeleteChannel, ReorderChannels
  <2>2. ASSUME NEW q \in Requests, Statement(q)
        PROVE  UNCHANGED faults
    BY <2>2 DEF Statement, InsertServer, CreateDefaultRole, UpdateName, Get, UpsertImage,
       DeleteImage, InsertMember, ListChannels, MemberAdded, InsertConversationMember,
       DeleteMember, SetRole, InsertRole,
       SetGrants, MoveMembers, DropRole, ListMemberIDs, CreateWithMembers, ReadPosition,
       InsertChannel, SetPositions, RejectOrder, DropChannel, ListEveryone, DropConversations,
       DropServer, Missing, AddToChannel, RemoveFromChannel
  <2>3. ASSUME NEW q \in Requests, Announce(q) \/ Tell(q) \/ Fail(q)
        PROVE  UNCHANGED faults \/ (faults < MaxFaults /\ faults' = faults + 1)
    BY <2>3 DEF Announce, Tell, Fail
  <2>4. ASSUME NEW u \in Users, StartList(u) \/ FinishList(u) \/ Drag(u)
        PROVE  UNCHANGED faults
    BY <2>4 DEF StartList, FinishList, Drag
  <2> QED BY <2>1, <2>2, <2>3, <2>4 DEF Next, vars
<1> QED BY <1>1, <1>2, ServersAssumption DEF Counted

LEMMA StatementStores ==
  ASSUME Typed, Shapes, Stored, NEW q \in Requests, Statement(q)
  PROVE  Stored'
<1>1. Shaped(req[q])
  BY DEF Shapes
<1>2. CASE UNCHANGED <<grants, look, used, position>>
  BY <1>2 DEF Stored
<1>3. CASE CreateDefaultRole(q)
  BY <1>3, ServersAssumption DEF CreateDefaultRole, Stored, channelRows
<1>4. CASE UpdateName(q)
  BY <1>4 DEF UpdateName, Stored, channelRows, Decor
<1>5. CASE UpsertImage(q) \/ DeleteImage(q)
  BY <1>1, <1>5 DEF UpsertImage, DeleteImage, At, Shaped, Stored, channelRows
<1>6. CASE InsertRole(q)
  <2>1. PICK r \in Roles : grants' = [grants EXCEPT ![r] = req[q].input] /\ used' = used \cup {r}
    BY <1>6 DEF InsertRole
  <2>2. req[q].input \in RoleInputs
    BY <1>1, <1>6 DEF InsertRole, At, Shaped
  <2> QED BY <1>6, <2>1, <2>2 DEF InsertRole, Stored, channelRows
<1>7. CASE SetGrants(q)
  <2>1. req[q].input \in RoleInputs
    BY <1>1, <1>7 DEF SetGrants, At, Shaped
  <2> QED BY <1>7, <2>1 DEF SetGrants, Stored, channelRows
<1>8. CASE CreateWithMembers(q)
  BY <1>8 DEF CreateWithMembers, Stored, serverRows
<1>9. CASE InsertChannel(q)
  BY <1>1, <1>9 DEF InsertChannel, Shaped, Stored, serverRows
<1>10. CASE SetPositions(q)
  <2>1. \A c \in DOMAIN req[q].order : req[q].order[c] \in Nat
    BY <1>1, <1>10 DEF SetPositions, At, Shaped
  <2> QED BY <1>10, <2>1 DEF SetPositions, Stored, serverRows
<1>11. CASE DropServer(q)
  BY <1>11 DEF DropServer, Stored
<1>12. CASE \/ InsertServer(q) \/ Get(q) \/ InsertMember(q) \/ ListChannels(q) \/ MemberAdded(q)
            \/ InsertConversationMember(q) \/ DeleteMember(q) \/ SetRole(q) \/ MoveMembers(q)
            \/ DropRole(q)
            \/ ListMemberIDs(q) \/ ReadPosition(q) \/ RejectOrder(q) \/ DropChannel(q)
            \/ ListEveryone(q) \/ DropConversations(q) \/ Missing(q)
            \/ \E c \in Channels : AddToChannel(q, c) \/ RemoveFromChannel(q, c)
  BY <1>2, <1>12 DEF InsertServer, Get, InsertMember, ListChannels, MemberAdded,
     InsertConversationMember, DeleteMember, SetRole, MoveMembers, DropRole, ListMemberIDs,
     ReadPosition, RejectOrder, DropChannel,
     ListEveryone, DropConversations, Missing, Abort, AddToChannel, RemoveFromChannel,
     serverRows, channelRows
<1> QED BY <1>3, <1>4, <1>5, <1>6, <1>7, <1>8, <1>9, <1>10, <1>11, <1>12 DEF Statement

LEMMA NextStores ==
  ASSUME Typed, Shapes, Stored, [Next]_vars
  PROVE  Stored'
<1>1. CASE UNCHANGED <<grants, look, used, position>>
  BY <1>1 DEF Stored
<1>2. ASSUME NEW q \in Requests, NEW u \in Users, Receive(q, u)
      PROVE  UNCHANGED <<grants, look, used, position>>
  BY <1>2 DEF Receive, Create, Update, CreateChannel, DeleteServer, UploadServerImage,
     DeleteServerImage, AddMember, RemoveMember, AddToConversation,
       AssignRole, CreateRole, UpdateRole,
     DeleteRole, DeleteChannel, ReorderChannels, serverRows, channelRows
<1>3. ASSUME NEW q \in Requests, Announce(q) \/ Tell(q) \/ Fail(q)
      PROVE  UNCHANGED <<grants, look, used, position>>
  BY <1>3 DEF Announce, Tell, Fail, Abort, serverRows, channelRows
<1>4. ASSUME NEW u \in Users, StartList(u) \/ FinishList(u) \/ Drag(u)
      PROVE  UNCHANGED <<grants, look, used, position>>
  BY <1>4 DEF StartList, FinishList, Drag, serverRows, channelRows
<1>5. UNCHANGED vars => UNCHANGED <<grants, look, used, position>>
  BY DEF vars, serverRows, channelRows
<1> QED BY <1>1, <1>2, <1>3, <1>4, <1>5, StatementStores DEF Next

LEMMA SummaryLists ==
  ASSUME Typed, NEW d
  PROVE  Listing(Summary(d))
BY DEF Summary, Listing, Typed

(* A request that ends: at most its caller's list goes back.                *)
LEMMA AnswerLists ==
  ASSUME Typed, Shapes, Tabbed, Listed, NEW q \in Requests,
         \/ Abort(q) \/ RejectOrder(q) \/ Announce(q) \/ Tell(q)
  PROVE  Listed'
<1>1. Tabs \subseteq Users /\ Shaped(req[q])
  BY ServersAssumption DEF Shapes
<1>2. UNCHANGED <<reading, held>> /\ due' \subseteq Users
  BY <1>1 DEF Listed, Abort, RejectOrder, Announce, Tell, OnError, Invalidate, tabs
<1>3. \/ UNCHANGED view
      \/ req[q].op = "reorder" /\ view' = [view EXCEPT ![req[q].by] = req[q].prior]
  BY DEF Abort, RejectOrder, Rejected, At, Announce, Tell, OnError, tabs
<1>4. ASSUME NEW u \in Users, NEW s \in view'[u]
      PROVE  Listing(s)
  BY <1>1, <1>3, <1>4 DEF Tabbed, Listed, Shaped
<1> QED BY <1>2, <1>4 DEF Listed

LEMMA ReorderLists ==
  ASSUME Tabbed, Listed, NEW q \in Requests, NEW u \in Users, NEW order \in Orders(u),
         ReorderChannels(q, u, order)
  PROVE  Listed'
<1> DEFINE shows(s) == [s EXCEPT !.places = [c \in DOMAIN order \cap DOMAIN s.places |-> order[c]]]
<1>1. view' = [view EXCEPT ![u] = {shows(s) : s \in @}] /\ UNCHANGED due
  BY DEF ReorderChannels, OnMutate
<1>2. reading' = [reading EXCEPT ![u] = {}] /\ held' = [held EXCEPT ![u] = {}]
  BY DEF ReorderChannels
<1>3. ASSUME NEW s, Listing(s)
      PROVE  Listing(shows(s))
  BY <1>3 DEF Listing
<1> HIDE DEF shows
<1>4. ASSUME NEW v \in Users, NEW s \in view'[v]
      PROVE  Listing(s)
  <2>1. s \in view[v] \/ \E t \in view[v] : s = shows(t)
    BY <1>1, <1>4 DEF Tabbed
  <2> QED BY <1>3, <2>1 DEF Listed
<1>5. ASSUME NEW v \in Users
      PROVE  reading'[v] \subseteq SUBSET Decor /\ held'[v] \subseteq SUBSET Channels
  BY <1>2 DEF Tabbed, Listed
<1> QED BY <1>1, <1>4, <1>5 DEF Listed

LEMMA TabLists ==
  ASSUME Typed, Stored, Tabbed, Listed, NEW u \in Users, StartList(u) \/ FinishList(u) \/ Drag(u)
  PROVE  Listed'
<1>1. CASE StartList(u)
  <2>1. due' \subseteq Users
    BY <1>1 DEF StartList, Listed
  <2>2. ASSUME NEW v \in Users
        PROVE  /\ reading'[v] \subseteq SUBSET Decor /\ held'[v] \subseteq held[v]
               /\ view'[v] \subseteq view[v]
    BY <1>1 DEF StartList, Tabbed, Listed, Stored
  <2> QED BY <2>1, <2>2 DEF Listed
<1>2. CASE FinishList(u)
  <2>1. due' \subseteq Users /\ UNCHANGED held
    BY <1>2 DEF FinishList, Listed
  <2>2. ASSUME NEW v \in Users
        PROVE  reading'[v] \subseteq SUBSET Decor
    BY <1>2 DEF FinishList, Tabbed, Listed
  <2>3. ASSUME NEW v \in Users, NEW s \in view'[v]
        PROVE  Listing(s)
    <3>1. \/ UNCHANGED view
          \/ view' = [view EXCEPT ![u] = {Summary(d) : d \in reading[u]}]
      BY <1>2 DEF FinishList
    <3>2. s \in view[v] \/ \E d \in reading[u] : s = Summary(d)
      BY <2>3, <3>1 DEF Tabbed
    <3> QED BY <3>2, SummaryLists DEF Listed
  <2> QED BY <2>1, <2>2, <2>3 DEF Listed
<1>3. CASE Drag(u)
  <2>1. PICK s \in view[u] : held' = [held EXCEPT ![u] = {DOMAIN s.places}]
    BY <1>3 DEF Drag
  <2>2. DOMAIN s.places \subseteq Channels
    BY DEF Listed, Listing
  <2>3. ASSUME NEW v \in Users
        PROVE  held'[v] \subseteq SUBSET Channels
    BY <2>1, <2>2 DEF Tabbed, Listed
  <2>4. UNCHANGED <<view, reading, due>>
    BY <1>3 DEF Drag
  <2> QED BY <2>3, <2>4 DEF Listed
<1> QED BY <1>1, <1>2, <1>3

LEMMA NextLists ==
  ASSUME Typed, Shapes, Stored, Tabbed, Listed, [Next]_vars
  PROVE  Listed'
<1>1. CASE UNCHANGED tabs
  BY <1>1 DEF tabs, Listed
<1>2. ASSUME NEW q \in Requests, NEW u \in Users, Receive(q, u)
      PROVE  UNCHANGED tabs \/ \E order \in Orders(u) : ReorderChannels(q, u, order)
  BY <1>2 DEF Receive, Create, Update, CreateChannel, DeleteServer, UploadServerImage,
     DeleteServerImage, AddMember, RemoveMember, AddToConversation,
       AssignRole, CreateRole, UpdateRole,
     DeleteRole, DeleteChannel
<1>3. ASSUME NEW q \in Requests, Statement(q)
      PROVE  UNCHANGED tabs \/ RejectOrder(q) \/ Abort(q)
  BY <1>3 DEF Statement, InsertServer, CreateDefaultRole, UpdateName, Get, UpsertImage,
     DeleteImage, InsertMember, ListChannels, MemberAdded, InsertConversationMember,
       DeleteMember, SetRole, InsertRole,
     SetGrants, MoveMembers, DropRole, ListMemberIDs, CreateWithMembers, ReadPosition,
     InsertChannel, SetPositions, DropChannel, ListEveryone, DropConversations,
     DropServer, Missing, AddToChannel, RemoveFromChannel
<1>4. ASSUME NEW q \in Requests, Statement(q) \/ Announce(q) \/ Tell(q) \/ Fail(q)
      PROVE  Listed'
  BY <1>1, <1>3, <1>4, AnswerLists DEF Fail
<1>5. UNCHANGED vars => UNCHANGED tabs
  BY DEF vars
<1> QED BY <1>1, <1>2, <1>4, <1>5, ReorderLists, TabLists DEF Next

LEMMA InitShape ==
  ASSUME Init
  PROVE  Shape
<1>1. PICK b \in Begun :
        /\ roles = b.roles /\ grants = b.grants /\ look = {}
        /\ channels = b.channels /\ position = b.position
        /\ used = b.roles \cup b.channels
        /\ req = [q \in Requests |-> Idle] /\ served = 0
        /\ view = [u \in Users |->
                    IF u \notin Tabs \/ b.rank[u] = Absent THEN {} ELSE {Summary({})}]
        /\ reading = [u \in Users |-> {}] /\ held = [u \in Users |-> {}]
        /\ due = {} /\ faults = 0
  BY DEF Init
<1>2. Informed /\ Typed
  BY InitInforms DEF Informed, IInv
<1>3. Shapes
  BY <1>1 DEF Shapes, Shaped, Idle, PCs, Ops
<1>4. Stored
  BY <1>1, BegunAssumption DEF Stored
<1>5. Listed
  <2>1. \A u \in Users : view[u] \subseteq {Summary({})}
    BY <1>1
  <2> QED BY <1>1, <1>2, <2>1, SummaryLists DEF Listed
<1>6. Counted
  BY <1>1, ServersAssumption DEF Counted
<1> QED BY <1>2, <1>3, <1>4, <1>5, <1>6 DEF Shape

LEMMA NextShape ==
  ASSUME Shape, [Next]_vars
  PROVE  Shape'
<1>1. Typed /\ Tabbed
  BY DEF Shape, Informed, IInv
<1> QED BY <1>1, NextInforms, NextShapes, NextStores, NextLists, NextCounts DEF Shape

(* For any number of users, roles, channels, requests and tabs, every       *)
(* variable keeps to its type: the rows refer to users, roles and channels  *)
(* there are, a role is granted what a role may be, and the place that      *)
(* CreateChannel reads for a new channel is a number, however the channels  *)
(* have been deleted and put in order before.                               *)
THEOREM TypeCorrect == Spec => []TypeOK
<1>1. Shape => TypeOK
  <2>1. ASSUME Shape
        PROVE  Typed /\ Shapes /\ Stored /\ Listed /\ Counted
    BY <2>1 DEF Shape, Informed, IInv
  <2> QED BY <2>1 DEF TypeOK, Typed, Wellformed, Shapes, Shaped, Stored, Listed, Counted
<1> QED BY <1>1, InitShape, NextShape, PTL DEF Spec
=============================================================================
