--------------------------- MODULE StatusService ---------------------------
(***************************************************************************)
(* The RPCs of the StatusServer processes over the shared MySQL database   *)
(* and the shared Redis cache.                                             *)
(*                                                                         *)
(* Each call runs on a thread of its gRPC server, and several servers run  *)
(* at once; a call is a sequence of database statements (each under the    *)
(* database mutex) and Redis commands, and every statement or command is   *)
(* one step here.  Any of them may fail: the connection is down, or the    *)
(* statement is refused (user_status and user_friends only accept users    *)
(* that have an account).                                                  *)
(*                                                                         *)
(* Left out: last_seen and last_updated, which nobody reads; the scores of *)
(* the cached friends list, which only order it; GetFriendsList, which is  *)
(* the single statement of QueryFriends and changes nothing.               *)
(***************************************************************************)
EXTENDS Naturals, FiniteSets

CONSTANTS
    Calls,      \* RPC threads over all servers
    Users,      \* user IDs that requests name
    Accounts,   \* those in the table users
    Reporters,  \* users whose own status is reported and asked for
    Requesters, \* users who ask for the status of their friends
    FriendRequests, \* pairs of users that AddFriend is called with
    Statuses,   \* statuses that callers report
    Tokens,     \* session tokens that callers report
    None,       \* no row, no hash field
    NoToken     \* the empty token a read-repair writes

ASSUME UsersAssumption ==
    /\ Accounts \cup Reporters \cup Requesters \subseteq Users
    /\ FriendRequests \subseteq Users \X Users
ASSUME StatusAssumption == "OFFLINE" \in Statuses
ASSUME NoneAssumption == None \notin Users \cup Statuses \cup Tokens \cup {NoToken}

\* The status that stands for a hash without a status field.
Offline == "OFFLINE"
Entry == [status : Statuses, token : Tokens \cup {NoToken}]
NoEntry == [status |-> None, token |-> None]

VARIABLES
    row,          \* table user_status: the entry of a user, or NoEntry
    friends,      \* table user_friends: pairs <<user, friend>>
    cache,        \* Redis hash user:status:<id>, field by field
    cacheFriends, \* Redis sorted set user:friends:<id>
    call,         \* the state of each RPC
    disturbed,    \* history: users whose cache entry a failure or an overlap may have spoilt
    halved        \* history: users for whom an AddFriend failed after an insert

vars == <<row, friends, cache, cacheFriends, call, disturbed, halved>>

Idle == [pc |-> "idle", user |-> None, entry |-> NoEntry, ok |-> TRUE,
         clean |-> TRUE, todo |-> {}, uncached |-> {}, other |-> None]

\* Steps of an UpdateUserStatus from its database write to the end, and of a
\* read-repair from its database read on.
WritingSteps == {"updateDB", "cacheStatus", "cacheToken", "gateStatus", "updated",
                 "repairRead", "repairStatus", "repairToken", "repaired"}
WritesTo(c, u) ==
    /\ call[c].pc \in WritingSteps
    /\ u = IF call[c].other # None THEN call[c].other ELSE call[c].user

Goto(c, pc) == call' = [call EXCEPT ![c].pc = pc]

\* The calls that write the entry of u can no longer vouch for it.
Disturb(u, next) ==
    /\ disturbed' = disturbed \cup {u}
    /\ call' = [d \in Calls |-> IF WritesTo(d, u) THEN [next[d] EXCEPT !.clean = FALSE]
                                                  ELSE next[d]]

-----------------------------------------------------------------------------
(* UpdateUserStatus, with the Gate's own hset after a successful answer *)

StartUpdate(c, u, e) ==
    /\ call[c] = Idle
    /\ LET overlaps == \E d \in Calls : WritesTo(d, u)
           next == [call EXCEPT ![c] = [Idle EXCEPT !.pc = "updateDB", !.user = u,
                                                    !.entry = e, !.clean = ~overlaps]]
       IN  IF overlaps THEN Disturb(u, next)
                       ELSE call' = next /\ UNCHANGED disturbed
    /\ UNCHANGED <<row, friends, cache, cacheFriends, halved>>

\* The cache is written whether or not the database was.
UpdateUserStatusInDB(c) ==
    /\ call[c].pc = "updateDB"
    /\ \/ /\ call[c].user \in Accounts
          /\ row' = [row EXCEPT ![call[c].user] = call[c].entry]
          /\ Goto(c, "cacheStatus")
          /\ UNCHANGED disturbed
       \/ /\ Disturb(call[c].user,
                     [call EXCEPT ![c].pc = "cacheStatus", ![c].ok = FALSE])
          /\ UNCHANGED row
    /\ UNCHANGED <<friends, cache, cacheFriends, halved>>

\* HSET of one field; without Redis the call goes on.
SetField(c, u, field, value, pc) ==
    /\ \/ /\ cache' = [cache EXCEPT ![u][field] = value]
          /\ Goto(c, pc)
          /\ UNCHANGED disturbed
       \/ /\ Disturb(u, [call EXCEPT ![c].pc = pc])
          /\ UNCHANGED cache
    /\ UNCHANGED <<row, friends, cacheFriends, halved>>

CacheStatus(c) ==
    /\ call[c].pc = "cacheStatus"
    /\ SetField(c, call[c].user, "status", call[c].entry.status, "cacheToken")

\* Defect: the token of the update is not cached.
CacheNoToken(c) ==
    /\ call[c].pc = "cacheToken"
    /\ Goto(c, IF call[c].ok THEN "gateStatus" ELSE "updated")
    /\ UNCHANGED <<row, friends, cache, cacheFriends, disturbed, halved>>

CacheToken(c) ==
    /\ call[c].pc = "cacheToken"
    /\ SetField(c, call[c].user, "token", call[c].entry.token,
                IF call[c].ok THEN "gateStatus" ELSE "updated")

GateCacheStatus(c) ==
    /\ call[c].pc = "gateStatus"
    /\ SetField(c, call[c].user, "status", call[c].entry.status, "updated")

\* A whole undisturbed update leaves cache and database in agreement.
FinishUpdate(c) ==
    /\ call[c].pc = "updated"
    /\ disturbed' = IF call[c].clean THEN disturbed \ {call[c].user} ELSE disturbed
    /\ call' = [call EXCEPT ![c] = Idle]
    /\ UNCHANGED <<row, friends, cache, cacheFriends, halved>>

-----------------------------------------------------------------------------
(* GetUserStatus *)

StartGetStatus(c, u) ==
    /\ call[c] = Idle
    /\ call' = [call EXCEPT ![c] = [Idle EXCEPT !.pc = "getCache", !.user = u]]
    /\ UNCHANGED <<row, friends, cache, cacheFriends, disturbed, halved>>

\* Defect: no default for a hash without a status.
FieldAsStatus(u) == cache[u].status

\* HGETALL of a missing key succeeds with no fields, and no status field
\* reads as OFFLINE.
CachedStatus(u) == IF cache[u].status = None THEN Offline ELSE cache[u].status

\* The answer, with the user's cache entry as it was read (None: it missed).
GetStatusFromCache(c) ==
    /\ call[c].pc = "getCache"
    /\ \/ call' = [call EXCEPT ![c].pc = "answered",
                               ![c].entry.status = CachedStatus(call[c].user),
                               ![c].ok = cache[call[c].user].status # None]
       \/ Goto(c, "getRow")
    /\ UNCHANGED <<row, friends, cache, cacheFriends, disturbed, halved>>

\* No row, or no database: the answer is an error.
GetStatusFromDB(c) ==
    /\ call[c].pc = "getRow"
    /\ \/ /\ row[call[c].user] # NoEntry
          /\ call' = [call EXCEPT ![c].pc = "answered",
                                  ![c].entry.status = row[call[c].user].status]
       \/ call' = [call EXCEPT ![c] = Idle]
    /\ UNCHANGED <<row, friends, cache, cacheFriends, disturbed, halved>>

FinishGetStatus(c) ==
    /\ call[c].pc = "answered"
    /\ call' = [call EXCEPT ![c] = Idle]
    /\ UNCHANGED <<row, friends, cache, cacheFriends, disturbed, halved>>

-----------------------------------------------------------------------------
(* GetFriendsStatus *)

StartGetFriends(c, u) ==
    /\ call[c] = Idle
    /\ call' = [call EXCEPT ![c] = [Idle EXCEPT !.pc = "getList", !.user = u]]
    /\ UNCHANGED <<row, friends, cache, cacheFriends, disturbed, halved>>

\* Defect: the columns of user_friends are swapped.
FollowersOf(u) == {f \in Users : <<f, u>> \in friends}

FriendsOf(u) == {f \in Users : <<u, f>> \in friends}

\* An empty cached list counts as a miss.
GetCachedFriendsList(c) ==
    /\ call[c].pc = "getList"
    /\ \/ /\ cacheFriends[call[c].user] # {}
          /\ call' = [call EXCEPT ![c].pc = "nextFriend",
                                  ![c].todo = cacheFriends[call[c].user]]
       \/ Goto(c, "queryFriends")
    /\ UNCHANGED <<row, friends, cache, cacheFriends, disturbed, halved>>

\* getFriendsIds: without the database the list is empty.
QueryFriends(c) ==
    /\ call[c].pc = "queryFriends"
    /\ \E list \in {FriendsOf(call[c].user), {}} :
         call' = [call EXCEPT ![c].pc = "dropList", ![c].todo = list, ![c].uncached = list]
    /\ UNCHANGED <<row, friends, cache, cacheFriends, disturbed, halved>>

\* cacheFriendsList: DEL, then one ZADD per friend; each may fail.
DropCachedList(c) ==
    /\ call[c].pc = "dropList"
    /\ cacheFriends' \in {[cacheFriends EXCEPT ![call[c].user] = {}], cacheFriends}
    /\ call' = [call EXCEPT ![c].pc = "fillList"]
    /\ UNCHANGED <<row, friends, cache, disturbed, halved>>

FillCachedList(c) ==
    /\ call[c].pc = "fillList"
    /\ IF call[c].uncached = {}
       THEN Goto(c, "nextFriend") /\ UNCHANGED cacheFriends
       ELSE \E f \in call[c].uncached :
              /\ cacheFriends' \in {[cacheFriends EXCEPT ![call[c].user] = @ \cup {f}],
                                    cacheFriends}
              /\ call' = [call EXCEPT ![c].uncached = @ \ {f}]
    /\ UNCHANGED <<row, friends, cache, disturbed, halved>>

\* The status of one friend, from the cache when Redis answers.
GetFriendStatus(c) ==
    /\ call[c].pc = "nextFriend"
    /\ IF call[c].todo = {}
       THEN call' = [call EXCEPT ![c] = Idle]
       ELSE \E f \in call[c].todo :
              \/ call' = [call EXCEPT ![c].todo = @ \ {f}]
              \/ call' = [call EXCEPT ![c].todo = @ \ {f}, ![c].other = f,
                                      ![c].pc = "repairRead"]
    /\ UNCHANGED <<row, friends, cache, cacheFriends, disturbed, halved>>

\* The row read here is written to the cache in later steps.
RepairRead(c) ==
    /\ call[c].pc = "repairRead"
    /\ \/ /\ row[call[c].other] # NoEntry
          /\ Disturb(call[c].other,
                     [call EXCEPT ![c].pc = "repairStatus", ![c].entry =
                        [status |-> row[call[c].other].status, token |-> NoToken]])
       \/ /\ call' = [call EXCEPT ![c].pc = "nextFriend", ![c].other = None]
          /\ UNCHANGED disturbed
    /\ UNCHANGED <<row, friends, cache, cacheFriends, halved>>

RepairStatus(c) ==
    /\ call[c].pc = "repairStatus"
    /\ SetField(c, call[c].other, "status", call[c].entry.status, "repairToken")

\* The token was not read from the database: the cached one is erased.
RepairToken(c) ==
    /\ call[c].pc = "repairToken"
    /\ SetField(c, call[c].other, "token", NoToken, "repaired")

FinishRepair(c) ==
    /\ call[c].pc = "repaired"
    /\ call' = [call EXCEPT ![c].pc = "nextFriend", ![c].other = None,
                            ![c].entry = NoEntry]
    /\ UNCHANGED <<row, friends, cache, cacheFriends, disturbed, halved>>

-----------------------------------------------------------------------------
(* AddFriend *)

StartAddFriend(c, u, f) ==
    /\ call[c] = Idle
    /\ call' = [call EXCEPT ![c] = [Idle EXCEPT !.pc = "exists", !.user = u, !.other = f]]
    /\ UNCHANGED <<row, friends, cache, cacheFriends, disturbed, halved>>

\* A query that fails counts as "no such relationship".
FriendExistsInDB(c) ==
    /\ call[c].pc = "exists"
    /\ \/ /\ <<call[c].user, call[c].other>> \in friends
          /\ call' = [call EXCEPT ![c] = Idle]
       \/ Goto(c, "insertOne")
    /\ UNCHANGED <<row, friends, cache, cacheFriends, disturbed, halved>>

\* INSERT IGNORE succeeds for a pair that is there, and also, without
\* inserting anything, for a user that has no account.
InsertFriend(u, f) ==
    friends' = IF {u, f} \subseteq Accounts THEN friends \cup {<<u, f>>} ELSE friends

\* An INSERT that fails for the server may have been done by MySQL.
AddFirstDirection(c) ==
    /\ call[c].pc = "insertOne"
    /\ \/ /\ InsertFriend(call[c].user, call[c].other)
          /\ Goto(c, "insertTwo")
          /\ UNCHANGED halved
       \/ /\ InsertFriend(call[c].user, call[c].other)
          /\ call' = [call EXCEPT ![c] = Idle]
          /\ halved' = halved \cup {<<call[c].user, call[c].other>>}
       \/ /\ call' = [call EXCEPT ![c] = Idle]
          /\ UNCHANGED <<friends, halved>>
    /\ UNCHANGED <<row, cache, cacheFriends, disturbed>>

\* Defect: the second insert is forgotten.
AddOneDirectionOnly(c) ==
    /\ call[c].pc = "insertTwo"
    /\ Goto(c, "added")
    /\ UNCHANGED <<row, friends, cache, cacheFriends, disturbed, halved>>

AddSecondDirection(c) ==
    /\ call[c].pc = "insertTwo"
    /\ \/ /\ InsertFriend(call[c].other, call[c].user)
          /\ Goto(c, "added")
          /\ UNCHANGED halved
       \/ /\ call' = [call EXCEPT ![c] = Idle]
          /\ halved' = halved \cup {<<call[c].user, call[c].other>>}
          /\ InsertFriend(call[c].other, call[c].user) \/ UNCHANGED friends
    /\ UNCHANGED <<row, cache, cacheFriends, disturbed>>

FinishAddFriend(c) ==
    /\ call[c].pc = "added"
    /\ call' = [call EXCEPT ![c] = Idle]
    /\ UNCHANGED <<row, friends, cache, cacheFriends, disturbed, halved>>

-----------------------------------------------------------------------------
(* Redis restarts and loses its keys. *)
RedisFlush ==
    /\ cache' = [u \in Users |-> NoEntry]
    /\ cacheFriends' = [u \in Users |-> {}]
    /\ LET written == {u \in Users : \E c \in Calls : WritesTo(c, u)}
       IN  /\ disturbed' = disturbed \cup written
           /\ call' = [c \in Calls |-> IF call[c].pc \in WritingSteps
                                       THEN [call[c] EXCEPT !.clean = FALSE] ELSE call[c]]
    /\ UNCHANGED <<row, friends, halved>>

-----------------------------------------------------------------------------

Init ==
    /\ row = [u \in Users |-> NoEntry]
    /\ friends = {}
    /\ cache = [u \in Users |-> NoEntry]
    /\ cacheFriends = [u \in Users |-> {}]
    /\ call = [c \in Calls |-> Idle]
    /\ disturbed = {}
    /\ halved = {}

UpdateStep(c) ==
    \/ \E u \in Reporters, s \in Statuses, t \in Tokens :
         StartUpdate(c, u, [status |-> s, token |-> t])
    \/ UpdateUserStatusInDB(c)
    \/ CacheStatus(c)
    \/ CacheToken(c)
    \/ GateCacheStatus(c)
    \/ FinishUpdate(c)

GetStatusStep(c) ==
    \/ \E u \in Reporters : StartGetStatus(c, u)
    \/ GetStatusFromCache(c)
    \/ GetStatusFromDB(c)
    \/ FinishGetStatus(c)

GetFriendsStep(c) ==
    \/ \E u \in Requesters : StartGetFriends(c, u)
    \/ GetCachedFriendsList(c)
    \/ QueryFriends(c)
    \/ DropCachedList(c)
    \/ FillCachedList(c)
    \/ GetFriendStatus(c)
    \/ RepairRead(c)
    \/ RepairStatus(c)
    \/ RepairToken(c)
    \/ FinishRepair(c)

AddFriendStep(c) ==
    \/ \E request \in FriendRequests : StartAddFriend(c, request[1], request[2])
    \/ FriendExistsInDB(c)
    \/ AddFirstDirection(c)
    \/ AddSecondDirection(c)
    \/ FinishAddFriend(c)

Next ==
    \/ \E c \in Calls :
         UpdateStep(c) \/ GetStatusStep(c) \/ GetFriendsStep(c) \/ AddFriendStep(c)
    \/ RedisFlush

Spec == Init /\ [][Next]_vars

-----------------------------------------------------------------------------
(* Properties *)

\* Every variable keeps its type; in particular a GetUserStatus never answers
\* anything but a status.
TypeOK ==
    /\ row \in [Users -> Entry \cup {NoEntry}]
    /\ friends \in SUBSET (Accounts \X Accounts)
    /\ cache \in [Users -> [status : Statuses \cup {None},
                            token : Tokens \cup {NoToken, None}]]
    /\ cacheFriends \in [Users -> SUBSET Users]
    /\ disturbed \in SUBSET Users
    /\ halved \in SUBSET (Users \X Users)
    /\ \A c \in Calls :
         /\ call[c].user \in Users \cup {None}
         /\ call[c].other \in Users \cup {None}
         /\ call[c].todo \subseteq Users
         /\ call[c].uncached \subseteq Users
         /\ call[c].pc = "answered" => call[c].entry.status \in Statuses

\* When no write to a user's status is under way, Redis holds nothing for the
\* user or exactly the database row, status and token of one update. Only a
\* failed step, a read-repair or two overlapping writes can break this, and
\* the next update that nothing disturbs restores it.
CacheAgreesUnlessDisturbed ==
    \A u \in Users \ disturbed :
        (\A c \in Calls : ~WritesTo(c, u)) => cache[u] \in {NoEntry, row[u]}

\* A cached friends list names only friends, whatever fills and drops of it
\* overlap: the cache may lack friends, never invent one.
CachedFriendsAreFriends ==
    \A u \in Users : \A f \in cacheFriends[u] : <<u, f>> \in friends

\* When AddFriend answers success for two accounts, each is the other's friend.
AddedFriendsAreMutual ==
    \A c \in Calls :
        call[c].pc = "added" /\ {call[c].user, call[c].other} \subseteq Accounts =>
            {<<call[c].user, call[c].other>>, <<call[c].other, call[c].user>>} \subseteq friends

\* A friendship is one-sided only while its AddFriend runs, or because that
\* AddFriend failed between its two inserts.
OneSidedFriendshipWasHalved ==
    \A u, f \in Users : <<u, f>> \in friends /\ <<f, u>> \notin friends =>
        \/ <<u, f>> \in halved
        \/ \E c \in Calls : call[c].pc = "insertTwo" /\ call[c].user = u /\ call[c].other = f

\* "Cache miss: get it from the database" (GetUserStatus): the answer for a
\* user who has a row but no cache entry is the status of the row. The code
\* does not do this.
MissReadsDatabase ==
    [][\A c \in Calls :
         call[c].pc = "getCache" /\ call'[c].pc = "answered" /\ ~call'[c].ok
           /\ row[call[c].user] # NoEntry
         => call'[c].entry.status = row[call[c].user].status]_vars
=============================================================================
