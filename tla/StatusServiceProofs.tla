------------------------- MODULE StatusServiceProofs -------------------------
(***************************************************************************)
(* Type correctness of StatusService and what it guarantees of friendships *)
(* and of its cache, proved for any number of calls, users and statuses.   *)
(***************************************************************************)
EXTENDS StatusService, TLAPS

\* The steps of a call after which its entry, or its second user, is set.
EntrySteps == {"updateDB", "cacheStatus", "cacheToken", "gateStatus",
               "repairStatus", "repairToken"}
PairSteps == {"repairRead", "repairStatus", "repairToken",
              "exists", "insertOne", "insertTwo", "added"}

Steps == WritingSteps \cup PairSteps \cup
         {"idle", "getCache", "getRow", "answered", "getList", "queryFriends",
          "dropList", "fillList", "nextFriend"}

Call == [pc : Steps, user : Users \cup {None},
         entry : [status : Statuses \cup {None}, token : Tokens \cup {NoToken, None}],
         ok : BOOLEAN, clean : BOOLEAN, todo : SUBSET Users, uncached : SUBSET Users,
         other : Users \cup {None}]

\* What is known of a call at each of its steps.
GoodCall(r) ==
    /\ r \in Call
    /\ r.pc # "idle" => r.user \in Users
    /\ r.pc \in PairSteps => r.other \in Users
    /\ r.pc \in EntrySteps => r.entry \in Entry
    /\ r.pc = "answered" => r.entry.status \in Statuses

\* The inductive form of the type invariant.
Types ==
    /\ row \in [Users -> Entry \cup {NoEntry}]
    /\ friends \in SUBSET (Accounts \X Accounts)
    /\ cache \in [Users -> [status : Statuses \cup {None},
                            token : Tokens \cup {NoToken, None}]]
    /\ cacheFriends \in [Users -> SUBSET Users]
    /\ disturbed \in SUBSET Users
    /\ halved \in SUBSET (Users \X Users)
    /\ call \in [Calls -> Call]
    /\ \A c \in Calls : GoodCall(call[c])

-----------------------------------------------------------------------------
(* Steps that only change a call *)

\* A call that has not begun.
LEMMA IdleIsGood == GoodCall(Idle)
  <1>1. Idle.pc = "idle"
    BY DEF Idle
  <1>2. NoEntry \in [status : Statuses \cup {None}, token : Tokens \cup {NoToken, None}]
    BY DEF NoEntry
  <1>3. Idle \in Call
    BY <1>2 DEF Idle, Call, Steps
  <1>. QED  BY <1>1, <1>3 DEF GoodCall, PairSteps, EntrySteps

\* An update that begins, of user u to status s and token t.
Started(u, s, t) ==
    [Idle EXCEPT !.pc = "updateDB", !.user = u, !.entry = [status |-> s, token |-> t]]

\* An update that begins is a call.
LEMMA StartedIsCall ==
    ASSUME NEW u \in Users, NEW s \in Statuses, NEW t \in Tokens
    PROVE  LET r == Started(u, s, t)
           IN  /\ r \in Call /\ r.pc = "updateDB" /\ r.user = u
               /\ r.entry = [status |-> s, token |-> t]
               /\ r.other = None
  <1>1. Idle \in Call
    BY IdleIsGood DEF GoodCall
  <1>2. u \in Users \cup {None} /\ s \in Statuses \cup {None}
        /\ t \in Tokens \cup {NoToken, None}
    OBVIOUS
  <1>3. Idle.other = None
    BY DEF Idle
  <1>4. "updateDB" \in Steps
    BY DEF Steps, WritingSteps
  <1>. HIDE DEF Idle
  <1>. QED  BY <1>1, <1>2, <1>3, <1>4 DEF Call, Started

\* A call that can no longer vouch for an entry is as good as before.
LEMMA UncleanIsGood ==
    ASSUME NEW r, GoodCall(r)
    PROVE  /\ GoodCall([r EXCEPT !.clean = FALSE])
           /\ [r EXCEPT !.clean = FALSE].pc = r.pc
           /\ [r EXCEPT !.clean = FALSE].user = r.user
           /\ [r EXCEPT !.clean = FALSE].other = r.other
           /\ [r EXCEPT !.clean = FALSE].uncached = r.uncached
  BY DEF GoodCall, Call

\* Disturb changes nothing else of the calls, and adds a user to disturbed.
LEMMA DisturbFacts ==
    ASSUME NEW u \in Users, NEW next \in [Calls -> Call], disturbed \in SUBSET Users,
           \A d \in Calls : GoodCall(next[d]), Disturb(u, next)
    PROVE  /\ disturbed' \in SUBSET Users
           /\ call' \in [Calls -> Call]
           /\ \A d \in Calls : /\ GoodCall(call'[d])
                               /\ call'[d].pc = next[d].pc
                               /\ call'[d].user = next[d].user
                               /\ call'[d].other = next[d].other
                               /\ call'[d].uncached = next[d].uncached
  <1>1. call' = [d \in Calls |-> IF WritesTo(d, u) THEN [next[d] EXCEPT !.clean = FALSE]
                                                   ELSE next[d]]
    BY DEF Disturb
  <1>2. \A d \in Calls : /\ GoodCall(call'[d])
                         /\ call'[d].pc = next[d].pc
                         /\ call'[d].user = next[d].user
                         /\ call'[d].other = next[d].other
                         /\ call'[d].uncached = next[d].uncached
    BY <1>1, UncleanIsGood
  <1>3. call' \in [Calls -> Call]
    BY <1>1, <1>2 DEF GoodCall
  <1>. QED  BY <1>2, <1>3 DEF Disturb

\* Setting the call c to a good record.
LEMMA SetCall ==
    ASSUME Types, NEW c \in Calls, NEW r, GoodCall(r)
    PROVE  /\ [call EXCEPT ![c] = r] \in [Calls -> Call]
           /\ \A d \in Calls : GoodCall([call EXCEPT ![c] = r][d])
  BY DEF Types, GoodCall

\* HSET of one field keeps the types.
LEMMA SetFieldType ==
    ASSUME Types, NEW c \in Calls, NEW u \in Users, NEW field \in {"status", "token"},
           NEW value, field = "status" => value \in Statuses,
           field = "token" => value \in Tokens \cup {NoToken},
           NEW pc, GoodCall([call[c] EXCEPT !.pc = pc]),
           SetField(c, u, field, value, pc)
    PROVE  Types'
  <1>. DEFINE next == [call EXCEPT ![c].pc = pc]
  <1>1. next \in [Calls -> Call] /\ \A d \in Calls : GoodCall(next[d])
    BY SetCall
  <1>2. CASE /\ cache' = [cache EXCEPT ![u][field] = value]
             /\ Goto(c, pc)
             /\ UNCHANGED disturbed
    <2>1. cache' \in [Users -> [status : Statuses \cup {None},
                                token : Tokens \cup {NoToken, None}]]
      BY <1>2 DEF Types
    <2>. QED  BY <1>1, <1>2, <2>1 DEF Types, SetField, Goto
  <1>3. CASE Disturb(u, next) /\ UNCHANGED cache
    <2>. HIDE DEF next
    <2>1. disturbed' \in SUBSET Users /\ call' \in [Calls -> Call]
          /\ \A d \in Calls : GoodCall(call'[d])
      BY <1>1, <1>3, DisturbFacts DEF Types
    <2>. QED  BY <1>3, <2>1 DEF Types, SetField
  <1>. QED  BY <1>2, <1>3 DEF SetField

\* A step of the call c that only changes that call keeps the types.
LEMMA OnlyCallType ==
    ASSUME Types, NEW c \in Calls, NEW r, GoodCall(r), call' = [call EXCEPT ![c] = r],
           UNCHANGED <<row, friends, cache, cacheFriends, disturbed, halved>>
    PROVE  Types'
  <1>1. call' \in [Calls -> Call] /\ \A d \in Calls : GoodCall(call'[d])
    BY SetCall
  <1>. QED  BY <1>1 DEF Types

\* The steps of UpdateUserStatus keep the types.
LEMMA UpdateType ==
    ASSUME Types, NEW c \in Calls, UpdateStep(c)
    PROVE  Types'
  <1>. USE StatusAssumption, NoneAssumption
  <1>1. ASSUME NEW u \in Reporters, NEW s \in Statuses, NEW t \in Tokens,
               StartUpdate(c, u, [status |-> s, token |-> t])
        PROVE  Types'
    <2>. DEFINE overlaps == \E d \in Calls : WritesTo(d, u)
                r == [Started(u, s, t) EXCEPT !.clean = ~overlaps]
                next == [call EXCEPT ![c] = r]
    <2>1. u \in Users
      BY UsersAssumption
    <2>2. GoodCall(r)
      <3>. HIDE DEF overlaps
      <3>1. /\ Started(u, s, t) \in Call /\ Started(u, s, t).pc = "updateDB"
            /\ Started(u, s, t).user = u /\ Started(u, s, t).other = None
            /\ Started(u, s, t).entry = [status |-> s, token |-> t]
        BY <2>1, StartedIsCall
      <3>2. r \in Call /\ r.pc = "updateDB" /\ r.user = u
        BY <3>1 DEF Call
      <3>3. r.entry = [status |-> s, token |-> t]
        BY <3>1 DEF Call
      <3>4. r.entry \in Entry
        BY <3>3 DEF Entry
      <3>. HIDE DEF r
      <3>. QED  BY <2>1, <3>2, <3>4 DEF GoodCall, PairSteps
    <2>3. next \in [Calls -> Call] /\ \A d \in Calls : GoodCall(next[d])
      BY <2>2, SetCall
    <2>4. CASE overlaps
      <3>1. Disturb(u, next)
        BY <1>1, <2>4 DEF StartUpdate, Started, Idle
      <3>. HIDE DEF next
      <3>. QED  BY <1>1, <2>1, <2>3, <3>1, DisturbFacts DEF Types, StartUpdate
    <2>5. CASE ~overlaps
      <3>1. call' = next /\ UNCHANGED disturbed
        BY <1>1, <2>5 DEF StartUpdate, Started, Idle
      <3>. HIDE DEF next
      <3>. QED  BY <1>1, <2>3, <3>1 DEF Types, StartUpdate
    <2>. QED  BY <2>4, <2>5
  <1>2. ASSUME UpdateUserStatusInDB(c)
        PROVE  Types'
    <2>1. GoodCall(call[c]) /\ call[c].user \in Users /\ call[c].entry \in Entry
      BY <1>2 DEF Types, GoodCall, EntrySteps, UpdateUserStatusInDB
    <2>2. CASE row' = [row EXCEPT ![call[c].user] = call[c].entry] /\ Goto(c, "cacheStatus")
               /\ UNCHANGED disturbed
      <3>1. GoodCall([call[c] EXCEPT !.pc = "cacheStatus"])
        BY <2>1 DEF GoodCall, Call, Steps, PairSteps, EntrySteps, WritingSteps
      <3>2. call' \in [Calls -> Call] /\ \A d \in Calls : GoodCall(call'[d])
        BY <2>2, <3>1, SetCall DEF Goto
      <3>3. row' \in [Users -> Entry \cup {NoEntry}]
        BY <2>1, <2>2 DEF Types
      <3>. QED  BY <1>2, <2>2, <3>2, <3>3 DEF Types, UpdateUserStatusInDB
    <2>3. CASE Disturb(call[c].user, [call EXCEPT ![c].pc = "cacheStatus", ![c].ok = FALSE])
               /\ UNCHANGED row
      <3>. DEFINE next == [call EXCEPT ![c].pc = "cacheStatus", ![c].ok = FALSE]
      <3>1. GoodCall([call[c] EXCEPT !.pc = "cacheStatus", !.ok = FALSE])
        BY <2>1 DEF GoodCall, Call, Steps, PairSteps, EntrySteps, WritingSteps
      <3>2. next \in [Calls -> Call] /\ \A d \in Calls : GoodCall(next[d])
        BY <3>1 DEF Types, GoodCall
      <3>3. Disturb(call[c].user, next)
        BY <2>3
      <3>. HIDE DEF next
      <3>. QED  BY <1>2, <2>1, <2>3, <3>2, <3>3, DisturbFacts DEF Types, UpdateUserStatusInDB
    <2>. QED  BY <1>2, <2>2, <2>3 DEF UpdateUserStatusInDB
  <1>3. ASSUME CacheStatus(c)
        PROVE  Types'
    <2>1. GoodCall(call[c]) /\ call[c].user \in Users /\ call[c].entry \in Entry
      BY <1>3 DEF Types, GoodCall, EntrySteps, CacheStatus
    <2>2. GoodCall([call[c] EXCEPT !.pc = "cacheToken"])
      BY <2>1 DEF GoodCall, Call, Steps, PairSteps, EntrySteps, WritingSteps
    <2>. QED  BY <1>3, <2>1, <2>2, SetFieldType DEF CacheStatus, Entry
  <1>4. ASSUME CacheToken(c)
        PROVE  Types'
    <2>1. GoodCall(call[c]) /\ call[c].user \in Users /\ call[c].entry \in Entry
      BY <1>4 DEF Types, GoodCall, EntrySteps, CacheToken
    <2>2. /\ GoodCall([call[c] EXCEPT !.pc = "gateStatus"])
          /\ GoodCall([call[c] EXCEPT !.pc = "updated"])
      BY <2>1 DEF GoodCall, Call, Steps, PairSteps, EntrySteps, WritingSteps
    <2>3. CASE call[c].ok
      BY <1>4, <2>1, <2>2, <2>3, SetFieldType DEF CacheToken, Entry
    <2>4. CASE ~call[c].ok
      BY <1>4, <2>1, <2>2, <2>4, SetFieldType DEF CacheToken, Entry
    <2>. QED  BY <2>3, <2>4
  <1>5. ASSUME GateCacheStatus(c)
        PROVE  Types'
    <2>1. GoodCall(call[c]) /\ call[c].user \in Users /\ call[c].entry \in Entry
      BY <1>5 DEF Types, GoodCall, EntrySteps, GateCacheStatus
    <2>2. GoodCall([call[c] EXCEPT !.pc = "updated"])
      BY <2>1 DEF GoodCall, Call, Steps, PairSteps, EntrySteps, WritingSteps
    <2>. QED  BY <1>5, <2>1, <2>2, SetFieldType DEF GateCacheStatus, Entry
  <1>6. ASSUME FinishUpdate(c)
        PROVE  Types'
    <2>1. call' \in [Calls -> Call] /\ \A d \in Calls : GoodCall(call'[d])
      BY <1>6, IdleIsGood, SetCall DEF FinishUpdate
    <2>. QED  BY <1>6, <2>1 DEF Types, FinishUpdate
  <1>. QED  BY <1>1, <1>2, <1>3, <1>4, <1>5, <1>6 DEF UpdateStep

\* The steps of GetUserStatus keep the types, and answer a status.
LEMMA GetStatusType ==
    ASSUME Types, NEW c \in Calls, GetStatusStep(c)
    PROVE  Types'
  <1>. USE StatusAssumption, NoneAssumption
  <1>0. GoodCall(call[c]) /\ call \in [Calls -> Call]
    BY DEF Types
  <1>1. ASSUME NEW u \in Reporters, StartGetStatus(c, u)
        PROVE  Types'
    <2>1. GoodCall([Idle EXCEPT !.pc = "getCache", !.user = u])
      BY UsersAssumption, IdleIsGood
      DEF Idle, GoodCall, Call, Steps, PairSteps, EntrySteps, WritingSteps
    <2>. QED  BY <1>1, <2>1, OnlyCallType DEF StartGetStatus
  <1>2. ASSUME GetStatusFromCache(c)
        PROVE  Types'
    <2>. DEFINE hit == [call[c] EXCEPT !.pc = "answered",
                                       !.entry.status = CachedStatus(call[c].user),
                                       !.ok = cache[call[c].user].status # None]
                miss == [call[c] EXCEPT !.pc = "getRow"]
    <2>1. call[c].user \in Users
      BY <1>0, <1>2 DEF GoodCall, GetStatusFromCache
    <2>2. CachedStatus(call[c].user) \in Statuses
      BY <2>1 DEF Types, CachedStatus, Offline
    <2>3. GoodCall(hit)
      BY <1>0, <2>1, <2>2 DEF GoodCall, Call, Steps, PairSteps, EntrySteps, WritingSteps
    <2>4. GoodCall(miss)
      BY <1>0, <2>1 DEF GoodCall, Call, Steps, PairSteps, EntrySteps, WritingSteps
    <2>5. \/ call' = [call EXCEPT ![c] = hit]
          \/ call' = [call EXCEPT ![c] = miss]
      BY <1>0, <1>2 DEF GetStatusFromCache, Goto, Call
    <2>. HIDE DEF hit, miss
    <2>. QED  BY <1>2, <2>3, <2>4, <2>5, OnlyCallType DEF GetStatusFromCache
  <1>3. ASSUME GetStatusFromDB(c)
        PROVE  Types'
    <2>. DEFINE found == [call[c] EXCEPT !.pc = "answered",
                                         !.entry.status = row[call[c].user].status]
    <2>1. call[c].user \in Users
      BY <1>0, <1>3 DEF GoodCall, GetStatusFromDB
    <2>2. row[call[c].user] # NoEntry => row[call[c].user].status \in Statuses
      BY <2>1 DEF Types, Entry
    <2>3. row[call[c].user] # NoEntry => GoodCall(found)
      BY <1>0, <2>1, <2>2 DEF GoodCall, Call, Steps, PairSteps, EntrySteps, WritingSteps
    <2>4. \/ row[call[c].user] # NoEntry /\ call' = [call EXCEPT ![c] = found]
          \/ call' = [call EXCEPT ![c] = Idle]
      BY <1>0, <1>3 DEF GetStatusFromDB, Call
    <2>. HIDE DEF found
    <2>. QED  BY <1>3, <2>3, <2>4, IdleIsGood, OnlyCallType DEF GetStatusFromDB
  <1>4. ASSUME FinishGetStatus(c)
        PROVE  Types'
    BY <1>4, IdleIsGood, OnlyCallType DEF FinishGetStatus
  <1>. QED  BY <1>1, <1>2, <1>3, <1>4 DEF GetStatusStep

\* The steps of AddFriend keep the types: only accounts become friends.
LEMMA AddFriendType ==
    ASSUME Types, NEW c \in Calls, AddFriendStep(c)
    PROVE  Types'
  <1>. DEFINE to(pc) == [call[c] EXCEPT !.pc = pc]
  <1>0. GoodCall(call[c]) /\ call \in [Calls -> Call]
    BY DEF Types
  <1>1. ASSUME NEW request \in FriendRequests, StartAddFriend(c, request[1], request[2])
        PROVE  Types'
    <2>1. request[1] \in Users /\ request[2] \in Users
      BY UsersAssumption
    <2>2. GoodCall([Idle EXCEPT !.pc = "exists", !.user = request[1], !.other = request[2]])
      BY <2>1, IdleIsGood
      DEF Idle, GoodCall, Call, Steps, PairSteps, EntrySteps, WritingSteps
    <2>. QED  BY <1>1, <2>2, OnlyCallType DEF StartAddFriend
  <1>2. ASSUME call[c].pc \in {"exists", "insertOne", "insertTwo"},
               NEW pc \in {"insertOne", "insertTwo", "added"}
        PROVE  GoodCall(to(pc))
    BY <1>0, <1>2 DEF GoodCall, Call, Steps, PairSteps, EntrySteps, WritingSteps
  <1>3. ASSUME NEW u, NEW f, InsertFriend(u, f)
        PROVE  friends' \in SUBSET (Accounts \X Accounts)
    BY <1>3 DEF Types, InsertFriend
  <1>4. ASSUME FriendExistsInDB(c)
        PROVE  Types'
    BY <1>2, <1>4, IdleIsGood, OnlyCallType DEF FriendExistsInDB, Goto
  <1>5. ASSUME AddFirstDirection(c)
        PROVE  Types'
    <2>1. call' \in [Calls -> Call] /\ \A d \in Calls : GoodCall(call'[d])
      <3>1. CASE call' = [call EXCEPT ![c].pc = "insertTwo"]
        BY <1>2, <1>5, <3>1, SetCall DEF AddFirstDirection
      <3>2. CASE call' = [call EXCEPT ![c] = Idle]
        BY <3>2, IdleIsGood, SetCall
      <3>. QED  BY <1>5, <3>1, <3>2 DEF AddFirstDirection, Goto
    <2>2. friends' \in SUBSET (Accounts \X Accounts)
      BY <1>3, <1>5 DEF AddFirstDirection, Types
    <2>3. halved' \in SUBSET (Users \X Users)
      BY <1>0, <1>5 DEF AddFirstDirection, Types, GoodCall, PairSteps
    <2>. QED  BY <1>5, <2>1, <2>2, <2>3 DEF AddFirstDirection, Types
  <1>6. ASSUME AddSecondDirection(c)
        PROVE  Types'
    <2>1. call' \in [Calls -> Call] /\ \A d \in Calls : GoodCall(call'[d])
      <3>1. CASE call' = [call EXCEPT ![c].pc = "added"]
        BY <1>2, <1>6, <3>1, SetCall DEF AddSecondDirection
      <3>2. CASE call' = [call EXCEPT ![c] = Idle]
        BY <3>2, IdleIsGood, SetCall
      <3>. QED  BY <1>6, <3>1, <3>2 DEF AddSecondDirection, Goto
    <2>2. friends' \in SUBSET (Accounts \X Accounts)
      BY <1>3, <1>6 DEF AddSecondDirection, Types
    <2>3. halved' \in SUBSET (Users \X Users)
      BY <1>0, <1>6 DEF AddSecondDirection, Types, GoodCall, PairSteps
    <2>. QED  BY <1>6, <2>1, <2>2, <2>3 DEF AddSecondDirection, Types
  <1>7. ASSUME FinishAddFriend(c)
        PROVE  Types'
    BY <1>7, IdleIsGood, OnlyCallType DEF FinishAddFriend
  <1>. QED  BY <1>1, <1>4, <1>5, <1>6, <1>7 DEF AddFriendStep

\* A call that goes through its list needs no more than a user.
LEMMA WalkIsGood ==
    ASSUME NEW r \in Call, r.user \in Users, r.pc \in {"nextFriend", "queryFriends", "dropList"}
    PROVE  GoodCall(r)
  BY DEF GoodCall, PairSteps, EntrySteps, WritingSteps

\* The steps of GetFriendsStatus keep the types.
LEMMA GetFriendsType ==
    ASSUME Types, NEW c \in Calls, GetFriendsStep(c)
    PROVE  Types'
  <1>. USE StatusAssumption, NoneAssumption
  <1>0. GoodCall(call[c]) /\ call \in [Calls -> Call]
    BY DEF Types
  <1>1. ASSUME NEW u \in Requesters, StartGetFriends(c, u)
        PROVE  Types'
    <2>1. GoodCall([Idle EXCEPT !.pc = "getList", !.user = u])
      BY UsersAssumption, IdleIsGood
      DEF Idle, GoodCall, Call, Steps, PairSteps, EntrySteps, WritingSteps
    <2>. QED  BY <1>1, <2>1, OnlyCallType DEF StartGetFriends
  <1>2. ASSUME GetCachedFriendsList(c)
        PROVE  Types'
    <2>. DEFINE hit == [call[c] EXCEPT !.pc = "nextFriend", !.todo = cacheFriends[call[c].user]]
                miss == [call[c] EXCEPT !.pc = "queryFriends"]
    <2>1. call[c].user \in Users
      BY <1>0, <1>2 DEF GoodCall, GetCachedFriendsList
    <2>2. cacheFriends[call[c].user] \in SUBSET Users /\ call[c] \in Call
      BY <1>0, <2>1 DEF Types, GoodCall
    <2>3. GoodCall(hit)
      <3>1. hit \in Call /\ hit.pc = "nextFriend" /\ hit.user = call[c].user
        BY <2>2 DEF Call, Steps
      <3>. HIDE DEF hit
      <3>. QED  BY <2>1, <3>1, WalkIsGood
    <2>4. GoodCall(miss)
      <3>1. miss \in Call /\ miss.pc = "queryFriends" /\ miss.user = call[c].user
        BY <2>2 DEF Call, Steps
      <3>. HIDE DEF miss
      <3>. QED  BY <2>1, <3>1, WalkIsGood
    <2>5. \/ call' = [call EXCEPT ![c] = hit]
          \/ call' = [call EXCEPT ![c] = miss]
      BY <1>0, <1>2 DEF GetCachedFriendsList, Goto, Call
    <2>. HIDE DEF hit, miss
    <2>. QED  BY <1>2, <2>3, <2>4, <2>5, OnlyCallType DEF GetCachedFriendsList
  <1>3. ASSUME QueryFriends(c)
        PROVE  Types'
    <2>. DEFINE got(list) == [call[c] EXCEPT !.pc = "dropList", !.todo = list, !.uncached = list]
    <2>1. call[c].user \in Users
      BY <1>0, <1>3 DEF GoodCall, QueryFriends
    <2>2. PICK list \in SUBSET Users : call' = [call EXCEPT ![c] = got(list)]
      BY <1>0, <1>3 DEF QueryFriends, FriendsOf, Call
    <2>3. GoodCall(got(list))
      <3>1. call[c] \in Call
        BY <1>0 DEF GoodCall
      <3>2. got(list) \in Call /\ got(list).pc = "dropList" /\ got(list).user = call[c].user
        BY <3>1 DEF Call, Steps
      <3>. HIDE DEF got
      <3>. QED  BY <2>1, <3>2, WalkIsGood
    <2>. HIDE DEF got
    <2>. QED  BY <1>3, <2>2, <2>3, OnlyCallType DEF QueryFriends
  <1>4. ASSUME DropCachedList(c)
        PROVE  Types'
    <2>1. call[c].user \in Users
      BY <1>0, <1>4 DEF GoodCall, DropCachedList
    <2>2. GoodCall([call[c] EXCEPT !.pc = "fillList"])
      BY <1>0, <2>1 DEF GoodCall, Call, Steps, PairSteps, EntrySteps, WritingSteps
    <2>3. call' \in [Calls -> Call] /\ \A d \in Calls : GoodCall(call'[d])
      BY <1>4, <2>2, SetCall DEF DropCachedList
    <2>4. cacheFriends' \in [Users -> SUBSET Users]
      BY <1>4, <2>1 DEF DropCachedList, Types
    <2>. QED  BY <1>4, <2>3, <2>4 DEF DropCachedList, Types
  <1>5. ASSUME FillCachedList(c)
        PROVE  Types'
    <2>1. call[c].user \in Users /\ call[c].uncached \subseteq Users
      BY <1>0, <1>5 DEF GoodCall, Call, FillCachedList
    <2>2. GoodCall([call[c] EXCEPT !.pc = "nextFriend"])
      BY <1>0, <2>1 DEF GoodCall, Call, Steps, PairSteps, EntrySteps, WritingSteps
    <2>3. CASE call[c].uncached = {}
      BY <1>5, <2>2, <2>3, OnlyCallType DEF FillCachedList, Goto
    <2>4. CASE call[c].uncached # {}
      <3>1. PICK f \in call[c].uncached :
               /\ cacheFriends' \in {[cacheFriends EXCEPT ![call[c].user] = @ \cup {f}],
                                     cacheFriends}
               /\ call' = [call EXCEPT ![c].uncached = @ \ {f}]
        BY <1>5, <2>4 DEF FillCachedList
      <3>2. GoodCall([call[c] EXCEPT !.uncached = @ \ {f}])
        BY <1>0, <2>1 DEF GoodCall, Call
      <3>3. call' \in [Calls -> Call] /\ \A d \in Calls : GoodCall(call'[d])
        BY <3>1, <3>2, SetCall
      <3>4. cacheFriends' \in [Users -> SUBSET Users]
        BY <2>1, <3>1 DEF Types
      <3>. QED  BY <1>5, <3>3, <3>4 DEF FillCachedList, Types
    <2>. QED  BY <2>3, <2>4
  <1>6. ASSUME GetFriendStatus(c)
        PROVE  Types'
    <2>. DEFINE hit(f) == [call[c] EXCEPT !.todo = @ \ {f}]
                miss(f) == [call[c] EXCEPT !.todo = @ \ {f}, !.other = f, !.pc = "repairRead"]
    <2>1. call[c].user \in Users /\ call[c].todo \subseteq Users
      BY <1>0, <1>6 DEF GoodCall, Call, GetFriendStatus
    <2>2. ASSUME NEW f \in Users
          PROVE  GoodCall(hit(f)) /\ GoodCall(miss(f))
      <3>1. GoodCall(hit(f))
        BY <1>0, <2>1 DEF GoodCall, Call
      <3>2. miss(f) \in Call
        BY <1>0, <2>1 DEF GoodCall, Call, Steps, PairSteps
      <3>3. GoodCall(miss(f))
        BY <1>0, <2>1, <3>2 DEF GoodCall, Call, EntrySteps, WritingSteps
      <3>. QED  BY <3>1, <3>3
    <2>3. \/ call' = [call EXCEPT ![c] = Idle]
          \/ \E f \in Users : \/ call' = [call EXCEPT ![c] = hit(f)]
                              \/ call' = [call EXCEPT ![c] = miss(f)]
      <3>1. CASE call[c].todo = {}
        BY <1>6, <3>1 DEF GetFriendStatus
      <3>2. CASE call[c].todo # {}
        <4>1. PICK f \in call[c].todo :
                \/ call' = [call EXCEPT ![c].todo = @ \ {f}]
                \/ call' = [call EXCEPT ![c].todo = @ \ {f}, ![c].other = f,
                                        ![c].pc = "repairRead"]
          BY <1>6, <3>2 DEF GetFriendStatus
        <4>2. call' \in {[call EXCEPT ![c] = hit(f)], [call EXCEPT ![c] = miss(f)]}
          BY <1>0, <4>1 DEF Call
        <4>. QED  BY <2>1, <4>2
      <3>. QED  BY <3>1, <3>2
    <2>. HIDE DEF hit, miss
    <2>. QED  BY <1>6, <2>2, <2>3, IdleIsGood, OnlyCallType DEF GetFriendStatus
  <1>7. ASSUME RepairRead(c)
        PROVE  Types'
    <2>. DEFINE e == [status |-> row[call[c].other].status, token |-> NoToken]
                next == [call EXCEPT ![c].pc = "repairStatus", ![c].entry = e]
                missing == [call[c] EXCEPT !.pc = "nextFriend", !.other = None]
    <2>1. call[c].user \in Users /\ call[c].other \in Users
      BY <1>0, <1>7 DEF GoodCall, PairSteps, RepairRead
    <2>2. CASE row[call[c].other] # NoEntry /\ Disturb(call[c].other, next)
      <3>1. e \in Entry
        BY <2>1, <2>2 DEF Types, Entry
      <3>2. next \in [Calls -> Call] /\ \A d \in Calls : GoodCall(next[d])
        <4>. HIDE DEF e
        <4>1. e \in [status : Statuses \cup {None}, token : Tokens \cup {NoToken, None}]
          BY <3>1 DEF Entry
        <4>2. GoodCall([call[c] EXCEPT !.pc = "repairStatus", !.entry = e])
          <5>. DEFINE r == [call[c] EXCEPT !.pc = "repairStatus", !.entry = e]
          <5>1. call[c] \in Call
            BY <1>0 DEF GoodCall
          <5>2. r \in Call
            BY <4>1, <5>1 DEF Call, Steps, PairSteps
          <5>3. /\ r.pc = "repairStatus" /\ r.entry = e
                /\ r.user = call[c].user /\ r.other = call[c].other
            BY <5>1 DEF Call
          <5>. HIDE DEF r
          <5>4. GoodCall(r)
            BY <2>1, <3>1, <5>2, <5>3 DEF GoodCall
          <5>. QED  BY <5>4 DEF r
        <4>. QED  BY <4>2 DEF Types, GoodCall
      <3>. HIDE DEF next
      <3>. QED  BY <1>7, <2>1, <2>2, <3>2, DisturbFacts DEF Types, RepairRead
    <2>3. CASE call' = [call EXCEPT ![c] = missing] /\ UNCHANGED disturbed
      <3>1. GoodCall(missing)
        <4>1. call[c] \in Call
          BY <1>0 DEF GoodCall
        <4>2. missing \in Call /\ missing.pc = "nextFriend" /\ missing.user = call[c].user
          BY <4>1 DEF Call, Steps
        <4>. HIDE DEF missing
        <4>. QED  BY <2>1, <4>2, WalkIsGood
      <3>. HIDE DEF missing
      <3>. QED  BY <1>7, <2>3, <3>1, OnlyCallType DEF RepairRead
    <2>. QED  BY <1>0, <1>7, <2>2, <2>3 DEF RepairRead, Call
  <1>8. ASSUME RepairStatus(c)
        PROVE  Types'
    <2>1. call[c].user \in Users /\ call[c].other \in Users /\ call[c].entry \in Entry
      BY <1>0, <1>8 DEF GoodCall, PairSteps, EntrySteps, RepairStatus
    <2>2. GoodCall([call[c] EXCEPT !.pc = "repairToken"])
      BY <1>0, <2>1 DEF GoodCall, Call, Steps, PairSteps, EntrySteps, WritingSteps
    <2>. QED  BY <1>8, <2>1, <2>2, SetFieldType DEF RepairStatus, Entry
  <1>9. ASSUME RepairToken(c)
        PROVE  Types'
    <2>1. call[c].user \in Users /\ call[c].other \in Users
      BY <1>0, <1>9 DEF GoodCall, PairSteps, RepairToken
    <2>2. GoodCall([call[c] EXCEPT !.pc = "repaired"])
      BY <1>0, <2>1 DEF GoodCall, Call, Steps, PairSteps, EntrySteps, WritingSteps
    <2>. QED  BY <1>9, <2>1, <2>2, SetFieldType DEF RepairToken
  <1>10. ASSUME FinishRepair(c)
         PROVE  Types'
    <2>. DEFINE r == [call[c] EXCEPT !.pc = "nextFriend", !.other = None, !.entry = NoEntry]
    <2>1. call[c].user \in Users
      BY <1>0, <1>10 DEF GoodCall, FinishRepair
    <2>2. GoodCall(r)
      <3>1. call[c] \in Call
        BY <1>0 DEF GoodCall
      <3>2. r \in Call /\ r.pc = "nextFriend" /\ r.user = call[c].user
        BY <3>1 DEF Call, Steps, NoEntry
      <3>. HIDE DEF r
      <3>. QED  BY <2>1, <3>2, WalkIsGood
    <2>3. call' = [call EXCEPT ![c] = r]
      BY <1>0, <1>10 DEF FinishRepair, Call
    <2>. HIDE DEF r
    <2>. QED  BY <1>10, <2>2, <2>3, OnlyCallType DEF FinishRepair
  <1>. QED
    BY <1>1, <1>2, <1>3, <1>4, <1>5, <1>6, <1>7, <1>8, <1>9, <1>10 DEF GetFriendsStep

\* A flushed cache keeps the types.
LEMMA FlushType ==
    ASSUME Types, RedisFlush
    PROVE  Types'
  <1>1. NoEntry \in [status : Statuses \cup {None}, token : Tokens \cup {NoToken, None}]
    BY DEF NoEntry
  <1>2. cache' \in [Users -> [status : Statuses \cup {None}, token : Tokens \cup {NoToken, None}]]
    BY <1>1 DEF RedisFlush
  <1>3. \A d \in Calls : GoodCall(call'[d])
    BY UncleanIsGood DEF Types, RedisFlush
  <1>4. call' \in [Calls -> Call]
    BY <1>3 DEF RedisFlush, GoodCall
  <1>. QED  BY <1>2, <1>3, <1>4 DEF Types, RedisFlush

\* The types hold at the start.
LEMMA TypesAtStart == Init => Types
  <1>1. NoEntry \in [status : Statuses \cup {None}, token : Tokens \cup {NoToken, None}]
    BY DEF NoEntry
  <1>. QED  BY <1>1, IdleIsGood DEF Init, Types, GoodCall

\* Every step keeps the types.
LEMMA TypesStep == Types /\ [Next]_vars => Types'
  <1>. SUFFICES ASSUME Types, [Next]_vars
                PROVE  Types'
    OBVIOUS
  <1>1. CASE UNCHANGED vars
    BY <1>1 DEF Types, vars
  <1>2. CASE Next
    BY <1>2, UpdateType, GetStatusType, GetFriendsType, AddFriendType, FlushType DEF Next
  <1>. QED  BY <1>1, <1>2

\* The types imply the type invariant that the runs check.
LEMMA TypesSuffice == Types => TypeOK
  BY DEF Types, GoodCall, Call, TypeOK

\* Rows, hashes, lists and calls keep their types: in particular only
\* accounts have friends, and GetUserStatus answers nothing but a status,
\* also from a hash that has no status field.
THEOREM TypeCorrect == Spec => []TypeOK
  <1>. QED  BY TypesAtStart, TypesStep, TypesSuffice, PTL DEF Spec

-----------------------------------------------------------------------------
(* Friendships *)

\* The friends that a call is about to cache were read from the table.
UncachedAreFriends ==
    \A c \in Calls : call[c].pc \in {"dropList", "fillList"} =>
        \A f \in call[c].uncached : <<call[c].user, f>> \in friends

\* Between the two inserts of AddFriend the first pair is there.
FirstDirectionIsThere ==
    \A c \in Calls :
        call[c].pc = "insertTwo" /\ {call[c].user, call[c].other} \subseteq Accounts =>
            <<call[c].user, call[c].other>> \in friends

FriendInv ==
    /\ CachedFriendsAreFriends
    /\ UncachedAreFriends
    /\ FirstDirectionIsThere
    /\ AddedFriendsAreMutual
    /\ OneSidedFriendshipWasHalved

IInv == Types /\ FriendInv

\* The call d is at the same step, about the same users.
SameView(d) ==
    /\ call'[d].pc = call[d].pc
    /\ call'[d].user = call[d].user
    /\ call'[d].other = call[d].other
    /\ call'[d].uncached = call[d].uncached

\* A step of the call c that has nothing to do with friendships.
QuietStep(c) ==
    /\ UNCHANGED <<friends, cacheFriends, halved>>
    /\ \A d \in Calls \ {c} : SameView(d)
    /\ call[c].pc # "insertTwo"
    /\ call'[c].pc \notin {"dropList", "fillList", "insertTwo", "added"}

\* Such a step keeps what is known of friendships.
LEMMA QuietKeeps ==
    ASSUME FriendInv, NEW c \in Calls, QuietStep(c)
    PROVE  FriendInv'
  <1>. USE DEF FriendInv, QuietStep, SameView
  <1>1. CachedFriendsAreFriends'
    BY DEF CachedFriendsAreFriends
  <1>2. UncachedAreFriends'
    BY DEF UncachedAreFriends
  <1>3. FirstDirectionIsThere'
    BY DEF FirstDirectionIsThere
  <1>4. AddedFriendsAreMutual'
    BY DEF AddedFriendsAreMutual
  <1>5. OneSidedFriendshipWasHalved'
    BY DEF OneSidedFriendshipWasHalved
  <1>. QED  BY <1>1, <1>2, <1>3, <1>4, <1>5

\* Disturb only takes the cleanness of calls.
LEMMA DisturbView ==
    ASSUME NEW u, NEW c \in Calls, NEW next, Disturb(u, next), Types,
           \A d \in Calls \ {c} : next[d] = call[d],
           NEW r \in Call, next[c] = r
    PROVE  /\ \A d \in Calls \ {c} : SameView(d)
           /\ call'[c].pc = r.pc
  <1>1. \A d \in Calls : call'[d] = IF WritesTo(d, u) THEN [next[d] EXCEPT !.clean = FALSE]
                                                       ELSE next[d]
    BY DEF Disturb
  <1>2. \A d \in Calls : next[d] \in Call
    BY DEF Types
  <1>3. ASSUME NEW d \in Calls
        PROVE  /\ call'[d].pc = next[d].pc
               /\ call'[d].user = next[d].user
               /\ call'[d].other = next[d].other
               /\ call'[d].uncached = next[d].uncached
    <2>1. CASE call'[d] = next[d]
      BY <2>1
    <2>2. CASE call'[d] = [next[d] EXCEPT !.clean = FALSE]
      BY <1>2, <2>2 DEF Call
    <2>. QED  BY <1>1, <2>1, <2>2
  <1>. QED  BY <1>3 DEF SameView

\* HSET has nothing to do with friendships.
LEMMA SetFieldQuiet ==
    ASSUME Types, NEW c \in Calls, NEW u, NEW field, NEW value,
           NEW pc \in Steps \ {"dropList", "fillList", "insertTwo", "added"},
           call[c].pc # "insertTwo", SetField(c, u, field, value, pc)
    PROVE  QuietStep(c)
  <1>. DEFINE r == [call[c] EXCEPT !.pc = pc]
              next == [call EXCEPT ![c] = r]
  <1>0. call[c] \in Call /\ call \in [Calls -> Call]
    BY DEF Types
  <1>1. r \in Call /\ r.pc = pc /\ call \in [Calls -> Call]
    BY <1>0 DEF Call
  <1>2. next[c] = r /\ \A d \in Calls \ {c} : next[d] = call[d]
    BY <1>1
  <1>3. CASE call' = next
    BY <1>1, <1>2, <1>3 DEF QuietStep, SameView, SetField
  <1>4. CASE Disturb(u, next)
    <2>. HIDE DEF r, next
    <2>. QED  BY <1>1, <1>2, <1>4, DisturbView DEF QuietStep, SetField
  <1>. QED  BY <1>3, <1>4 DEF SetField, Goto

\* UpdateUserStatus has nothing to do with friendships.
LEMMA UpdateQuiet ==
    ASSUME Types, NEW c \in Calls, UpdateStep(c)
    PROVE  QuietStep(c)
  <1>0. call \in [Calls -> Call] /\ Idle \in Call
    BY IdleIsGood DEF Types, GoodCall
  <1>1. ASSUME NEW u \in Reporters, NEW s \in Statuses, NEW t \in Tokens,
               StartUpdate(c, u, [status |-> s, token |-> t])
        PROVE  QuietStep(c)
    <2>. DEFINE overlaps == \E d \in Calls : WritesTo(d, u)
                r == [Started(u, s, t) EXCEPT !.clean = ~overlaps]
                next == [call EXCEPT ![c] = r]
    <2>1. r \in Call /\ r.pc = "updateDB"
      <3>. HIDE DEF overlaps
      <3>0. u \in Users
        BY UsersAssumption
      <3>1. /\ Started(u, s, t) \in Call /\ Started(u, s, t).pc = "updateDB"
            /\ Started(u, s, t).user = u /\ Started(u, s, t).other = None
            /\ Started(u, s, t).entry = [status |-> s, token |-> t]
        BY <3>0, StartedIsCall
      <3>. QED  BY <3>1 DEF Call
    <2>2. next[c] = r /\ \A d \in Calls \ {c} : next[d] = call[d]
      BY <1>0
    <2>3. call[c].pc = "idle"
      BY <1>1 DEF StartUpdate, Idle
    <2>4. UNCHANGED <<friends, cacheFriends, halved>>
      BY <1>1 DEF StartUpdate
    <2>5. Disturb(u, next) \/ call' = next
      BY <1>1 DEF StartUpdate, Started, Idle
    <2>. HIDE DEF r, next
    <2>. QED  BY <2>1, <2>2, <2>3, <2>4, <2>5, DisturbView DEF QuietStep, SameView
  <1>2. ASSUME UpdateUserStatusInDB(c)
        PROVE  QuietStep(c)
    <2>. DEFINE next == [call EXCEPT ![c].pc = "cacheStatus", ![c].ok = FALSE]
                r == [call[c] EXCEPT !.pc = "cacheStatus", !.ok = FALSE]
    <2>1. r \in Call /\ r.pc = "cacheStatus"
      BY <1>0 DEF Call, Steps, WritingSteps
    <2>2. next[c] = r /\ \A d \in Calls \ {c} : next[d] = call[d]
      BY <1>0 DEF Call
    <2>3. CASE Goto(c, "cacheStatus")
      BY <1>0, <1>2, <2>3 DEF UpdateUserStatusInDB, Goto, QuietStep, SameView, Call
    <2>4. CASE Disturb(call[c].user, next)
      <3>1. call[c].pc # "insertTwo" /\ UNCHANGED <<friends, cacheFriends, halved>>
        BY <1>2 DEF UpdateUserStatusInDB
      <3>. HIDE DEF r, next
      <3>. QED  BY <2>1, <2>2, <2>4, <3>1, DisturbView DEF QuietStep
    <2>. QED  BY <1>2, <2>3, <2>4 DEF UpdateUserStatusInDB
  <1>3. CASE CacheStatus(c)
    BY <1>3, SetFieldQuiet DEF CacheStatus, Steps, WritingSteps
  <1>4. CASE CacheToken(c)
    <2>1. CASE call[c].ok
      BY <1>4, <2>1, SetFieldQuiet DEF CacheToken, Steps, WritingSteps
    <2>2. CASE ~call[c].ok
      BY <1>4, <2>2, SetFieldQuiet DEF CacheToken, Steps, WritingSteps
    <2>. QED  BY <2>1, <2>2
  <1>5. CASE GateCacheStatus(c)
    BY <1>5, SetFieldQuiet DEF GateCacheStatus, Steps, WritingSteps
  <1>6. CASE FinishUpdate(c)
    BY <1>0, <1>6 DEF FinishUpdate, QuietStep, SameView, Idle
  <1>. QED  BY <1>1, <1>2, <1>3, <1>4, <1>5, <1>6 DEF UpdateStep

\* Nor has GetUserStatus.
LEMMA GetStatusQuiet ==
    ASSUME Types, NEW c \in Calls, GetStatusStep(c)
    PROVE  QuietStep(c)
  <1>. USE DEF QuietStep, SameView, Idle
  <1>0. call \in [Calls -> Call]
    BY DEF Types
  <1>1. ASSUME NEW u \in Reporters, StartGetStatus(c, u)
        PROVE  QuietStep(c)
    BY <1>0, <1>1 DEF StartGetStatus
  <1>2. CASE GetStatusFromCache(c)
    BY <1>0, <1>2 DEF GetStatusFromCache, Goto, Call
  <1>3. CASE GetStatusFromDB(c)
    BY <1>0, <1>3 DEF GetStatusFromDB, Call
  <1>4. CASE FinishGetStatus(c)
    BY <1>0, <1>4 DEF FinishGetStatus
  <1>. QED  BY <1>1, <1>2, <1>3, <1>4 DEF GetStatusStep

\* GetFriendsStatus reads friendships from the table and caches no others.
LEMMA GetFriendsKeeps ==
    ASSUME Types, FriendInv, NEW c \in Calls, GetFriendsStep(c)
    PROVE  FriendInv'
  <1>0. GoodCall(call[c]) /\ call \in [Calls -> Call]
    BY DEF Types
  <1>. DEFINE Others == \A d \in Calls \ {c} : call'[d] = call[d]
  <1>1. ASSUME NEW u \in Requesters, StartGetFriends(c, u)
        PROVE  QuietStep(c)
    BY <1>0, <1>1 DEF StartGetFriends, QuietStep, SameView, Idle
  <1>2. ASSUME GetCachedFriendsList(c)
        PROVE  QuietStep(c)
    BY <1>0, <1>2 DEF GetCachedFriendsList, Goto, QuietStep, SameView, Call
  <1>3. ASSUME QueryFriends(c)
        PROVE  FriendInv'
    <2>1. UNCHANGED <<friends, cacheFriends, halved>>
      BY <1>3 DEF QueryFriends
    <2>2. PICK list \in {FriendsOf(call[c].user), {}} :
             call' = [call EXCEPT ![c].pc = "dropList", ![c].todo = list, ![c].uncached = list]
      BY <1>3 DEF QueryFriends
    <2>3. /\ call'[c].pc = "dropList" /\ call'[c].user = call[c].user
          /\ call'[c].uncached = list /\ Others
      BY <1>0, <2>2 DEF Call
    <2>4. \A f \in list : <<call[c].user, f>> \in friends
      BY <2>2 DEF FriendsOf
    <2>5. call[c].pc = "queryFriends"
      BY <1>3 DEF QueryFriends
    <2>6. UncachedAreFriends'
      BY <2>1, <2>3, <2>4 DEF FriendInv, UncachedAreFriends
    <2>7. CachedFriendsAreFriends'
      BY <2>1 DEF FriendInv, CachedFriendsAreFriends
    <2>8. FirstDirectionIsThere' /\ AddedFriendsAreMutual'
      BY <2>1, <2>3 DEF FriendInv, FirstDirectionIsThere, AddedFriendsAreMutual
    <2>9. OneSidedFriendshipWasHalved'
      BY <2>1, <2>3, <2>5 DEF FriendInv, OneSidedFriendshipWasHalved
    <2>. QED  BY <2>6, <2>7, <2>8, <2>9 DEF FriendInv
  <1>4. ASSUME DropCachedList(c)
        PROVE  FriendInv'
    <2>1. UNCHANGED <<friends, halved>> /\ call[c].pc = "dropList"
      BY <1>4 DEF DropCachedList
    <2>2. /\ call'[c].pc = "fillList" /\ call'[c].user = call[c].user
          /\ call'[c].uncached = call[c].uncached /\ Others
      BY <1>0, <1>4 DEF DropCachedList, Call
    <2>3. \A u \in Users : cacheFriends'[u] \subseteq cacheFriends[u]
      BY <1>4 DEF DropCachedList, Types
    <2>4. UncachedAreFriends'
      BY <2>1, <2>2 DEF FriendInv, UncachedAreFriends
    <2>5. CachedFriendsAreFriends'
      BY <2>1, <2>3 DEF FriendInv, CachedFriendsAreFriends
    <2>6. FirstDirectionIsThere' /\ AddedFriendsAreMutual'
      BY <2>1, <2>2 DEF FriendInv, FirstDirectionIsThere, AddedFriendsAreMutual
    <2>7. OneSidedFriendshipWasHalved'
      BY <2>1, <2>2 DEF FriendInv, OneSidedFriendshipWasHalved
    <2>. QED  BY <2>4, <2>5, <2>6, <2>7 DEF FriendInv
  <1>5. ASSUME FillCachedList(c)
        PROVE  FriendInv'
    <2>1. UNCHANGED <<friends, halved>> /\ call[c].pc = "fillList"
      BY <1>5 DEF FillCachedList
    <2>2. CASE call[c].uncached = {}
      <3>1. QuietStep(c)
        BY <1>0, <1>5, <2>2 DEF FillCachedList, Goto, QuietStep, SameView, Call
      <3>. QED  BY <3>1, QuietKeeps
    <2>3. CASE call[c].uncached # {}
      <3>1. PICK f \in call[c].uncached :
               /\ cacheFriends' \in {[cacheFriends EXCEPT ![call[c].user] = @ \cup {f}],
                                     cacheFriends}
               /\ call' = [call EXCEPT ![c].uncached = @ \ {f}]
        BY <1>5, <2>3 DEF FillCachedList
      <3>2. /\ call'[c].pc = "fillList" /\ call'[c].user = call[c].user
            /\ call'[c].uncached \subseteq call[c].uncached /\ Others
        BY <1>0, <2>1, <3>1 DEF Call
      <3>3. <<call[c].user, f>> \in friends
        BY <2>1, <3>1 DEF FriendInv, UncachedAreFriends
      <3>4. UncachedAreFriends'
        BY <2>1, <3>2 DEF FriendInv, UncachedAreFriends
      <3>5. CachedFriendsAreFriends'
        <4>1. \A u \in Users : cacheFriends'[u] \subseteq
                  cacheFriends[u] \cup {g \in {f} : u = call[c].user}
          BY <3>1 DEF Types
        <4>. QED  BY <2>1, <3>3, <4>1 DEF FriendInv, CachedFriendsAreFriends
      <3>6. FirstDirectionIsThere' /\ AddedFriendsAreMutual'
        BY <2>1, <3>2 DEF FriendInv, FirstDirectionIsThere, AddedFriendsAreMutual
      <3>7. OneSidedFriendshipWasHalved'
        BY <2>1, <3>2 DEF FriendInv, OneSidedFriendshipWasHalved
      <3>. QED  BY <3>4, <3>5, <3>6, <3>7 DEF FriendInv
    <2>. QED  BY <2>2, <2>3
  <1>6. ASSUME GetFriendStatus(c)
        PROVE  QuietStep(c)
    <2>1. call[c].pc = "nextFriend" /\ UNCHANGED <<friends, cacheFriends, halved>>
      BY <1>6 DEF GetFriendStatus
    <2>2. CASE call' = [call EXCEPT ![c] = Idle]
      BY <1>0, <2>1, <2>2 DEF QuietStep, SameView, Idle
    <2>3. CASE \E f : call' = [call EXCEPT ![c].todo = @ \ {f}]
      BY <1>0, <2>1, <2>3 DEF QuietStep, SameView, Call
    <2>4. CASE \E f : call' = [call EXCEPT ![c].todo = @ \ {f}, ![c].other = f,
                                          ![c].pc = "repairRead"]
      BY <1>0, <2>1, <2>4 DEF QuietStep, SameView, Call
    <2>. QED  BY <1>6, <2>2, <2>3, <2>4 DEF GetFriendStatus
  <1>7. ASSUME RepairRead(c)
        PROVE  QuietStep(c)
    <2>. DEFINE e == [status |-> row[call[c].other].status, token |-> NoToken]
                next == [call EXCEPT ![c].pc = "repairStatus", ![c].entry = e]
                r == [call[c] EXCEPT !.pc = "repairStatus", !.entry = e]
    <2>1. call[c].pc = "repairRead" /\ UNCHANGED <<friends, cacheFriends, halved>>
      BY <1>7 DEF RepairRead
    <2>2. CASE row[call[c].other] # NoEntry /\ Disturb(call[c].other, next)
      <3>1. call[c].other \in Users
        BY <1>0, <2>1 DEF GoodCall, PairSteps
      <3>2. e \in [status : Statuses \cup {None}, token : Tokens \cup {NoToken, None}]
        BY <2>2, <3>1 DEF Types, Entry
      <3>3. r \in Call /\ r.pc = "repairStatus" /\ next[c] = r
            /\ \A d \in Calls \ {c} : next[d] = call[d]
        <4>. HIDE DEF e
        <4>1. r \in Call /\ r.pc = "repairStatus"
          BY <1>0, <3>2 DEF GoodCall, Call, Steps, WritingSteps
        <4>2. next[c] = r /\ \A d \in Calls \ {c} : next[d] = call[d]
          BY <1>0
        <4>. QED  BY <4>1, <4>2
      <3>4. Disturb(call[c].other, next)
        BY <2>2
      <3>. HIDE DEF r, next
      <3>. QED  BY <2>1, <3>3, <3>4, DisturbView DEF QuietStep
    <2>3. CASE call' = [call EXCEPT ![c].pc = "nextFriend", ![c].other = None]
      BY <1>0, <2>1, <2>3 DEF QuietStep, SameView, Call
    <2>. QED  BY <1>7, <2>2, <2>3 DEF RepairRead
  <1>8. ASSUME RepairStatus(c)
        PROVE  QuietStep(c)
    BY <1>8, SetFieldQuiet DEF RepairStatus, Steps, WritingSteps
  <1>9. ASSUME RepairToken(c)
        PROVE  QuietStep(c)
    BY <1>9, SetFieldQuiet DEF RepairToken, Steps, WritingSteps
  <1>10. ASSUME FinishRepair(c)
         PROVE  QuietStep(c)
    BY <1>0, <1>10 DEF FinishRepair, QuietStep, SameView, Call
  <1>. QED
    BY <1>1, <1>2, <1>3, <1>4, <1>5, <1>6, <1>7, <1>8, <1>9, <1>10, QuietKeeps
    DEF GetFriendsStep

\* AddFriend inserts one direction, then the other, or records that it stopped.
LEMMA AddFriendKeeps ==
    ASSUME Types, FriendInv, NEW c \in Calls, AddFriendStep(c)
    PROVE  FriendInv'
  <1>0. GoodCall(call[c]) /\ call \in [Calls -> Call]
    BY DEF Types
  <1>. DEFINE me == call[c].user
              friend == call[c].other
              Others == \A d \in Calls \ {c} : call'[d] = call[d]
              At(pc) == call'[c].pc = pc /\ call'[c].user = me /\ call'[c].other = friend
  <1>1. ASSUME NEW u, NEW f, StartAddFriend(c, u, f)
        PROVE  QuietStep(c)
    BY <1>0, <1>1 DEF StartAddFriend, QuietStep, SameView, Idle
  <1>2. ASSUME FriendExistsInDB(c)
        PROVE  QuietStep(c)
    BY <1>0, <1>2 DEF FriendExistsInDB, Goto, QuietStep, SameView, Idle, Call
  <1>6. ASSUME call' = [call EXCEPT ![c] = Idle], UNCHANGED cacheFriends,
               halved' = halved \cup {<<me, friend>>},
               friends \subseteq friends',
               \A u, f \in Users : <<u, f>> \in friends' /\ <<f, u>> \notin friends' =>
                 <<u, f>> \in friends \/ (u = me /\ f = friend)
        PROVE  FriendInv'
    <2>1. Others /\ call'[c].pc = "idle"
      BY <1>0, <1>6 DEF Idle
    <2>2. CachedFriendsAreFriends'
      BY <1>6 DEF FriendInv, CachedFriendsAreFriends
    <2>3. UncachedAreFriends'
      BY <1>6, <2>1 DEF FriendInv, UncachedAreFriends
    <2>4. FirstDirectionIsThere' /\ AddedFriendsAreMutual'
      BY <1>6, <2>1 DEF FriendInv, FirstDirectionIsThere, AddedFriendsAreMutual
    <2>5. OneSidedFriendshipWasHalved'
      <3>1. SUFFICES ASSUME NEW u \in Users, NEW f \in Users,
                            <<u, f>> \in friends', <<f, u>> \notin friends',
                            ~(u = me /\ f = friend)
                     PROVE  \/ <<u, f>> \in halved'
                            \/ \E d \in Calls : /\ call'[d].pc = "insertTwo"
                                                /\ call'[d].user = u /\ call'[d].other = f
        BY <1>6 DEF OneSidedFriendshipWasHalved
      <3>2. <<u, f>> \in friends /\ <<f, u>> \notin friends
        BY <1>6, <3>1
      <3>3. \/ <<u, f>> \in halved
            \/ \E d \in Calls \ {c} : /\ call[d].pc = "insertTwo"
                                      /\ call[d].user = u /\ call[d].other = f
        BY <3>1, <3>2 DEF FriendInv, OneSidedFriendshipWasHalved
      <3>. QED  BY <1>6, <2>1, <3>3
    <2>. QED  BY <2>2, <2>3, <2>4, <2>5 DEF FriendInv
  <1>3. ASSUME AddFirstDirection(c)
        PROVE  FriendInv'
    <2>1. UNCHANGED cacheFriends /\ call[c].pc = "insertOne"
      BY <1>3 DEF AddFirstDirection
    <2>4. CASE /\ InsertFriend(me, friend)
               /\ call' = [call EXCEPT ![c] = Idle]
               /\ halved' = halved \cup {<<me, friend>>}
      <3>1. friends \subseteq friends' /\ friends' \subseteq friends \cup {<<me, friend>>}
        BY <2>4 DEF InsertFriend
      <3>. HIDE DEF me, friend
      <3>2. \A u, f \in Users : <<u, f>> \in friends' =>
              <<u, f>> \in friends \/ (u = me /\ f = friend)
        BY <3>1
      <3>. QED  BY <1>6, <2>1, <2>4, <3>1, <3>2
    <2>2. CASE UNCHANGED <<friends, halved>> /\ call' = [call EXCEPT ![c] = Idle]
      <3>1. QuietStep(c)
        BY <1>0, <2>1, <2>2 DEF QuietStep, SameView, Idle
      <3>. QED  BY <3>1, QuietKeeps
    <2>3. CASE InsertFriend(me, friend) /\ Goto(c, "insertTwo") /\ UNCHANGED halved
      <3>1. Others /\ At("insertTwo")
        BY <1>0, <2>3 DEF Goto, Call
      <3>2. /\ friends \subseteq friends' /\ friends' \subseteq friends \cup {<<me, friend>>}
            /\ {me, friend} \subseteq Accounts => <<me, friend>> \in friends'
        BY <2>3 DEF InsertFriend
      <3>. HIDE DEF me, friend
      <3>3. CachedFriendsAreFriends'
        BY <2>1, <3>2 DEF FriendInv, CachedFriendsAreFriends
      <3>4. UncachedAreFriends'
        BY <3>1, <3>2 DEF FriendInv, UncachedAreFriends
      <3>5. FirstDirectionIsThere'
        BY <3>1, <3>2 DEF FriendInv, FirstDirectionIsThere
      <3>6. AddedFriendsAreMutual'
        BY <3>1, <3>2 DEF FriendInv, AddedFriendsAreMutual
      <3>7. OneSidedFriendshipWasHalved'
        <4>1. SUFFICES ASSUME NEW u \in Users, NEW f \in Users,
                              <<u, f>> \in friends', <<f, u>> \notin friends'
                       PROVE  \/ <<u, f>> \in halved'
                              \/ \E d \in Calls : /\ call'[d].pc = "insertTwo"
                                                  /\ call'[d].user = u /\ call'[d].other = f
          BY DEF OneSidedFriendshipWasHalved
        <4>2. CASE <<u, f>> \in friends
          BY <2>1, <2>3, <3>1, <3>2, <4>1, <4>2 DEF FriendInv, OneSidedFriendshipWasHalved
        <4>3. CASE u = me /\ f = friend
          BY <3>1, <4>3
        <4>. QED  BY <3>2, <4>1, <4>2, <4>3
      <3>. QED  BY <3>3, <3>4, <3>5, <3>6, <3>7 DEF FriendInv
    <2>. QED  BY <1>3, <2>2, <2>3, <2>4 DEF AddFirstDirection
  <1>4. ASSUME AddSecondDirection(c)
        PROVE  FriendInv'
    <2>1. UNCHANGED cacheFriends /\ call[c].pc = "insertTwo"
      BY <1>4 DEF AddSecondDirection
    <2>2. CASE InsertFriend(friend, me) /\ Goto(c, "added") /\ UNCHANGED halved
      <3>1. Others /\ At("added")
        BY <1>0, <2>2 DEF Goto, Call
      <3>2. /\ friends \subseteq friends' /\ friends' \subseteq friends \cup {<<friend, me>>}
            /\ {me, friend} \subseteq Accounts =>
                   {<<me, friend>>, <<friend, me>>} \subseteq friends'
        BY <2>1, <2>2 DEF InsertFriend, FriendInv, FirstDirectionIsThere
      <3>3. friends \subseteq Accounts \X Accounts /\ friends' \subseteq Accounts \X Accounts
        BY <2>2 DEF Types, InsertFriend
      <3>. HIDE DEF me, friend
      <3>4. CachedFriendsAreFriends'
        BY <2>1, <3>2 DEF FriendInv, CachedFriendsAreFriends
      <3>5. UncachedAreFriends'
        BY <3>1, <3>2 DEF FriendInv, UncachedAreFriends
      <3>6. FirstDirectionIsThere'
        BY <3>1, <3>2 DEF FriendInv, FirstDirectionIsThere
      <3>7. AddedFriendsAreMutual'
        BY <3>1, <3>2 DEF FriendInv, AddedFriendsAreMutual
      <3>8. OneSidedFriendshipWasHalved'
        <4>1. SUFFICES ASSUME NEW u \in Users, NEW f \in Users,
                              <<u, f>> \in friends', <<f, u>> \notin friends'
                       PROVE  \/ <<u, f>> \in halved'
                              \/ \E d \in Calls : /\ call'[d].pc = "insertTwo"
                                                  /\ call'[d].user = u /\ call'[d].other = f
          BY DEF OneSidedFriendshipWasHalved
        <4>2. {u, f} \subseteq Accounts
          BY <3>3, <4>1
        <4>3. ~(u = me /\ f = friend) /\ ~(u = friend /\ f = me)
          BY <3>2, <4>1, <4>2
        <4>4. <<u, f>> \in friends /\ <<f, u>> \notin friends
          BY <3>2, <4>1, <4>3
        <4>5. \/ <<u, f>> \in halved
              \/ \E d \in Calls : /\ call[d].pc = "insertTwo"
                                  /\ call[d].user = u /\ call[d].other = f
          BY <4>4 DEF FriendInv, OneSidedFriendshipWasHalved
        <4>. QED  BY <2>2, <3>1, <4>3, <4>5 DEF me, friend
      <3>. QED  BY <3>4, <3>5, <3>6, <3>7, <3>8 DEF FriendInv
    <2>3. CASE /\ call' = [call EXCEPT ![c] = Idle]
               /\ halved' = halved \cup {<<me, friend>>}
               /\ InsertFriend(friend, me) \/ UNCHANGED friends
      <3>1. /\ friends \subseteq friends' /\ friends' \subseteq friends \cup {<<friend, me>>}
            /\ <<friend, me>> \in friends' \ friends => <<me, friend>> \in friends'
        BY <2>1, <2>3 DEF InsertFriend, FriendInv, FirstDirectionIsThere
      <3>. HIDE DEF me, friend
      <3>2. \A u, f \in Users : <<u, f>> \in friends' /\ <<f, u>> \notin friends' =>
              <<u, f>> \in friends
        BY <3>1
      <3>. QED  BY <1>6, <2>1, <2>3, <3>1, <3>2
    <2>. QED  BY <1>4, <2>2, <2>3 DEF AddSecondDirection
  <1>5. ASSUME FinishAddFriend(c)
        PROVE  QuietStep(c)
    BY <1>0, <1>5 DEF FinishAddFriend, QuietStep, SameView, Idle
  <1>. QED  BY <1>1, <1>2, <1>3, <1>4, <1>5, QuietKeeps DEF AddFriendStep

\* A flushed cache names nobody, so also no stranger.
LEMMA FlushKeeps ==
    ASSUME Types, FriendInv, RedisFlush
    PROVE  FriendInv'
  <1>1. UNCHANGED <<friends, halved>> /\ \A u \in Users : cacheFriends'[u] = {}
    BY DEF RedisFlush
  <1>2. \A d \in Calls : SameView(d)
    BY UncleanIsGood DEF Types, RedisFlush, SameView
  <1>3. CachedFriendsAreFriends'
    BY <1>1 DEF CachedFriendsAreFriends
  <1>4. UncachedAreFriends'
    BY <1>1, <1>2 DEF FriendInv, UncachedAreFriends, SameView
  <1>5. FirstDirectionIsThere' /\ AddedFriendsAreMutual'
    BY <1>1, <1>2 DEF FriendInv, FirstDirectionIsThere, AddedFriendsAreMutual, SameView
  <1>6. OneSidedFriendshipWasHalved'
    BY <1>1, <1>2 DEF FriendInv, OneSidedFriendshipWasHalved, SameView
  <1>. QED  BY <1>3, <1>4, <1>5, <1>6 DEF FriendInv

\* The invariant holds of nobody's friends at the start.
LEMMA InvAtStart == Init => IInv
  <1>. SUFFICES ASSUME Init PROVE IInv
    OBVIOUS
  <1>1. \A c \in Calls : call[c].pc = "idle"
    BY DEF Init, Idle
  <1>2. FriendInv
    BY <1>1 DEF Init, FriendInv, CachedFriendsAreFriends, UncachedAreFriends,
                FirstDirectionIsThere, AddedFriendsAreMutual, OneSidedFriendshipWasHalved
  <1>. QED  BY <1>2, TypesAtStart DEF IInv

\* Every step keeps the invariant.
LEMMA InvStep == IInv /\ [Next]_vars => IInv'
  <1>. SUFFICES ASSUME Types, FriendInv, [Next]_vars
                PROVE  IInv'
    BY DEF IInv
  <1>1. Types'
    BY TypesStep
  <1>2. CASE UNCHANGED vars
    BY <1>1, <1>2
    DEF IInv, FriendInv, CachedFriendsAreFriends, UncachedAreFriends,
        FirstDirectionIsThere, AddedFriendsAreMutual, OneSidedFriendshipWasHalved, vars
  <1>3. CASE Next
    <2>1. ASSUME NEW c \in Calls, UpdateStep(c) \/ GetStatusStep(c)
          PROVE  FriendInv'
      BY <2>1, UpdateQuiet, GetStatusQuiet, QuietKeeps
    <2>2. ASSUME NEW c \in Calls, GetFriendsStep(c) \/ AddFriendStep(c)
          PROVE  FriendInv'
      BY <2>2, GetFriendsKeeps, AddFriendKeeps
    <2>. QED  BY <1>1, <1>3, <2>1, <2>2, FlushKeeps DEF Next, IInv
  <1>. QED  BY <1>2, <1>3

\* However the fills and drops of a cached friends list overlap, fail or are
\* flushed, it names nobody who is not a friend.
THEOREM CacheInventsNoFriend == Spec => []CachedFriendsAreFriends
  <1>1. IInv => CachedFriendsAreFriends
    BY DEF IInv, FriendInv
  <1>. QED  BY <1>1, InvAtStart, InvStep, PTL DEF Spec

\* When AddFriend answers success for two accounts, both directions are there,
\* whatever other calls for the same pair were doing.
THEOREM SuccessIsMutual == Spec => []AddedFriendsAreMutual
  <1>1. IInv => AddedFriendsAreMutual
    BY DEF IInv, FriendInv
  <1>. QED  BY <1>1, InvAtStart, InvStep, PTL DEF Spec

\* Nothing but an AddFriend between its inserts, or one that failed there,
\* makes a friendship one-sided.
THEOREM OneSidedHasOneCause == Spec => []OneSidedFriendshipWasHalved
  <1>1. IInv => OneSidedFriendshipWasHalved
    BY DEF IInv, FriendInv
  <1>. QED  BY <1>1, InvAtStart, InvStep, PTL DEF Spec

-----------------------------------------------------------------------------
(* The cache *)

\* The steps of an UpdateUserStatus, and those of a read-repair that has read
\* a row: from there on it may write.
UpdateSteps == {"updateDB", "cacheStatus", "cacheToken", "gateStatus", "updated"}
RepairSteps == {"repairStatus", "repairToken", "repaired"}

\* The call may change the row or the cache entry of u.
Writes(c, u) ==
    \/ call[c].pc \in UpdateSteps /\ call[c].user = u
    \/ call[c].pc \in RepairSteps /\ call[c].other = u

\* A clean update is the only writer of its user.
OnlyWriter ==
    \A c, d \in Calls :
        c # d /\ call[c].pc \in UpdateSteps /\ call[c].clean => ~Writes(d, call[c].user)

\* A writer that is not clean has spoilt what it writes; no repair is clean.
UncleanIsDisturbed ==
    \A c \in Calls :
        /\ call[c].pc \in UpdateSteps => call[c].other = None
        /\ call[c].pc \in RepairSteps => ~call[c].clean
        /\ \A u \in Users : Writes(c, u) /\ ~call[c].clean => u \in disturbed

\* What a clean update has written so far is still there.
Written(c) ==
    LET u == call[c].user
        e == call[c].entry
    IN  /\ call[c].pc \in UpdateSteps \ {"updateDB"} => row[u] = e
        /\ call[c].pc \in {"cacheToken", "gateStatus", "updated"} => cache[u].status = e.status
        /\ call[c].pc \in {"gateStatus", "updated"} => cache[u].token = e.token

WrittenIsThere ==
    \A c \in Calls : call[c].pc \in UpdateSteps /\ call[c].clean => Written(c)

\* The property, also while somebody is about to read for a repair.
AgreesWithoutWriter ==
    \A u \in Users \ disturbed :
        (\A c \in Calls : ~Writes(c, u)) => cache[u] \in {NoEntry, row[u]}

CacheInv == OnlyWriter /\ UncleanIsDisturbed /\ WrittenIsThere /\ AgreesWithoutWriter

\* A step of the call c that neither is nor becomes a writer.
CacheQuiet(c) ==
    /\ UNCHANGED <<row, cache, disturbed>>
    /\ \A d \in Calls \ {c} : call'[d] = call[d]
    /\ {call[c].pc, call'[c].pc} \cap (UpdateSteps \cup RepairSteps) = {}

\* Such a step keeps what is known of the cache.
LEMMA CacheQuietKeeps ==
    ASSUME CacheInv, NEW c \in Calls, CacheQuiet(c)
    PROVE  CacheInv'
  <1>. USE DEF CacheInv, CacheQuiet, Writes
  <1>0. \A d \in Calls : \A u : Writes(d, u)' <=> Writes(d, u)
    OBVIOUS
  <1>1. OnlyWriter'
    BY <1>0 DEF OnlyWriter
  <1>2. UncleanIsDisturbed'
    BY <1>0 DEF UncleanIsDisturbed
  <1>3. WrittenIsThere'
    BY <1>0 DEF WrittenIsThere, Written
  <1>4. AgreesWithoutWriter'
    <2>1. \A u \in Users \ disturbed : (\A d \in Calls : ~Writes(d, u)') =>
              cache[u] \in {NoEntry, row[u]}
      BY <1>0 DEF AgreesWithoutWriter
    <2>. QED  BY <2>1 DEF AgreesWithoutWriter
  <1>. QED  BY <1>1, <1>2, <1>3, <1>4

\* A step of the call c that takes the cleanness of every writer of u, writes
\* nothing, and leaves or makes c a writer of u that is not clean.
LEMMA DisturbKeeps ==
    ASSUME Types, CacheInv, NEW c \in Calls, NEW u \in Users, NEW r \in Call,
           NEW next, next = [call EXCEPT ![c] = r],
           Disturb(u, next), UNCHANGED <<row, cache>>,
           r.pc \in UpdateSteps => r.user = u /\ r.other = None,
           r.pc \in RepairSteps => r.other = u,
           r.pc \in UpdateSteps \cup RepairSteps,
           WritesTo(c, u) \/ ~r.clean,
           \A v : Writes(c, v) => v = u
    PROVE  CacheInv'
  <1>. USE DEF CacheInv
  <1>1. call' = [d \in Calls |-> IF WritesTo(d, u) THEN [next[d] EXCEPT !.clean = FALSE]
                                                   ELSE next[d]]
        /\ disturbed' = disturbed \cup {u}
    BY DEF Disturb
  <1>2. /\ call'[c].pc = r.pc /\ call'[c].user = r.user /\ call'[c].other = r.other
        /\ call'[c].clean = FALSE
    <2>1. next[c] = r
      BY DEF Types
    <2>. QED  BY <1>1, <2>1 DEF Call
  <1>3. ASSUME NEW d \in Calls \ {c}
        PROVE  /\ call'[d].pc = call[d].pc /\ call'[d].user = call[d].user
               /\ call'[d].other = call[d].other /\ call'[d].entry = call[d].entry
               /\ ~WritesTo(d, u) => call'[d] = call[d]
               /\ WritesTo(d, u) => call'[d].clean = FALSE
    <2>1. next[d] = call[d] /\ call[d] \in Call
      BY DEF Types
    <2>. QED  BY <1>1, <2>1 DEF Call
  <1>4. ASSUME NEW d \in Calls \ {c}, call[d].pc \in UpdateSteps, call[d].user = u
        PROVE  WritesTo(d, u)
    BY <1>4 DEF UncleanIsDisturbed, WritesTo, UpdateSteps, WritingSteps
  <1>4a. ASSUME NEW d \in Calls \ {c}, call[d].pc \in RepairSteps, call[d].other = u
         PROVE  WritesTo(d, u)
    BY <1>4a, NoneAssumption DEF WritesTo, RepairSteps, WritingSteps
  <1>5. \A d \in Calls \ {c} : \A v : Writes(d, v)' <=> Writes(d, v)
    BY <1>3 DEF Writes
  <1>6. \A v : Writes(c, v)' => v = u
    BY <1>2 DEF Writes, UpdateSteps, RepairSteps
  <1>6a. Writes(c, u)'
    BY <1>2 DEF Writes
  <1>7. ASSUME NEW d \in Calls, call'[d].pc \in UpdateSteps, call'[d].clean
        PROVE  d # c /\ call[d].pc \in UpdateSteps /\ call[d].clean /\ call[d].user # u
               /\ call'[d].user = call[d].user /\ call'[d].entry = call[d].entry
               /\ call'[d].pc = call[d].pc
    <2>1. d # c
      BY <1>2, <1>7
    <2>. QED  BY <1>3, <1>4, <1>7, <2>1
  <1>8. OnlyWriter'
    BY <1>5, <1>6, <1>7 DEF OnlyWriter
  <1>9. UncleanIsDisturbed'
    <2>1. ASSUME NEW d \in Calls \ {c}, NEW v \in Users, Writes(d, v)', ~call'[d].clean
          PROVE  v \in disturbed'
      <3>1. CASE v = u
        BY <1>1, <3>1
      <3>2. CASE v # u
        <4>1. Writes(d, v) /\ call[d] \in Call
          BY <1>5, <2>1 DEF Types
        <4>2. ~WritesTo(d, u)
          <5>1. call[d].pc \in UpdateSteps => call[d].other = None
            BY DEF UncleanIsDisturbed
          <5>. QED  BY <3>2, <4>1, <5>1, NoneAssumption DEF Writes, WritesTo, UpdateSteps, RepairSteps
        <4>3. ~call[d].clean
          BY <1>3, <2>1, <4>2
        <4>. QED  BY <1>1, <4>1, <4>3 DEF UncleanIsDisturbed
      <3>. QED  BY <3>1, <3>2
    <2>2. ASSUME NEW v \in Users, Writes(c, v)'
          PROVE  v \in disturbed'
      BY <1>1, <1>6, <2>2
    <2>3. ASSUME NEW d \in Calls
          PROVE  /\ call'[d].pc \in UpdateSteps => call'[d].other = None
                 /\ call'[d].pc \in RepairSteps => ~call'[d].clean
      <3>1. CASE d = c
        BY <1>2, <3>1
      <3>2. CASE d # c
        <4>1. /\ call[d].pc \in UpdateSteps => call[d].other = None
              /\ call[d].pc \in RepairSteps => ~call[d].clean
          BY DEF UncleanIsDisturbed
        <4>. QED  BY <1>3, <3>2, <4>1
      <3>. QED  BY <3>1, <3>2
    <2>. QED  BY <2>1, <2>2, <2>3 DEF UncleanIsDisturbed
  <1>10. WrittenIsThere'
    BY <1>7 DEF WrittenIsThere, Written
  <1>11. AgreesWithoutWriter'
    <2>1. ASSUME NEW v \in Users \ disturbed', \A d \in Calls : ~Writes(d, v)'
          PROVE  cache[v] \in {NoEntry, row[v]}
      <3>1. v # u /\ v \notin disturbed
        BY <1>1, <2>1
      <3>2. \A d \in Calls : ~Writes(d, v)
        BY <1>5, <2>1, <3>1
      <3>. QED  BY <3>1, <3>2 DEF AgreesWithoutWriter
    <2>. QED  BY <2>1 DEF AgreesWithoutWriter
  <1>. QED  BY <1>8, <1>9, <1>10, <1>11

\* HSET of one field by a writer of u, which goes on to another step as one.
LEMMA SetFieldKeeps ==
    ASSUME Types, CacheInv, NEW c \in Calls, NEW u \in Users, NEW field \in {"status", "token"},
           NEW value, NEW pc \in Steps, SetField(c, u, field, value, pc),
           Writes(c, u), \A v : Writes(c, v) => v = u,
           call[c].pc \in UpdateSteps => pc \in UpdateSteps,
           call[c].pc \in RepairSteps => pc \in RepairSteps,
           ASSUME call[c].pc \in UpdateSteps, call[c].clean,
                  cache' = [cache EXCEPT ![u][field] = value], UNCHANGED row,
                  call'[c] = [call[c] EXCEPT !.pc = pc]
           PROVE  Written(c)'
    PROVE  CacheInv'
  <1>. USE DEF CacheInv
  <1>. DEFINE r == [call[c] EXCEPT !.pc = pc]
              next == [call EXCEPT ![c] = r]
  <1>1. /\ r \in Call /\ r.pc = pc /\ r.user = call[c].user /\ r.other = call[c].other
        /\ r.clean = call[c].clean /\ r.entry = call[c].entry
        /\ call \in [Calls -> Call]
    BY DEF Types, Call
  <1>2. /\ call[c].pc \in UpdateSteps => call[c].other = None
        /\ call[c].pc \in RepairSteps => ~call[c].clean
    BY DEF UncleanIsDisturbed
  <1>3. call[c].pc \in UpdateSteps \cup RepairSteps
    BY DEF Writes
  <1>4. UpdateSteps \cap RepairSteps = {}
    BY DEF UpdateSteps, RepairSteps
  <1>5. WritesTo(c, u)
    <2>1. CASE call[c].pc \in UpdateSteps
      BY <1>2, <1>4, <2>1 DEF Writes, WritesTo, UpdateSteps, WritingSteps
    <2>2. CASE call[c].pc \in RepairSteps
      BY <1>4, <2>2, NoneAssumption DEF Writes, WritesTo, RepairSteps, WritingSteps
    <2>. QED  BY <1>3, <2>1, <2>2
  <1>6. /\ pc \in UpdateSteps => r.user = u /\ r.other = None
        /\ pc \in RepairSteps => r.other = u
        /\ pc \in UpdateSteps \cup RepairSteps
    BY <1>1, <1>2, <1>3, <1>4 DEF Writes
  <1>7. CASE Disturb(u, next) /\ UNCHANGED cache
    <2>1. UNCHANGED row
      BY DEF SetField
    <2>. HIDE DEF r, next
    <2>2. next = [call EXCEPT ![c] = r]
      BY DEF next
    <2>. QED  BY <1>1, <1>5, <1>6, <1>7, <2>1, <2>2, DisturbKeeps
  <1>8. CASE /\ cache' = [cache EXCEPT ![u][field] = value]
             /\ call' = next /\ UNCHANGED disturbed
    <2>1. UNCHANGED row /\ call'[c] = r /\ \A d \in Calls \ {c} : call'[d] = call[d]
      BY <1>1, <1>8 DEF SetField
    <2>2. \A v \in Users \ {u} : cache'[v] = cache[v]
      BY <1>8 DEF Types
    <2>. HIDE DEF r, next
    <2>3. \A d \in Calls : \A v : Writes(d, v)' <=> Writes(d, v)
      <3>1. \A d \in Calls \ {c} : \A v : Writes(d, v)' <=> Writes(d, v)
        BY <2>1 DEF Writes
      <3>2. \A v : Writes(c, v)' <=> v = u
        BY <1>1, <1>4, <1>6, <2>1 DEF Writes
      <3>3. \A v : Writes(c, v) <=> v = u
        OBVIOUS
      <3>. QED  BY <3>1, <3>2, <3>3
    <2>4. \A d \in Calls : /\ call'[d].clean = call[d].clean
                           /\ call'[d].user = call[d].user
                           /\ call'[d].other = call[d].other
                           /\ call'[d].pc \in UpdateSteps <=> call[d].pc \in UpdateSteps
                           /\ call'[d].pc \in RepairSteps <=> call[d].pc \in RepairSteps
      BY <1>1, <1>3, <1>4, <2>1
    <2>5. OnlyWriter'
      BY <2>3, <2>4 DEF OnlyWriter
    <2>6. UncleanIsDisturbed'
      BY <1>8, <2>3, <2>4 DEF UncleanIsDisturbed
    <2>7. WrittenIsThere'
      <3>1. ASSUME NEW d \in Calls, call'[d].pc \in UpdateSteps, call'[d].clean
            PROVE  Written(d)'
        <4>1. call[d].pc \in UpdateSteps /\ call[d].clean
          BY <2>4, <3>1
        <4>2. CASE d = c
          BY <1>8, <2>1, <4>1, <4>2 DEF r
        <4>3. CASE d # c
          <5>1. Written(d) /\ call'[d] = call[d]
            BY <2>1, <4>1, <4>3 DEF WrittenIsThere
          <5>2. call[d].user # u
            BY <4>1, <4>3 DEF OnlyWriter
          <5>3. cache'[call[d].user] = cache[call[d].user]
            BY <5>2, <1>8 DEF Types
          <5>. QED  BY <2>1, <5>1, <5>3 DEF Written
        <4>. QED  BY <4>2, <4>3
      <3>. QED  BY <3>1 DEF WrittenIsThere
    <2>8. AgreesWithoutWriter'
      <3>1. ASSUME NEW v \in Users \ disturbed, \A d \in Calls : ~Writes(d, v)
            PROVE  cache'[v] \in {NoEntry, row[v]}
        <4>1. v # u
          BY <3>1
        <4>. QED  BY <2>2, <3>1, <4>1 DEF AgreesWithoutWriter
      <3>. QED  BY <1>8, <2>1, <2>3, <3>1 DEF AgreesWithoutWriter
    <2>. QED  BY <2>5, <2>6, <2>7, <2>8
  <1>. QED  BY <1>1, <1>7, <1>8 DEF SetField, Goto

\* The steps of UpdateUserStatus: a clean one writes the row, then both fields.
LEMMA UpdateCache ==
    ASSUME Types, CacheInv, NEW c \in Calls, UpdateStep(c)
    PROVE  CacheInv'
  <1>0. /\ call \in [Calls -> Call] /\ GoodCall(call[c])
        /\ UpdateSteps \cap RepairSteps = {} /\ Idle \in Call
    BY IdleIsGood DEF Types, GoodCall, UpdateSteps, RepairSteps
  <1>1. ASSUME NEW u \in Reporters, NEW s \in Statuses, NEW t \in Tokens,
               StartUpdate(c, u, [status |-> s, token |-> t])
        PROVE  CacheInv'
    <2>. DEFINE overlaps == \E d \in Calls : WritesTo(d, u)
                r == [Started(u, s, t) EXCEPT !.clean = ~overlaps]
                next == [call EXCEPT ![c] = r]
    <2>1. /\ r \in Call /\ r.pc = "updateDB" /\ r.user = u /\ r.other = None
          /\ r.clean = ~overlaps
      <3>. HIDE DEF overlaps
      <3>0. u \in Users
        BY UsersAssumption
      <3>1. /\ Started(u, s, t) \in Call /\ Started(u, s, t).pc = "updateDB"
            /\ Started(u, s, t).user = u /\ Started(u, s, t).other = None
            /\ Started(u, s, t).entry = [status |-> s, token |-> t]
        BY <3>0, StartedIsCall
      <3>. QED  BY <3>1 DEF Call
    <2>2. u \in Users /\ UNCHANGED <<row, cache>> /\ call[c].pc = "idle"
      BY <1>1, UsersAssumption DEF StartUpdate, Idle
    <2>3. r.pc \in UpdateSteps \ RepairSteps /\ call[c].pc \notin UpdateSteps \cup RepairSteps
      BY <2>1, <2>2 DEF UpdateSteps, RepairSteps
    <2>4. CASE overlaps
      <3>1. Disturb(u, next)
        BY <1>1, <2>4 DEF StartUpdate, Started, Idle
      <3>2. ~r.clean
        BY <2>1, <2>4
      <3>3. \A v : ~Writes(c, v)
        BY <2>3 DEF Writes
      <3>. HIDE DEF r, next, overlaps
      <3>4. next = [call EXCEPT ![c] = r]
        BY DEF next
      <3>. QED  BY <2>1, <2>2, <2>3, <3>1, <3>2, <3>3, <3>4, DisturbKeeps
    <2>5. CASE ~overlaps
      <3>1. call' = next /\ UNCHANGED disturbed
        BY <1>1, <2>5 DEF StartUpdate, Started, Idle
      <3>2. \A d \in Calls : ~Writes(d, u)
        <4>1. ASSUME NEW d \in Calls, Writes(d, u)
              PROVE  WritesTo(d, u)
          BY <2>2, <4>1, NoneAssumption
          DEF CacheInv, UncleanIsDisturbed, Writes, WritesTo, UpdateSteps, RepairSteps, WritingSteps
        <4>. QED  BY <2>5, <4>1
      <3>3. r.clean
        BY <2>1, <2>5
      <3>4. call'[c] = r /\ \A d \in Calls \ {c} : call'[d] = call[d]
        BY <1>0, <3>1
      <3>. HIDE DEF r, next, overlaps
      <3>5. \A d \in Calls \ {c} : \A v : Writes(d, v)' <=> Writes(d, v)
        BY <3>4 DEF Writes
      <3>6. \A v : Writes(c, v)' <=> v = u
        BY <2>1, <2>3, <3>4 DEF Writes
      <3>7. OnlyWriter'
        <4>1. ASSUME NEW a \in Calls, NEW b \in Calls, a # b,
                     call'[a].pc \in UpdateSteps, call'[a].clean, Writes(b, call[a].user)'
              PROVE  FALSE
          <5>1. CASE a = c
            BY <2>1, <3>2, <3>4, <4>1, <5>1 DEF Writes
          <5>2. CASE a # c
            <6>1. call[a].pc \in UpdateSteps /\ call[a].clean /\ call'[a].user = call[a].user
              BY <3>4, <4>1, <5>2
            <6>2. CASE b = c
              BY <2>1, <2>3, <3>2, <3>4, <4>1, <6>1, <6>2 DEF Writes
            <6>3. CASE b # c
              BY <3>4, <4>1, <6>1, <6>3 DEF CacheInv, OnlyWriter, Writes
            <6>. QED  BY <6>2, <6>3
          <5>. QED  BY <5>1, <5>2
        <4>. QED  BY <4>1 DEF OnlyWriter
      <3>8. UncleanIsDisturbed'
        BY <2>1, <2>3, <3>1, <3>3, <3>4, <3>5, <3>6 DEF CacheInv, UncleanIsDisturbed
      <3>9. WrittenIsThere'
        BY <2>1, <2>2, <3>4 DEF CacheInv, WrittenIsThere, Written
      <3>10. AgreesWithoutWriter'
        <4>1. ASSUME NEW v \in Users \ disturbed, \A d \in Calls : ~Writes(d, v)'
              PROVE  cache[v] \in {NoEntry, row[v]}
          <5>1. \A d \in Calls : ~Writes(d, v)
            BY <2>3, <3>5, <4>1 DEF Writes
          <5>. QED  BY <4>1, <5>1 DEF CacheInv, AgreesWithoutWriter
        <4>. QED  BY <2>2, <3>1, <4>1 DEF AgreesWithoutWriter
      <3>. QED  BY <3>7, <3>8, <3>9, <3>10 DEF CacheInv
    <2>. QED  BY <2>4, <2>5
  <1>2. ASSUME call[c].pc \in UpdateSteps
        PROVE  /\ call[c].user \in Users /\ call[c].other = None /\ Writes(c, call[c].user)
               /\ \A v : Writes(c, v) => v = call[c].user
    <2>1. call[c].pc # "idle"
      BY <1>2 DEF UpdateSteps
    <2>. QED  BY <1>0, <1>2, <2>1 DEF GoodCall, Writes, CacheInv, UncleanIsDisturbed
  <1>3. ASSUME UpdateUserStatusInDB(c)
        PROVE  CacheInv'
    <2>. DEFINE u == call[c].user
    <2>1. call[c].pc \in UpdateSteps /\ UNCHANGED cache /\ call[c].pc = "updateDB"
      BY <1>3 DEF UpdateUserStatusInDB, UpdateSteps
    <2>2. CASE row' = [row EXCEPT ![u] = call[c].entry] /\ Goto(c, "cacheStatus")
               /\ UNCHANGED disturbed
      <3>1. /\ call'[c] = [call[c] EXCEPT !.pc = "cacheStatus"]
            /\ \A d \in Calls \ {c} : call'[d] = call[d]
            /\ row'[u] = call[c].entry /\ \A v \in Users \ {u} : row'[v] = row[v]
        BY <1>0, <1>2, <2>1, <2>2 DEF Goto, Types
      <3>2. /\ call'[c].pc = "cacheStatus" /\ call'[c].user = u /\ call'[c].other = None
            /\ call'[c].clean = call[c].clean /\ call'[c].entry = call[c].entry
        BY <1>0, <1>2, <2>1, <3>1 DEF Call
      <3>. HIDE DEF u
      <3>3. "cacheStatus" \in UpdateSteps \ RepairSteps
        BY DEF UpdateSteps, RepairSteps
      <3>4. \A d \in Calls : \A v : Writes(d, v)' <=> Writes(d, v)
        BY <1>0, <2>1, <3>1, <3>2, <3>3 DEF Writes, u
      <3>5. OnlyWriter'
        <4>1. \A d \in Calls : /\ call'[d].pc \in UpdateSteps <=> call[d].pc \in UpdateSteps
                               /\ call'[d].clean = call[d].clean
                               /\ call'[d].user = call[d].user
          BY <2>1, <3>1, <3>2, <3>3 DEF u
        <4>. QED  BY <3>4, <4>1 DEF CacheInv, OnlyWriter
      <3>6. UncleanIsDisturbed'
        <4>1. ASSUME NEW d \in Calls, NEW v \in Users, Writes(d, v)', ~call'[d].clean
              PROVE  v \in disturbed
          <5>1. Writes(d, v) /\ ~call[d].clean
            BY <3>1, <3>2, <3>4, <4>1
          <5>. QED  BY <5>1 DEF CacheInv, UncleanIsDisturbed
        <4>2. ASSUME NEW d \in Calls
              PROVE  /\ call'[d].pc \in UpdateSteps => call'[d].other = None
                     /\ call'[d].pc \in RepairSteps => ~call'[d].clean
          <5>1. CASE d = c
            BY <3>2, <3>3, <5>1
          <5>2. CASE d # c
            BY <3>1, <5>2 DEF CacheInv, UncleanIsDisturbed
          <5>. QED  BY <5>1, <5>2
        <4>. QED  BY <2>2, <4>1, <4>2 DEF UncleanIsDisturbed
      <3>7. WrittenIsThere'
        <4>1. ASSUME NEW d \in Calls, call'[d].pc \in UpdateSteps, call'[d].clean
              PROVE  Written(d)'
          <5>1. CASE d = c
            BY <3>1, <3>2, <5>1 DEF Written
          <5>2. CASE d # c
            <6>1. Written(d) /\ call'[d] = call[d] /\ call[d].user # u
              BY <1>2, <2>1, <3>1, <4>1, <5>2 DEF CacheInv, WrittenIsThere, OnlyWriter, u
            <6>2. call[d].user \in Users
              BY <4>1, <6>1 DEF Types, GoodCall, UpdateSteps
            <6>. QED  BY <2>1, <3>1, <6>1, <6>2 DEF Written
          <5>. QED  BY <5>1, <5>2
        <4>. QED  BY <4>1 DEF WrittenIsThere
      <3>8. AgreesWithoutWriter'
        <4>1. ASSUME NEW v \in Users \ disturbed, \A d \in Calls : ~Writes(d, v)
              PROVE  cache[v] \in {NoEntry, row'[v]}
          <5>1. v # u
            BY <1>2, <2>1, <4>1 DEF u
          <5>. QED  BY <3>1, <4>1, <5>1 DEF CacheInv, AgreesWithoutWriter
        <4>. QED  BY <2>1, <2>2, <3>4, <4>1 DEF AgreesWithoutWriter
      <3>. QED  BY <3>5, <3>6, <3>7, <3>8 DEF CacheInv
    <2>3. CASE Disturb(u, [call EXCEPT ![c].pc = "cacheStatus", ![c].ok = FALSE])
               /\ UNCHANGED row
      <3>. DEFINE r == [call[c] EXCEPT !.pc = "cacheStatus", !.ok = FALSE]
                  next == [call EXCEPT ![c] = r]
      <3>1. Disturb(u, next)
        <4>1. next = [call EXCEPT ![c].pc = "cacheStatus", ![c].ok = FALSE]
          BY <1>0 DEF Call
        <4>. QED  BY <2>3, <4>1
      <3>2. r \in Call /\ r.pc = "cacheStatus" /\ r.user = u /\ r.other = None
        BY <1>0, <1>2, <2>1 DEF Call, Steps, WritingSteps
      <3>3. WritesTo(c, u) /\ "cacheStatus" \in UpdateSteps \ RepairSteps
        BY <1>2, <2>1 DEF WritesTo, WritingSteps, UpdateSteps, RepairSteps
      <3>. HIDE DEF r, next
      <3>4. next = [call EXCEPT ![c] = r]
        BY DEF next
      <3>. QED  BY <1>2, <2>1, <2>3, <3>1, <3>2, <3>3, <3>4, DisturbKeeps
    <2>. QED  BY <1>3, <2>2, <2>3 DEF UpdateUserStatusInDB
  <1>4. ASSUME NEW pc, call'[c] = [call[c] EXCEPT !.pc = pc]
        PROVE  /\ call'[c].pc = pc /\ call'[c].user = call[c].user
               /\ call'[c].entry = call[c].entry
    BY <1>0, <1>4 DEF GoodCall, Call
  <1>5. ASSUME CacheStatus(c)
        PROVE  CacheInv'
    <2>. DEFINE u == call[c].user
                e == call[c].entry
    <2>1. call[c].pc \in UpdateSteps /\ call[c].pc = "cacheStatus"
      BY <1>5 DEF CacheStatus, UpdateSteps
    <2>2. "cacheToken" \in UpdateSteps /\ "cacheToken" \in Steps
      BY DEF UpdateSteps, Steps, WritingSteps
    <2>3. ASSUME call[c].clean, UNCHANGED row,
                 cache' = [cache EXCEPT ![call[c].user]["status"] = call[c].entry.status],
                 call'[c] = [call[c] EXCEPT !.pc = "cacheToken"]
          PROVE  Written(c)'
      <3>1. /\ call'[c].pc = "cacheToken" /\ call'[c].user = u /\ call'[c].entry = e
            /\ cache'[u] = [cache[u] EXCEPT !.status = e.status] /\ row' = row
        BY <1>2, <1>4, <2>1, <2>3 DEF Types
      <3>2. cache[u] \in [status : Statuses \cup {None}, token : Tokens \cup {NoToken, None}]
        BY <1>2, <2>1 DEF Types
      <3>3. Written(c)
        BY <2>1, <2>3 DEF CacheInv, WrittenIsThere
      <3>. HIDE DEF u, e
      <3>4. cache'[u].status = e.status /\ cache'[u].token = cache[u].token
        BY <3>1, <3>2
      <3>. QED  BY <2>1, <3>1, <3>3, <3>4 DEF Written, UpdateSteps, u, e
    <2>. QED  BY <1>0, <1>2, <1>5, <2>1, <2>2, <2>3, SetFieldKeeps DEF CacheStatus
  <1>6. ASSUME CacheToken(c)
        PROVE  CacheInv'
    <2>. DEFINE u == call[c].user
                e == call[c].entry
                pc == IF call[c].ok THEN "gateStatus" ELSE "updated"
    <2>1. call[c].pc \in UpdateSteps /\ call[c].pc = "cacheToken"
      BY <1>6 DEF CacheToken, UpdateSteps
    <2>2. pc \in UpdateSteps /\ pc \in Steps /\ pc \in {"gateStatus", "updated"}
      BY DEF UpdateSteps, Steps, WritingSteps
    <2>3. SetField(c, call[c].user, "token", call[c].entry.token, pc)
      BY <1>6 DEF CacheToken
    <2>. HIDE DEF pc
    <2>4. ASSUME call[c].clean, UNCHANGED row,
                 cache' = [cache EXCEPT ![call[c].user]["token"] = call[c].entry.token],
                 call'[c] = [call[c] EXCEPT !.pc = pc]
          PROVE  Written(c)'
      <3>1. /\ call'[c].pc = pc /\ call'[c].user = u /\ call'[c].entry = e
            /\ cache'[u] = [cache[u] EXCEPT !.token = e.token] /\ row' = row
        BY <1>2, <1>4, <2>1, <2>4 DEF Types
      <3>2. cache[u] \in [status : Statuses \cup {None}, token : Tokens \cup {NoToken, None}]
        BY <1>2, <2>1 DEF Types
      <3>3. Written(c)
        BY <2>1, <2>4 DEF CacheInv, WrittenIsThere
      <3>. HIDE DEF u, e
      <3>4. cache'[u].token = e.token /\ cache'[u].status = cache[u].status
        BY <3>1, <3>2
      <3>. QED  BY <2>1, <2>2, <3>1, <3>3, <3>4 DEF Written, UpdateSteps, u, e
    <2>. QED  BY <1>0, <1>2, <2>1, <2>2, <2>3, <2>4, SetFieldKeeps
  <1>7. ASSUME GateCacheStatus(c)
        PROVE  CacheInv'
    <2>. DEFINE u == call[c].user
                e == call[c].entry
    <2>1. call[c].pc \in UpdateSteps /\ call[c].pc = "gateStatus"
      BY <1>7 DEF GateCacheStatus, UpdateSteps
    <2>2. "updated" \in UpdateSteps /\ "updated" \in Steps
      BY DEF UpdateSteps, Steps, WritingSteps
    <2>3. ASSUME call[c].clean, UNCHANGED row,
                 cache' = [cache EXCEPT ![call[c].user]["status"] = call[c].entry.status],
                 call'[c] = [call[c] EXCEPT !.pc = "updated"]
          PROVE  Written(c)'
      <3>1. /\ call'[c].pc = "updated" /\ call'[c].user = u /\ call'[c].entry = e
            /\ cache'[u] = [cache[u] EXCEPT !.status = e.status] /\ row' = row
        BY <1>2, <1>4, <2>1, <2>3 DEF Types
      <3>2. cache[u] \in [status : Statuses \cup {None}, token : Tokens \cup {NoToken, None}]
        BY <1>2, <2>1 DEF Types
      <3>3. Written(c)
        BY <2>1, <2>3 DEF CacheInv, WrittenIsThere
      <3>. HIDE DEF u, e
      <3>4. cache'[u].status = e.status /\ cache'[u].token = cache[u].token
        BY <3>1, <3>2
      <3>. QED  BY <2>1, <3>1, <3>3, <3>4 DEF Written, UpdateSteps, u, e
    <2>. QED  BY <1>0, <1>2, <1>7, <2>1, <2>2, <2>3, SetFieldKeeps DEF GateCacheStatus
  <1>8. ASSUME FinishUpdate(c)
        PROVE  CacheInv'
    <2>. DEFINE u == call[c].user
    <2>1. /\ call[c].pc \in UpdateSteps /\ call[c].pc = "updated" /\ UNCHANGED <<row, cache>>
          /\ call'[c] = Idle /\ \A d \in Calls \ {c} : call'[d] = call[d]
          /\ disturbed' = IF call[c].clean THEN disturbed \ {u} ELSE disturbed
      BY <1>0, <1>8 DEF FinishUpdate, UpdateSteps
    <2>2. call'[c].pc \notin UpdateSteps \cup RepairSteps
      BY <2>1 DEF Idle, UpdateSteps, RepairSteps
    <2>3. \A d \in Calls \ {c} : \A v : Writes(d, v)' <=> Writes(d, v)
      BY <2>1 DEF Writes
    <2>4. \A v : ~Writes(c, v)'
      BY <2>2 DEF Writes
    <2>5. call[c].clean => cache[u] = row[u] /\ \A d \in Calls \ {c} : ~Writes(d, u)
      <3>1. SUFFICES ASSUME call[c].clean
                     PROVE  cache[u] = row[u] /\ \A d \in Calls \ {c} : ~Writes(d, u)
        OBVIOUS
      <3>2. /\ row[u] = call[c].entry /\ cache[u].status = call[c].entry.status
            /\ cache[u].token = call[c].entry.token
        BY <2>1, <3>1 DEF CacheInv, WrittenIsThere, Written
      <3>3. /\ cache[u] \in [status : Statuses \cup {None}, token : Tokens \cup {NoToken, None}]
            /\ call[c].entry \in [status : Statuses \cup {None},
                                   token : Tokens \cup {NoToken, None}]
        BY <1>0, <1>2, <2>1 DEF Types, Call
      <3>4. cache[u] = call[c].entry
        BY <3>2, <3>3
      <3>5. \A d \in Calls \ {c} : ~Writes(d, u)
        BY <2>1, <3>1 DEF CacheInv, OnlyWriter
      <3>. QED  BY <3>2, <3>4, <3>5
    <2>6. ~call[c].clean => u \in disturbed
      BY <1>2, <2>1 DEF CacheInv, UncleanIsDisturbed
    <2>7. \A v : Writes(c, v) <=> v = u
      BY <1>2, <2>1
    <2>. HIDE DEF u
    <2>8. OnlyWriter'
      BY <2>1, <2>2, <2>3, <2>4 DEF CacheInv, OnlyWriter
    <2>9. UncleanIsDisturbed'
      <3>1. ASSUME NEW d \in Calls, NEW v \in Users, Writes(d, v)', ~call'[d].clean
            PROVE  v \in disturbed'
        <4>1. d # c /\ Writes(d, v) /\ ~call[d].clean
          BY <2>1, <2>3, <2>4, <3>1
        <4>2. v \in disturbed
          BY <4>1 DEF CacheInv, UncleanIsDisturbed
        <4>3. call[c].clean => v # u
          BY <2>5, <4>1
        <4>. QED  BY <2>1, <4>2, <4>3
      <3>2. ASSUME NEW d \in Calls
            PROVE  /\ call'[d].pc \in UpdateSteps => call'[d].other = None
                   /\ call'[d].pc \in RepairSteps => ~call'[d].clean
        BY <2>1, <2>2 DEF CacheInv, UncleanIsDisturbed
      <3>. QED  BY <3>1, <3>2 DEF UncleanIsDisturbed
    <2>10. WrittenIsThere'
      <3>1. ASSUME NEW d \in Calls, call'[d].pc \in UpdateSteps, call'[d].clean
            PROVE  Written(d)'
        <4>1. d # c /\ call'[d] = call[d]
          BY <2>1, <2>2, <3>1
        <4>. QED  BY <2>1, <3>1, <4>1 DEF CacheInv, WrittenIsThere, Written
      <3>. QED  BY <3>1 DEF WrittenIsThere
    <2>11. AgreesWithoutWriter'
      <3>1. ASSUME NEW v \in Users \ disturbed', \A d \in Calls : ~Writes(d, v)'
            PROVE  cache[v] \in {NoEntry, row[v]}
        <4>1. CASE v = u
          BY <2>1, <2>5, <2>6, <3>1, <4>1
        <4>2. CASE v # u
          BY <2>1, <2>3, <2>7, <3>1, <4>2 DEF CacheInv, AgreesWithoutWriter
        <4>. QED  BY <4>1, <4>2
      <3>. QED  BY <2>1, <3>1 DEF AgreesWithoutWriter
    <2>. QED  BY <2>8, <2>9, <2>10, <2>11 DEF CacheInv
  <1>. QED  BY <1>1, <1>3, <1>5, <1>6, <1>7, <1>8 DEF UpdateStep

\* The steps of GetUserStatus write nothing.
LEMMA GetStatusCache ==
    ASSUME Types, CacheInv, NEW c \in Calls, GetStatusStep(c)
    PROVE  CacheInv'
  <1>0. call \in [Calls -> Call]
    BY DEF Types
  <1>. USE DEF CacheQuiet, UpdateSteps, RepairSteps
  <1>1. ASSUME NEW u, StartGetStatus(c, u)
        PROVE  CacheQuiet(c)
    BY <1>0, <1>1 DEF StartGetStatus, Idle
  <1>2. ASSUME GetStatusFromCache(c)
        PROVE  CacheQuiet(c)
    BY <1>0, <1>2 DEF GetStatusFromCache, Goto, Call
  <1>3. ASSUME GetStatusFromDB(c)
        PROVE  CacheQuiet(c)
    BY <1>0, <1>3 DEF GetStatusFromDB, Idle, Call
  <1>4. ASSUME FinishGetStatus(c)
        PROVE  CacheQuiet(c)
    BY <1>0, <1>4 DEF FinishGetStatus, Idle
  <1>. QED  BY <1>1, <1>2, <1>3, <1>4, CacheQuietKeeps DEF GetStatusStep

\* The steps of AddFriend write no status.
LEMMA AddFriendCache ==
    ASSUME Types, CacheInv, NEW c \in Calls, AddFriendStep(c)
    PROVE  CacheInv'
  <1>0. call \in [Calls -> Call]
    BY DEF Types
  <1>. USE DEF CacheQuiet, UpdateSteps, RepairSteps
  <1>1. ASSUME NEW u, NEW f, StartAddFriend(c, u, f)
        PROVE  CacheQuiet(c)
    BY <1>0, <1>1 DEF StartAddFriend, Idle
  <1>2. ASSUME FriendExistsInDB(c)
        PROVE  CacheQuiet(c)
    BY <1>0, <1>2 DEF FriendExistsInDB, Goto, Idle, Call
  <1>3. ASSUME AddFirstDirection(c)
        PROVE  CacheQuiet(c)
    BY <1>0, <1>3 DEF AddFirstDirection, Goto, Idle, Call
  <1>4. ASSUME AddSecondDirection(c)
        PROVE  CacheQuiet(c)
    BY <1>0, <1>4 DEF AddSecondDirection, Goto, Idle, Call
  <1>5. ASSUME FinishAddFriend(c)
        PROVE  CacheQuiet(c)
    BY <1>0, <1>5 DEF FinishAddFriend, Idle
  <1>. QED  BY <1>1, <1>2, <1>3, <1>4, <1>5, CacheQuietKeeps DEF AddFriendStep

\* GetFriendsStatus reads, and from the row on it spoils what it repairs.
LEMMA GetFriendsCache ==
    ASSUME Types, CacheInv, NEW c \in Calls, GetFriendsStep(c)
    PROVE  CacheInv'
  <1>0. call \in [Calls -> Call] /\ GoodCall(call[c])
    BY DEF Types
  <1>1. ASSUME NEW u, StartGetFriends(c, u)
        PROVE  CacheQuiet(c)
    BY <1>0, <1>1 DEF StartGetFriends, Idle, CacheQuiet, UpdateSteps, RepairSteps
  <1>2. ASSUME GetCachedFriendsList(c)
        PROVE  CacheQuiet(c)
    BY <1>0, <1>2 DEF GetCachedFriendsList, Goto, Call, CacheQuiet, UpdateSteps, RepairSteps
  <1>3. ASSUME QueryFriends(c)
        PROVE  CacheQuiet(c)
    BY <1>0, <1>3 DEF QueryFriends, Call, CacheQuiet, UpdateSteps, RepairSteps
  <1>4. ASSUME DropCachedList(c)
        PROVE  CacheQuiet(c)
    BY <1>0, <1>4 DEF DropCachedList, Call, CacheQuiet, UpdateSteps, RepairSteps
  <1>5. ASSUME FillCachedList(c)
        PROVE  CacheQuiet(c)
    BY <1>0, <1>5 DEF FillCachedList, Goto, Call, CacheQuiet, UpdateSteps, RepairSteps
  <1>6. ASSUME GetFriendStatus(c)
        PROVE  CacheQuiet(c)
    <2>. USE DEF CacheQuiet, UpdateSteps, RepairSteps
    <2>1. call[c].pc = "nextFriend" /\ UNCHANGED <<row, cache, disturbed>>
      BY <1>6 DEF GetFriendStatus
    <2>2. CASE call' = [call EXCEPT ![c] = Idle]
      BY <1>0, <2>1, <2>2 DEF Idle
    <2>3. CASE \E f : call' = [call EXCEPT ![c].todo = @ \ {f}]
      BY <1>0, <2>1, <2>3 DEF Call
    <2>4. CASE \E f : call' = [call EXCEPT ![c].todo = @ \ {f}, ![c].other = f,
                                          ![c].pc = "repairRead"]
      BY <1>0, <2>1, <2>4 DEF Call
    <2>. QED  BY <1>6, <2>2, <2>3, <2>4 DEF GetFriendStatus
  <1>7. ASSUME RepairRead(c)
        PROVE  CacheInv'
    <2>. DEFINE u == call[c].other
                e == [status |-> row[u].status, token |-> NoToken]
                r == [call[c] EXCEPT !.pc = "repairStatus", !.entry = e]
                next == [call EXCEPT ![c] = r]
    <2>1. call[c].pc = "repairRead" /\ u \in Users /\ UNCHANGED <<row, cache>>
      BY <1>0, <1>7 DEF RepairRead, GoodCall, PairSteps
    <2>2. CASE row[u] # NoEntry /\ Disturb(u, [call EXCEPT ![c].pc = "repairStatus",
                                                           ![c].entry = e])
      <3>1. e \in [status : Statuses \cup {None}, token : Tokens \cup {NoToken, None}]
        BY <2>1, <2>2 DEF Types, Entry
      <3>2. Disturb(u, next)
        <4>1. \A x : [call EXCEPT ![c] = [call[c] EXCEPT !.pc = "repairStatus", !.entry = x]]
                     = [call EXCEPT ![c].pc = "repairStatus", ![c].entry = x]
          BY <1>0 DEF Call
        <4>. QED  BY <2>2, <4>1
      <3>3. r \in Call /\ r.pc = "repairStatus" /\ r.other = u
        <4>. HIDE DEF e
        <4>1. call[c] \in Call /\ "repairStatus" \in Steps
          BY <1>0 DEF Steps, WritingSteps
        <4>. QED  BY <3>1, <4>1 DEF Call
      <3>4. WritesTo(c, u) /\ "repairStatus" \in RepairSteps \ UpdateSteps
        BY <2>1, NoneAssumption DEF WritesTo, WritingSteps, UpdateSteps, RepairSteps
      <3>5. \A v : ~Writes(c, v)
        BY <2>1 DEF Writes, UpdateSteps, RepairSteps
      <3>. HIDE DEF u, e, r, next
      <3>6. next = [call EXCEPT ![c] = r]
        BY DEF next
      <3>. QED  BY <2>1, <3>2, <3>3, <3>4, <3>5, <3>6, DisturbKeeps
    <2>3. CASE /\ call' = [call EXCEPT ![c].pc = "nextFriend", ![c].other = None]
               /\ UNCHANGED disturbed
      <3>1. CacheQuiet(c)
        BY <1>0, <2>1, <2>3 DEF Call, CacheQuiet, UpdateSteps, RepairSteps
      <3>. QED  BY <3>1, CacheQuietKeeps
    <2>. QED  BY <1>7, <2>2, <2>3 DEF RepairRead
  <1>8. ASSUME call[c].pc \in RepairSteps
        PROVE  /\ call[c].other \in Users \cup {None} /\ Writes(c, call[c].other)
               /\ \A v : Writes(c, v) => v = call[c].other
               /\ call[c].pc \notin UpdateSteps
    BY <1>0, <1>8 DEF Writes, Call, UpdateSteps, RepairSteps
  <1>9. ASSUME RepairStatus(c)
        PROVE  CacheInv'
    <2>1. call[c].pc \in RepairSteps /\ call[c].other \in Users
      BY <1>0, <1>9 DEF RepairStatus, RepairSteps, GoodCall, PairSteps
    <2>2. "repairToken" \in RepairSteps /\ "repairToken" \in Steps
      BY DEF RepairSteps, Steps, WritingSteps
    <2>. QED  BY <1>8, <1>9, <2>1, <2>2, SetFieldKeeps DEF RepairStatus
  <1>10. ASSUME RepairToken(c)
         PROVE  CacheInv'
    <2>1. call[c].pc \in RepairSteps /\ call[c].other \in Users
      BY <1>0, <1>10 DEF RepairToken, RepairSteps, GoodCall, PairSteps
    <2>2. "repaired" \in RepairSteps /\ "repaired" \in Steps
      BY DEF RepairSteps, Steps, WritingSteps
    <2>. QED  BY <1>8, <1>10, <2>1, <2>2, SetFieldKeeps DEF RepairToken
  <1>11. ASSUME FinishRepair(c)
         PROVE  CacheInv'
    <2>1. /\ call[c].pc = "repaired" /\ UNCHANGED <<row, cache, disturbed>>
          /\ call'[c].pc = "nextFriend" /\ \A d \in Calls \ {c} : call'[d] = call[d]
      BY <1>0, <1>11 DEF FinishRepair, Call
    <2>2. call'[c].pc \notin UpdateSteps \cup RepairSteps
      BY <2>1 DEF UpdateSteps, RepairSteps
    <2>3. call[c].pc \in RepairSteps
      BY <2>1 DEF RepairSteps
    <2>4. \A v \in Users : Writes(c, v) => v \in disturbed
      BY <2>3 DEF CacheInv, UncleanIsDisturbed
    <2>5. \A d \in Calls \ {c} : \A v : Writes(d, v)' <=> Writes(d, v)
      BY <2>1 DEF Writes
    <2>6. \A v : ~Writes(c, v)'
      BY <2>2 DEF Writes
    <2>7. \A d \in Calls : call'[d].pc \in UpdateSteps \cup RepairSteps => d # c /\ call'[d] = call[d]
      BY <2>1, <2>2
    <2>8. OnlyWriter'
      BY <2>5, <2>6, <2>7 DEF CacheInv, OnlyWriter
    <2>9. UncleanIsDisturbed'
      BY <2>1, <2>5, <2>6, <2>7 DEF CacheInv, UncleanIsDisturbed
    <2>10. WrittenIsThere'
      BY <2>1, <2>7 DEF CacheInv, WrittenIsThere, Written
    <2>11. AgreesWithoutWriter'
      <3>1. ASSUME NEW v \in Users \ disturbed, \A d \in Calls : ~Writes(d, v)'
            PROVE  cache[v] \in {NoEntry, row[v]}
        <4>1. \A d \in Calls : ~Writes(d, v)
          BY <2>4, <2>5, <3>1
        <4>. QED  BY <3>1, <4>1 DEF CacheInv, AgreesWithoutWriter
      <3>. QED  BY <2>1, <3>1 DEF AgreesWithoutWriter
    <2>. QED  BY <2>8, <2>9, <2>10, <2>11 DEF CacheInv
  <1>. QED
    BY <1>1, <1>2, <1>3, <1>4, <1>5, <1>6, <1>7, <1>9, <1>10, <1>11, CacheQuietKeeps
    DEF GetFriendsStep

\* A flush leaves empty entries, and no writer clean.
LEMMA FlushCache ==
    ASSUME Types, CacheInv, RedisFlush
    PROVE  CacheInv'
  <1>1. /\ cache' = [u \in Users |-> NoEntry] /\ UNCHANGED row
        /\ disturbed' = disturbed \cup {u \in Users : \E c \in Calls : WritesTo(c, u)}
        /\ call' = [c \in Calls |-> IF call[c].pc \in WritingSteps
                                    THEN [call[c] EXCEPT !.clean = FALSE] ELSE call[c]]
    BY DEF RedisFlush
  <1>2. ASSUME NEW d \in Calls
        PROVE  /\ call'[d].pc = call[d].pc /\ call'[d].user = call[d].user
               /\ call'[d].other = call[d].other
               /\ call[d].pc \in WritingSteps => ~call'[d].clean
    BY <1>1 DEF Types, Call
  <1>3. UpdateSteps \cup RepairSteps \subseteq WritingSteps /\ UpdateSteps \cap RepairSteps = {}
    BY DEF UpdateSteps, RepairSteps, WritingSteps
  <1>4. ASSUME NEW d \in Calls, NEW v \in Users, Writes(d, v)
        PROVE  WritesTo(d, v)
    BY <1>3, <1>4, NoneAssumption DEF CacheInv, UncleanIsDisturbed, Writes, WritesTo
  <1>5. \A d \in Calls : \A v : Writes(d, v)' <=> Writes(d, v)
    BY <1>2 DEF Writes
  <1>6. OnlyWriter' /\ WrittenIsThere'
    BY <1>2, <1>3 DEF OnlyWriter, WrittenIsThere
  <1>7. UncleanIsDisturbed'
    <2>1. ASSUME NEW d \in Calls, NEW v \in Users, Writes(d, v)'
          PROVE  v \in disturbed'
      BY <1>1, <1>4, <1>5, <2>1
    <2>2. ASSUME NEW d \in Calls
          PROVE  /\ call'[d].pc \in UpdateSteps => call'[d].other = None
                 /\ call'[d].pc \in RepairSteps => ~call'[d].clean
      BY <1>2, <1>3 DEF CacheInv, UncleanIsDisturbed
    <2>. QED  BY <2>1, <2>2 DEF UncleanIsDisturbed
  <1>8. AgreesWithoutWriter'
    BY <1>1 DEF AgreesWithoutWriter
  <1>. QED  BY <1>6, <1>7, <1>8 DEF CacheInv

\* Nothing is cached and nobody writes at the start.
LEMMA CacheAtStart == Init => CacheInv
  <1>. SUFFICES ASSUME Init PROVE CacheInv
    OBVIOUS
  <1>1. \A c \in Calls : call[c].pc \notin UpdateSteps \cup RepairSteps
    BY DEF Init, Idle, UpdateSteps, RepairSteps
  <1>. QED
    BY <1>1 DEF Init, CacheInv, OnlyWriter, UncleanIsDisturbed, WrittenIsThere,
                AgreesWithoutWriter, Writes

\* Every step keeps what is known of the cache.
LEMMA CacheStep == Types /\ CacheInv /\ [Next]_vars => CacheInv'
  <1>. SUFFICES ASSUME Types, CacheInv, [Next]_vars
                PROVE  CacheInv'
    OBVIOUS
  <1>1. CASE UNCHANGED vars
    BY <1>1 DEF vars, CacheInv, OnlyWriter, UncleanIsDisturbed, WrittenIsThere,
                AgreesWithoutWriter, Writes, Written
  <1>2. CASE Next
    BY <1>2, UpdateCache, GetStatusCache, GetFriendsCache, AddFriendCache, FlushCache DEF Next
  <1>. QED  BY <1>1, <1>2

\* Redis holds nothing or exactly the row, unless a failed step, a read-repair
\* or an overlap has disturbed the user: for any number of servers and calls.
THEOREM CacheAgrees == Spec => []CacheAgreesUnlessDisturbed
  <1>1. ASSUME Types, CacheInv
        PROVE  CacheAgreesUnlessDisturbed
    <2>1. ASSUME NEW c \in Calls, NEW u \in Users, Writes(c, u)
          PROVE  WritesTo(c, u)
      BY <1>1, <2>1, NoneAssumption
      DEF CacheInv, UncleanIsDisturbed, Writes, WritesTo, UpdateSteps, RepairSteps, WritingSteps
    <2>. QED  BY <1>1, <2>1 DEF CacheInv, AgreesWithoutWriter, CacheAgreesUnlessDisturbed
  <1>2. Types /\ CacheInv => CacheAgreesUnlessDisturbed
    BY <1>1
  <1>. QED  BY <1>2, TypesAtStart, TypesStep, CacheAtStart, CacheStep, PTL DEF Spec

-----------------------------------------------------------------------------
(* What a step leaves of the calls *)

\* The call has not moved, but may no longer vouch for an entry.
Kept(d) == call'[d] = call[d] \/ call'[d] = [call[d] EXCEPT !.clean = FALSE]

\* The call is at the step pc, about the same users, with the same entry.
MovedTo(c, pc) ==
    /\ call'[c].pc = pc
    /\ call'[c].user = call[c].user
    /\ call'[c].other = call[c].other
    /\ call'[c].entry = call[c].entry
    /\ call'[c].todo = call[c].todo

\* A call that is kept is at the same step.
LEMMA KeptView ==
    ASSUME Types, NEW d \in Calls, Kept(d)
    PROVE  MovedTo(d, call[d].pc)
  <1>1. call[d] \in Call
    BY DEF Types
  <1>2. CASE call'[d] = call[d]
    BY <1>2 DEF MovedTo
  <1>3. CASE call'[d] = [call[d] EXCEPT !.clean = FALSE]
    BY <1>1, <1>3 DEF Call, MovedTo
  <1>. QED  BY <1>2, <1>3 DEF Kept

\* Disturb only takes the cleanness of the calls.
LEMMA DisturbKept ==
    ASSUME NEW u, NEW next, Disturb(u, next), NEW d \in Calls
    PROVE  call'[d] = next[d] \/ call'[d] = [next[d] EXCEPT !.clean = FALSE]
  BY DEF Disturb

\* HSET of one field moves one call, and changes no other hash.
LEMMA SetFieldView ==
    ASSUME Types, NEW c \in Calls, NEW u \in Users, NEW field \in {"status", "token"},
           NEW value, NEW pc \in Steps, SetField(c, u, field, value, pc)
    PROVE  /\ \A d \in Calls \ {c} : Kept(d)
           /\ MovedTo(c, pc)
           /\ UNCHANGED <<row, friends, cacheFriends>>
           /\ disturbed \subseteq disturbed'
           /\ \A v \in Users \ {u} : cache'[v] = cache[v]
           /\ cache'[u].status # cache[u].status => field = "status" /\ cache'[u].status = value
  <1>. DEFINE r == [call[c] EXCEPT !.pc = pc]
              next == [call EXCEPT ![c] = r]
  <1>1. /\ r \in Call /\ r.pc = pc /\ r.user = call[c].user /\ r.other = call[c].other
        /\ r.entry = call[c].entry /\ r.todo = call[c].todo
    BY DEF Types, Call
  <1>2. next[c] = r /\ \A d \in Calls \ {c} : next[d] = call[d]
    BY DEF Types
  <1>3. call' = next \/ Disturb(u, next)
    BY DEF SetField, Goto
  <1>. HIDE DEF r, next
  <1>4. ASSUME NEW d \in Calls
        PROVE  call'[d] = next[d] \/ call'[d] = [next[d] EXCEPT !.clean = FALSE]
    BY <1>3, DisturbKept
  <1>5. \A d \in Calls \ {c} : Kept(d)
    BY <1>2, <1>4 DEF Kept
  <1>6. MovedTo(c, pc)
    <2>1. CASE call'[c] = r
      BY <1>1, <2>1 DEF MovedTo
    <2>2. CASE call'[c] = [r EXCEPT !.clean = FALSE]
      BY <1>1, <2>2 DEF MovedTo, Call
    <2>. QED  BY <1>2, <1>4, <2>1, <2>2
  <1>7. UNCHANGED <<row, friends, cacheFriends>> /\ disturbed \subseteq disturbed'
    BY DEF SetField, Disturb
  <1>8. cache' = cache \/ cache' = [cache EXCEPT ![u][field] = value]
    BY DEF SetField
  <1>9. \A v \in Users \ {u} : cache'[v] = cache[v]
    BY <1>8 DEF Types
  <1>10. cache'[u].status # cache[u].status => field = "status" /\ cache'[u].status = value
    <2>1. CASE cache' = cache
      BY <2>1
    <2>2. CASE cache' = [cache EXCEPT ![u][field] = value]
      <3>1. /\ cache[u] \in [status : Statuses \cup {None}, token : Tokens \cup {NoToken, None}]
            /\ cache'[u] = [cache[u] EXCEPT ![field] = value]
        BY <2>2 DEF Types
      <3>. QED  BY <3>1
    <2>. QED  BY <1>8, <2>1, <2>2
  <1>. QED  BY <1>5, <1>6, <1>7, <1>9, <1>10

\* The commands of UpdateUserStatus and of a read-repair.
HashStep(c) ==
    CacheStatus(c) \/ CacheToken(c) \/ GateCacheStatus(c) \/ RepairStatus(c) \/ RepairToken(c)

\* Where each of them leads, and what it may change.
LEMMA HashStepView ==
    ASSUME Types, CacheInv, NEW c \in Calls, HashStep(c)
    PROVE  /\ \A d \in Calls \ {c} : Kept(d)
           /\ \E pc \in Steps : MovedTo(c, pc)
           /\ call'[c].pc \in {"repairToken", "repaired"} =>
                call[c].pc \in {"repairStatus", "repairToken"}
           /\ call'[c].pc \in {"cacheToken", "gateStatus", "updated", "repairToken", "repaired"}
           /\ UNCHANGED <<row, friends, cacheFriends>>
           /\ disturbed \subseteq disturbed'
           /\ \A v \in Users : cache'[v].status # cache[v].status =>
                WritesTo(c, v) /\ cache'[v].status = call[c].entry.status
  <1>0. /\ GoodCall(call[c])
        /\ call[c].pc \in UpdateSteps => call[c].other = None
    BY DEF Types, CacheInv, UncleanIsDisturbed
  <1>. DEFINE target == {"cacheToken", "gateStatus", "updated", "repairToken", "repaired"}
  <1>1. target \subseteq Steps
    BY DEF Steps, WritingSteps
  <1>2. ASSUME NEW u \in Users, NEW field \in {"status", "token"}, NEW value, NEW pc \in target,
               SetField(c, u, field, value, pc), WritesTo(c, u),
               field = "status" => value = call[c].entry.status,
               pc \in {"repairToken", "repaired"} => call[c].pc \in {"repairStatus", "repairToken"}
        PROVE  /\ \A d \in Calls \ {c} : Kept(d)
               /\ \E to \in Steps : MovedTo(c, to)
               /\ call'[c].pc \in {"repairToken", "repaired"} =>
                    call[c].pc \in {"repairStatus", "repairToken"}
               /\ call'[c].pc \in target
               /\ UNCHANGED <<row, friends, cacheFriends>>
               /\ disturbed \subseteq disturbed'
               /\ \A v \in Users : cache'[v].status # cache[v].status =>
                    WritesTo(c, v) /\ cache'[v].status = call[c].entry.status
    <2>1. /\ \A d \in Calls \ {c} : Kept(d)
          /\ MovedTo(c, pc)
          /\ UNCHANGED <<row, friends, cacheFriends>>
          /\ disturbed \subseteq disturbed'
          /\ \A v \in Users \ {u} : cache'[v] = cache[v]
          /\ cache'[u].status # cache[u].status => field = "status" /\ cache'[u].status = value
      BY <1>1, <1>2, SetFieldView
    <2>2. call'[c].pc = pc
      BY <2>1 DEF MovedTo
    <2>. QED  BY <1>1, <1>2, <2>1, <2>2
  <1>3. ASSUME call[c].pc \in {"cacheStatus", "cacheToken", "gateStatus"}
        PROVE  call[c].user \in Users /\ WritesTo(c, call[c].user)
    BY <1>0, <1>3 DEF GoodCall, WritesTo, WritingSteps, UpdateSteps
  <1>4. ASSUME call[c].pc \in {"repairStatus", "repairToken"}
        PROVE  call[c].other \in Users /\ WritesTo(c, call[c].other)
    BY <1>0, <1>4, NoneAssumption DEF GoodCall, PairSteps, WritesTo, WritingSteps
  <1>5. CASE CacheStatus(c)
    BY <1>2, <1>3, <1>5 DEF CacheStatus
  <1>6. CASE CacheToken(c)
    <2>1. CASE call[c].ok
      BY <1>2, <1>3, <1>6, <2>1 DEF CacheToken
    <2>2. CASE ~call[c].ok
      BY <1>2, <1>3, <1>6, <2>2 DEF CacheToken
    <2>. QED  BY <2>1, <2>2
  <1>7. CASE GateCacheStatus(c)
    BY <1>2, <1>3, <1>7 DEF GateCacheStatus
  <1>8. CASE RepairStatus(c)
    BY <1>2, <1>4, <1>8 DEF RepairStatus
  <1>9. CASE RepairToken(c)
    BY <1>2, <1>4, <1>9 DEF RepairToken
  <1>. QED  BY <1>5, <1>6, <1>7, <1>8, <1>9 DEF HashStep

CallStep(c) == UpdateStep(c) \/ GetStatusStep(c) \/ GetFriendsStep(c) \/ AddFriendStep(c)

\* The other steps write no hash; friendships only grow, and only the end of an
\* update takes a user from disturbed.
LEMMA OtherStepView ==
    ASSUME Types, NEW c \in Calls, CallStep(c), ~HashStep(c)
    PROVE  /\ \A d \in Calls \ {c} : Kept(d)
           /\ UNCHANGED cache
           /\ friends \subseteq friends'
           /\ disturbed \subseteq disturbed' \/ FinishUpdate(c)
  <1>. DEFINE Others == \A d \in Calls \ {c} : Kept(d)
              Goal == /\ Others /\ UNCHANGED cache /\ friends \subseteq friends'
                      /\ disturbed \subseteq disturbed' \/ FinishUpdate(c)
  <1>. SUFFICES Goal
    OBVIOUS
  <1>0. call \in [Calls -> Call]
    BY DEF Types
  <1>1. ASSUME NEW next, \A d \in Calls \ {c} : next[d] = call[d],
               call' = next \/ \E u : Disturb(u, next)
        PROVE  Others
    BY <1>1, DisturbKept DEF Kept
  <1>2. ASSUME NEW u, NEW e, StartUpdate(c, u, e)
        PROVE  Goal
    <2>. DEFINE next == [call EXCEPT ![c] = [Idle EXCEPT !.pc = "updateDB", !.user = u,
                           !.entry = e, !.clean = ~ \E d \in Calls : WritesTo(d, u)]]
    <2>1. Disturb(u, next) \/ (call' = next /\ UNCHANGED disturbed)
      BY <1>2 DEF StartUpdate
    <2>2. \A d \in Calls \ {c} : next[d] = call[d]
      BY <1>0
    <2>. HIDE DEF next
    <2>3. Others
      BY <1>1, <2>1, <2>2
    <2>. QED  BY <1>2, <2>1, <2>3 DEF StartUpdate, Disturb
  <1>3. CASE UpdateUserStatusInDB(c)
    <2>. DEFINE next == [call EXCEPT ![c].pc = "cacheStatus", ![c].ok = FALSE]
                good == [call EXCEPT ![c].pc = "cacheStatus"]
    <2>1. Disturb(call[c].user, next) \/ (call' = good /\ UNCHANGED disturbed)
      BY <1>3 DEF UpdateUserStatusInDB, Goto
    <2>2. \A d \in Calls \ {c} : next[d] = call[d] /\ good[d] = call[d]
      BY <1>0
    <2>. HIDE DEF next, good
    <2>3. Others
      BY <1>1, <2>1, <2>2
    <2>. QED  BY <1>3, <2>1, <2>3 DEF UpdateUserStatusInDB, Disturb
  <1>4. CASE FinishUpdate(c)
    BY <1>0, <1>4 DEF FinishUpdate, Kept
  <1>5. CASE GetStatusStep(c)
    <2>1. ASSUME NEW u, StartGetStatus(c, u)
          PROVE  Goal
      BY <1>0, <2>1 DEF StartGetStatus, Kept
    <2>2. CASE GetStatusFromCache(c)
      BY <1>0, <2>2 DEF GetStatusFromCache, Goto, Kept
    <2>3. CASE GetStatusFromDB(c)
      BY <1>0, <2>3 DEF GetStatusFromDB, Kept
    <2>4. CASE FinishGetStatus(c)
      BY <1>0, <2>4 DEF FinishGetStatus, Kept
    <2>. QED  BY <1>5, <2>1, <2>2, <2>3, <2>4 DEF GetStatusStep
  <1>6. ASSUME NEW u, StartGetFriends(c, u)
        PROVE  Goal
    BY <1>0, <1>6 DEF StartGetFriends, Kept
  <1>7. CASE GetCachedFriendsList(c)
    BY <1>0, <1>7 DEF GetCachedFriendsList, Goto, Kept
  <1>8. CASE QueryFriends(c)
    BY <1>0, <1>8 DEF QueryFriends, Kept
  <1>9. CASE DropCachedList(c)
    BY <1>0, <1>9 DEF DropCachedList, Kept
  <1>10. CASE FillCachedList(c)
    BY <1>0, <1>10 DEF FillCachedList, Goto, Kept
  <1>11. CASE GetFriendStatus(c)
    <2>1. /\ UNCHANGED <<friends, cache, disturbed>>
          /\ \/ call' = [call EXCEPT ![c] = Idle]
             \/ \E f : call' = [call EXCEPT ![c].todo = @ \ {f}]
             \/ \E f : call' = [call EXCEPT ![c].todo = @ \ {f}, ![c].other = f,
                                            ![c].pc = "repairRead"]
      BY <1>11 DEF GetFriendStatus
    <2>2. Others
      BY <1>0, <2>1 DEF Kept
    <2>. QED  BY <2>1, <2>2
  <1>12. CASE RepairRead(c)
    <2>. DEFINE next == [call EXCEPT ![c].pc = "repairStatus", ![c].entry =
                           [status |-> row[call[c].other].status, token |-> NoToken]]
                none == [call EXCEPT ![c].pc = "nextFriend", ![c].other = None]
    <2>1. Disturb(call[c].other, next) \/ (call' = none /\ UNCHANGED disturbed)
      BY <1>12 DEF RepairRead
    <2>2. \A d \in Calls \ {c} : next[d] = call[d] /\ none[d] = call[d]
      BY <1>0
    <2>. HIDE DEF next, none
    <2>3. Others
      BY <1>1, <2>1, <2>2
    <2>. QED  BY <1>12, <2>1, <2>3 DEF RepairRead, Disturb
  <1>13. CASE FinishRepair(c)
    BY <1>0, <1>13 DEF FinishRepair, Kept
  <1>14. CASE AddFriendStep(c)
    <2>1. ASSUME NEW u, NEW f, StartAddFriend(c, u, f)
          PROVE  Goal
      BY <1>0, <2>1 DEF StartAddFriend, Kept
    <2>2. CASE FriendExistsInDB(c)
      BY <1>0, <2>2 DEF FriendExistsInDB, Goto, Kept
    <2>3. CASE AddFirstDirection(c)
      BY <1>0, <2>3 DEF AddFirstDirection, InsertFriend, Goto, Kept
    <2>4. CASE AddSecondDirection(c)
      BY <1>0, <2>4 DEF AddSecondDirection, InsertFriend, Goto, Kept
    <2>5. CASE FinishAddFriend(c)
      BY <1>0, <2>5 DEF FinishAddFriend, Kept
    <2>. QED  BY <1>14, <2>1, <2>2, <2>3, <2>4, <2>5 DEF AddFriendStep
  <1>. HIDE DEF Goal
  <1>15. CASE UpdateStep(c)
    BY <1>2, <1>3, <1>4, <1>15 DEF UpdateStep, HashStep
  <1>16. CASE GetFriendsStep(c)
    BY <1>6, <1>7, <1>8, <1>9, <1>10, <1>11, <1>12, <1>13, <1>16 DEF GetFriendsStep, HashStep
  <1>. QED  BY <1>5, <1>14, <1>15, <1>16 DEF CallStep

\* Of any step: who moves is one call, and friendships only grow.
LEMMA StepView ==
    ASSUME Types, CacheInv, NEW c \in Calls, CallStep(c)
    PROVE  /\ \A d \in Calls \ {c} : MovedTo(d, call[d].pc)
           /\ friends \subseteq friends'
  BY HashStepView, OtherStepView, KeptView

-----------------------------------------------------------------------------
(* What an undisturbed update restores *)

\* Only the end of an update that nothing disturbed takes a user from the
\* disturbed ones, and then Redis and the database hold what it reported.
RepairedByUpdate ==
    [][\A u \in disturbed \ disturbed' :
         /\ cache'[u] = row'[u]
         /\ \E c \in Calls : call[c].pc = "updated" /\ call[c].user = u
                             /\ row'[u] = call[c].entry]_vars

\* The next update that nothing disturbs restores the agreement, whatever
\* failures, repairs and overlaps came before.
THEOREM UpdateRestoresAgreement == Spec => RepairedByUpdate
  <1>. DEFINE Restored == \A u \in disturbed \ disturbed' :
         /\ cache'[u] = row'[u]
         /\ \E c \in Calls : call[c].pc = "updated" /\ call[c].user = u
                             /\ row'[u] = call[c].entry
  <1>1. ASSUME Types, CacheInv, NEW c \in Calls, CallStep(c)
        PROVE  Restored
    <2>1. CASE disturbed \subseteq disturbed'
      BY <2>1
    <2>2. CASE FinishUpdate(c)
      <3>. SUFFICES ASSUME NEW u \in disturbed \ disturbed'
                    PROVE  /\ cache'[u] = row'[u] /\ row'[u] = call[c].entry
                           /\ call[c].pc = "updated" /\ call[c].user = u
        OBVIOUS
      <3>1. /\ call[c].pc = "updated" /\ call[c].clean /\ call[c].user = u
            /\ UNCHANGED <<row, cache>>
        BY <2>2 DEF FinishUpdate
      <3>2. /\ row[u] = call[c].entry
            /\ cache[u].status = call[c].entry.status
            /\ cache[u].token = call[c].entry.token
        BY <1>1, <3>1 DEF CacheInv, WrittenIsThere, Written, UpdateSteps
      <3>3. u \in Users
        BY <1>1 DEF Types
      <3>4. /\ cache[u] \in [status : Statuses \cup {None}, token : Tokens \cup {NoToken, None}]
            /\ call[c].entry \in [status : Statuses \cup {None},
                                  token : Tokens \cup {NoToken, None}]
        BY <1>1, <3>3 DEF Types, Call
      <3>5. cache[u] = call[c].entry
        BY <3>2, <3>4
      <3>. QED  BY <3>1, <3>2, <3>5
    <2>. QED  BY <1>1, <2>1, <2>2, HashStepView, OtherStepView
  <1>2. RedisFlush => Restored
    BY DEF RedisFlush
  <1>3. Types /\ CacheInv /\ [Next]_vars => [Restored]_vars
    <2>. HIDE DEF Restored
    <2>. QED  BY <1>1, <1>2 DEF Next, CallStep
  <1>. QED
    BY <1>3, TypesAtStart, TypesStep, CacheAtStart, CacheStep, PTL DEF Spec, RepairedByUpdate

-----------------------------------------------------------------------------
(* What a GetUserStatus reads *)

\* An answer from the cache, for a user with an entry in Redis, is the status
\* of the database row, unless the user is disturbed or being written.
HitsAreCurrent ==
    [][\A c \in Calls :
         LET u == call[c].user
         IN  /\ call[c].pc = "getCache" /\ call'[c].pc = "answered" /\ call'[c].ok
             /\ u \notin disturbed
             /\ \A d \in Calls : ~WritesTo(d, u)
             => call'[c].entry.status = row[u].status]_vars

\* A status appears in Redis only by a call that writes this user's entry: a
\* GetUserStatus that finds nothing there fills nothing, so that the user reads
\* as OFFLINE until the next update or read-repair.
OnlyWritersFill ==
    [][\A u \in Users : cache[u].status = None /\ cache'[u].status # None =>
         \E c \in Calls : WritesTo(c, u) /\ cache'[u].status = call[c].entry.status]_vars

\* A step in which a call answers from the cache is its GetStatusFromCache.
LEMMA AnswerIsRead ==
    ASSUME Types, CacheInv, [Next]_vars, NEW c \in Calls,
           call[c].pc = "getCache", call'[c].pc = "answered"
    PROVE  GetStatusFromCache(c)
  <1>1. ~UNCHANGED vars
    BY DEF vars
  <1>2. ~RedisFlush
    <2>1. SUFFICES ASSUME RedisFlush PROVE FALSE
      OBVIOUS
    <2>2. Kept(c)
      BY <2>1 DEF RedisFlush, Kept
    <2>. QED  BY <2>2, KeptView DEF MovedTo
  <1>3. PICK d \in Calls : CallStep(d)
    BY <1>1, <1>2 DEF Next, CallStep
  <1>4. d = c
    BY <1>3, StepView DEF MovedTo
  <1>5. CallStep(c) /\ ~HashStep(c)
    BY <1>3, <1>4
    DEF HashStep, CacheStatus, CacheToken, GateCacheStatus, RepairStatus, RepairToken
  <1>6. ~UpdateStep(c)
    <2>1. \A u, e : ~StartUpdate(c, u, e)
      BY DEF StartUpdate, Idle
    <2>. QED  BY <1>5, <2>1 DEF UpdateStep, HashStep, UpdateUserStatusInDB, FinishUpdate
  <1>7. ~AddFriendStep(c)
    <2>1. \A u, f : ~StartAddFriend(c, u, f)
      BY DEF StartAddFriend, Idle
    <2>. QED  BY <2>1 DEF AddFriendStep, FriendExistsInDB, AddFirstDirection,
                          AddSecondDirection, FinishAddFriend
  <1>8. ~GetFriendsStep(c)
    <2>1. \A u : ~StartGetFriends(c, u)
      BY DEF StartGetFriends, Idle
    <2>. QED  BY <1>5, <2>1
              DEF GetFriendsStep, HashStep, GetCachedFriendsList, QueryFriends, DropCachedList,
                  FillCachedList, GetFriendStatus, RepairRead, FinishRepair
  <1>9. GetStatusStep(c)
    BY <1>5, <1>6, <1>7, <1>8 DEF CallStep
  <1>10. \A u : ~StartGetStatus(c, u)
    BY DEF StartGetStatus, Idle
  <1>. QED  BY <1>9, <1>10 DEF GetStatusStep, GetStatusFromDB, FinishGetStatus

\* However calls, failures and flushes interleave, a hit is the database's
\* status, unless the user is disturbed or being written.
THEOREM HitsAgreeWithDatabase == Spec => HitsAreCurrent
  <1>1. ASSUME Types, CacheInv, [Next]_vars, NEW c \in Calls,
               call[c].pc = "getCache", call'[c].pc = "answered", call'[c].ok,
               call[c].user \notin disturbed,
               \A d \in Calls : ~WritesTo(d, call[c].user)
        PROVE  call'[c].entry.status = row[call[c].user].status
    <2>. DEFINE u == call[c].user
    <2>1. u \in Users /\ call[c] \in Call
      BY <1>1 DEF Types, GoodCall
    <2>2. GetStatusFromCache(c)
      BY <1>1, AnswerIsRead
    <2>3. \/ call' = [call EXCEPT ![c] =
               [call[c] EXCEPT !.pc = "answered", !.entry.status = CachedStatus(u),
                               !.ok = cache[u].status # None]]
          \/ call' = [call EXCEPT ![c].pc = "getRow"]
      BY <1>1, <2>2 DEF GetStatusFromCache, Goto, Types, Call
    <2>4. call' = [call EXCEPT ![c] =
               [call[c] EXCEPT !.pc = "answered", !.entry.status = CachedStatus(u),
                               !.ok = cache[u].status # None]]
      BY <1>1, <2>1, <2>3 DEF Types, Call
    <2>5. call'[c].entry.status = CachedStatus(u) /\ cache[u].status # None
      <3>. HIDE DEF u
      <3>1. call'[c] = [call[c] EXCEPT !.pc = "answered", !.entry.status = CachedStatus(u),
                                       !.ok = cache[u].status # None]
        BY <1>1, <2>4 DEF Types
      <3>2. call[c].entry \in [status : Statuses \cup {None}, token : Tokens \cup {NoToken, None}]
        BY <2>1 DEF Call
      <3>3. ASSUME NEW v, NEW b, call'[c] = [call[c] EXCEPT !.pc = "answered",
                                                           !.entry.status = v, !.ok = b]
            PROVE  call'[c].entry.status = v /\ call'[c].ok = b
        BY <2>1, <3>2, <3>3 DEF Call
      <3>4. call'[c].entry.status = CachedStatus(u) /\ call'[c].ok = (cache[u].status # None)
        BY <3>1, <3>3
      <3>. QED  BY <1>1, <3>4
    <2>6. \A d \in Calls : ~Writes(d, u)
      <3>1. ASSUME NEW d \in Calls, Writes(d, u) PROVE WritesTo(d, u)
        BY <1>1, <2>1, <3>1, NoneAssumption
        DEF CacheInv, UncleanIsDisturbed, Writes, WritesTo, UpdateSteps, RepairSteps,
            WritingSteps
      <3>. QED  BY <1>1, <3>1
    <2>7. cache[u] \in {NoEntry, row[u]}
      BY <1>1, <2>1, <2>6 DEF CacheInv, AgreesWithoutWriter
    <2>8. cache[u] = row[u]
      BY <2>5, <2>7 DEF NoEntry
    <2>. QED  BY <2>5, <2>8 DEF CachedStatus
  <1>2. Types /\ CacheInv /\ [Next]_vars =>
          [\A c \in Calls :
             LET u == call[c].user
             IN  /\ call[c].pc = "getCache" /\ call'[c].pc = "answered" /\ call'[c].ok
                 /\ u \notin disturbed
                 /\ \A d \in Calls : ~WritesTo(d, u)
                 => call'[c].entry.status = row[u].status]_vars
    BY <1>1
  <1>. QED
    BY <1>2, TypesAtStart, TypesStep, CacheAtStart, CacheStep, PTL DEF Spec, HitsAreCurrent

\* A missing status comes back by an update or a read-repair only.
THEOREM MissesFillNothing == Spec => OnlyWritersFill
  <1>. DEFINE Filled == \A u \in Users : cache[u].status = None /\ cache'[u].status # None =>
         \E c \in Calls : WritesTo(c, u) /\ cache'[u].status = call[c].entry.status
  <1>1. ASSUME Types, CacheInv, NEW c \in Calls, CallStep(c)
        PROVE  Filled
    <2>1. CASE HashStep(c)
      BY <1>1, <2>1, HashStepView
    <2>2. CASE ~HashStep(c)
      BY <1>1, <2>2, OtherStepView
    <2>. QED  BY <2>1, <2>2
  <1>2. RedisFlush => Filled
    BY DEF RedisFlush, NoEntry
  <1>3. Types /\ CacheInv /\ [Next]_vars => [Filled]_vars
    <2>. HIDE DEF Filled
    <2>. QED  BY <1>1, <1>2 DEF Next, CallStep
  <1>. QED
    BY <1>3, TypesAtStart, TypesStep, CacheAtStart, CacheStep, PTL DEF Spec, OnlyWritersFill

-----------------------------------------------------------------------------
(* Whom a GetFriendsStatus tells of *)

\* The steps of a GetFriendsStatus.
ListSteps == {"getList", "queryFriends", "dropList", "fillList", "nextFriend",
              "repairRead", "repairStatus", "repairToken", "repaired"}

\* The friends that the call goes on to look up, and the one it is at.
TellsOfFriends(c) ==
    call[c].pc \in ListSteps =>
        /\ \A f \in call[c].todo : <<call[c].user, f>> \in friends
        /\ call[c].other # None => <<call[c].user, call[c].other>> \in friends

\* A GetFriendsStatus looks up, and tells of, nobody who is not a friend of
\* its user, whether its list came from Redis or from the database.
OnlyFriendsAreTold == \A c \in Calls : TellsOfFriends(c)

\* A step of a GetFriendsStatus keeps to its list.
LEMMA GetFriendsTells ==
    ASSUME IInv, CacheInv, OnlyFriendsAreTold, NEW c \in Calls, GetFriendsStep(c), ~HashStep(c)
    PROVE  TellsOfFriends(c)'
  <1>0. /\ call \in [Calls -> Call] /\ GoodCall(call[c]) /\ TellsOfFriends(c)
        /\ call[c] \in Call
    BY DEF IInv, Types, OnlyFriendsAreTold
  <1>. USE DEF TellsOfFriends, ListSteps
  <1>1. ASSUME NEW u, StartGetFriends(c, u)
        PROVE  TellsOfFriends(c)'
    BY <1>0, <1>1 DEF StartGetFriends, Idle
  <1>2. CASE GetCachedFriendsList(c)
    <2>1. call[c].user \in Users /\ call[c].pc = "getList" /\ UNCHANGED friends
      BY <1>0, <1>2 DEF GetCachedFriendsList, GoodCall
    <2>2. CASE call' = [call EXCEPT ![c].pc = "nextFriend",
                                    ![c].todo = cacheFriends[call[c].user]]
      <3>1. /\ call'[c].todo = cacheFriends[call[c].user] /\ call'[c].user = call[c].user
            /\ call'[c].other = call[c].other
        BY <1>0, <2>2 DEF Call
      <3>2. \A f \in cacheFriends[call[c].user] : <<call[c].user, f>> \in friends
        BY <2>1 DEF IInv, FriendInv, CachedFriendsAreFriends
      <3>. QED  BY <1>0, <2>1, <3>1, <3>2
    <2>3. CASE Goto(c, "queryFriends")
      BY <1>0, <2>1, <2>3 DEF Goto, Call
    <2>. QED  BY <1>2, <2>2, <2>3 DEF GetCachedFriendsList
  <1>3. CASE QueryFriends(c)
    <2>1. PICK list \in {FriendsOf(call[c].user), {}} :
             call' = [call EXCEPT ![c].pc = "dropList", ![c].todo = list, ![c].uncached = list]
      BY <1>3 DEF QueryFriends
    <2>2. /\ call'[c].todo = list /\ call'[c].user = call[c].user
          /\ call'[c].other = call[c].other
      BY <1>0, <2>1 DEF Call
    <2>3. \A f \in list : <<call[c].user, f>> \in friends
      BY <2>1 DEF FriendsOf
    <2>. QED  BY <1>0, <1>3, <2>2, <2>3 DEF QueryFriends
  <1>4. CASE DropCachedList(c)
    BY <1>0, <1>4 DEF DropCachedList, Call
  <1>5. CASE FillCachedList(c)
    BY <1>0, <1>5 DEF FillCachedList, Goto, Call
  <1>6. CASE GetFriendStatus(c)
    <2>1. call[c].pc = "nextFriend" /\ UNCHANGED friends
      BY <1>6 DEF GetFriendStatus
    <2>2. CASE call' = [call EXCEPT ![c] = Idle]
      BY <1>0, <2>2 DEF Idle
    <2>3. ASSUME NEW f \in call[c].todo, call' = [call EXCEPT ![c].todo = @ \ {f}]
          PROVE  TellsOfFriends(c)'
      BY <1>0, <2>1, <2>3 DEF Call
    <2>4. ASSUME NEW f \in call[c].todo,
                 call' = [call EXCEPT ![c].todo = @ \ {f}, ![c].other = f,
                                      ![c].pc = "repairRead"]
          PROVE  TellsOfFriends(c)'
      <3>1. /\ call'[c].todo = call[c].todo \ {f} /\ call'[c].other = f
            /\ call'[c].user = call[c].user
        BY <1>0, <2>4 DEF Call
      <3>. QED  BY <1>0, <2>1, <3>1
    <2>. QED  BY <1>6, <2>2, <2>3, <2>4 DEF GetFriendStatus
  <1>7. CASE RepairRead(c)
    <2>. DEFINE next == [call EXCEPT ![c].pc = "repairStatus", ![c].entry =
                           [status |-> row[call[c].other].status, token |-> NoToken]]
    <2>1. call[c].pc = "repairRead" /\ UNCHANGED friends
      BY <1>7 DEF RepairRead
    <2>2. CASE Disturb(call[c].other, next)
      <3>1. next[c].todo = call[c].todo /\ next[c].user = call[c].user
            /\ next[c].other = call[c].other
        BY <1>0 DEF Call
      <3>2. /\ call'[c].todo = next[c].todo /\ call'[c].user = next[c].user
            /\ call'[c].other = next[c].other
        <4>1. next[c] \in [pc : {"repairStatus"}, user : Users \cup {None},
                           entry : {next[c].entry}, ok : BOOLEAN, clean : BOOLEAN,
                           todo : SUBSET Users, uncached : SUBSET Users,
                           other : Users \cup {None}]
          BY <1>0 DEF Call
        <4>. HIDE DEF next
        <4>2. call'[c] = next[c] \/ call'[c] = [next[c] EXCEPT !.clean = FALSE]
          BY <2>2, DisturbKept
        <4>. QED  BY <4>1, <4>2
      <3>. QED  BY <1>0, <2>1, <3>1, <3>2
    <2>3. CASE call' = [call EXCEPT ![c].pc = "nextFriend", ![c].other = None]
      <3>1. /\ call'[c].todo = call[c].todo /\ call'[c].other = None
            /\ call'[c].user = call[c].user
        BY <1>0, <2>3 DEF Call
      <3>. QED  BY <1>0, <2>1, <3>1
    <2>. QED  BY <1>7, <2>2, <2>3 DEF RepairRead
  <1>8. CASE FinishRepair(c)
    <2>1. /\ call'[c].todo = call[c].todo /\ call'[c].other = None
          /\ call'[c].user = call[c].user /\ call[c].pc = "repaired" /\ UNCHANGED friends
      BY <1>0, <1>8 DEF FinishRepair, Call
    <2>. QED  BY <1>0, <2>1
  <1>. QED
    BY <1>1, <1>2, <1>3, <1>4, <1>5, <1>6, <1>7, <1>8 DEF GetFriendsStep, HashStep

\* A call that has failed to write the row goes on as a call.
LEMMA FailedRowIsCall ==
    ASSUME NEW r \in Call
    PROVE  LET q == [r EXCEPT !.pc = "cacheStatus", !.ok = FALSE]
           IN  q \in Call /\ q.pc = "cacheStatus"
  BY DEF Call, Steps, WritingSteps

\* Every step keeps it: friendships are never taken back.
LEMMA TellsStep ==
    IInv /\ CacheInv /\ OnlyFriendsAreTold /\ [Next]_vars => OnlyFriendsAreTold'
  <1>. SUFFICES ASSUME IInv, CacheInv, OnlyFriendsAreTold, [Next]_vars
                PROVE  OnlyFriendsAreTold'
    OBVIOUS
  <1>0. Types
    BY DEF IInv
  <1>1. ASSUME NEW d \in Calls, NEW pc, MovedTo(d, pc), friends \subseteq friends',
               pc \in ListSteps => call[d].pc \in ListSteps
        PROVE  TellsOfFriends(d)'
    BY <1>1 DEF OnlyFriendsAreTold, TellsOfFriends, MovedTo
  <1>2. ASSUME NEW c \in Calls, CallStep(c)
        PROVE  OnlyFriendsAreTold'
    <2>1. /\ \A d \in Calls \ {c} : MovedTo(d, call[d].pc)
          /\ friends \subseteq friends'
      BY <1>0, <1>2, StepView
    <2>2. \A d \in Calls \ {c} : TellsOfFriends(d)'
      BY <1>1, <2>1
    <2>3. CASE HashStep(c)
      <3>1. PICK pc \in Steps : MovedTo(c, pc)
        BY <1>0, <2>3, HashStepView
      <3>2. /\ call'[c].pc \in {"cacheToken", "gateStatus", "updated", "repairToken", "repaired"}
            /\ call'[c].pc \in {"repairToken", "repaired"} =>
                 call[c].pc \in {"repairStatus", "repairToken"}
        BY <1>0, <2>3, HashStepView
      <3>3. pc = call'[c].pc
        BY <3>1 DEF MovedTo
      <3>4. pc \in ListSteps => call[c].pc \in ListSteps
        BY <3>2, <3>3 DEF ListSteps
      <3>5. TellsOfFriends(c)'
        BY <1>1, <2>1, <3>1, <3>4
      <3>. QED  BY <2>2, <3>5 DEF OnlyFriendsAreTold
    <2>4. CASE GetFriendsStep(c) /\ ~HashStep(c)
      BY <2>2, <2>4, GetFriendsTells DEF OnlyFriendsAreTold
    <2>5. CASE UpdateStep(c) /\ ~HashStep(c)
      <3>1. call'[c].pc \in {"updateDB", "cacheStatus", "idle"}
        <4>1. ASSUME NEW next, call'[c] = next[c] \/ call'[c] = [next[c] EXCEPT !.clean = FALSE],
                     next[c] \in Call
              PROVE  call'[c].pc = next[c].pc
          BY <4>1 DEF Call
        <4>2. ASSUME NEW u \in Reporters, NEW s \in Statuses, NEW t \in Tokens,
                     StartUpdate(c, u, [status |-> s, token |-> t])
              PROVE  call'[c].pc = "updateDB"
          <5>. DEFINE r == [Started(u, s, t) EXCEPT !.clean = ~ \E d \in Calls : WritesTo(d, u)]
                      next == [call EXCEPT ![c] = r]
          <5>1. r \in Call /\ r.pc = "updateDB"
            <6>0. u \in Users
              BY UsersAssumption
            <6>1. /\ Started(u, s, t) \in Call /\ Started(u, s, t).pc = "updateDB"
                  /\ Started(u, s, t).user = u /\ Started(u, s, t).other = None
                  /\ Started(u, s, t).entry = [status |-> s, token |-> t]
              BY <6>0, StartedIsCall
            <6>. QED  BY <6>1 DEF Call
          <5>2. next[c] = r
            BY <1>0 DEF Types
          <5>3. call' = next \/ Disturb(u, next)
            BY <4>2 DEF StartUpdate, Started, Idle
          <5>. HIDE DEF r, next
          <5>. QED  BY <4>1, <5>1, <5>2, <5>3, DisturbKept
        <4>3. CASE UpdateUserStatusInDB(c)
          <5>. DEFINE next == [call EXCEPT ![c].pc = "cacheStatus", ![c].ok = FALSE]
          <5>1. next[c] \in Call /\ next[c].pc = "cacheStatus"
            <6>. DEFINE r == [call[c] EXCEPT !.pc = "cacheStatus", !.ok = FALSE]
            <6>0. call[c] \in Call
              BY <1>0 DEF Types
            <6>1. r \in Call /\ r.pc = "cacheStatus"
              BY <6>0, FailedRowIsCall
            <6>2. next[c] = r
              BY <1>0 DEF Types, Call
            <6>. QED  BY <6>1, <6>2
          <5>2. Goto(c, "cacheStatus") \/ Disturb(call[c].user, next)
            BY <4>3 DEF UpdateUserStatusInDB
          <5>3. Goto(c, "cacheStatus") => call'[c].pc = "cacheStatus"
            BY <1>0 DEF Types, Call, Goto
          <5>. HIDE DEF next
          <5>. QED  BY <4>1, <5>1, <5>2, <5>3, DisturbKept
        <4>4. CASE FinishUpdate(c)
          BY <1>0, <4>4 DEF FinishUpdate, Idle, Types
        <4>. QED  BY <2>5, <4>2, <4>3, <4>4 DEF UpdateStep, HashStep
      <3>2. TellsOfFriends(c)'
        BY <3>1 DEF TellsOfFriends, ListSteps
      <3>. QED  BY <2>2, <3>2 DEF OnlyFriendsAreTold
    <2>6. CASE GetStatusStep(c)
      <3>0. call \in [Calls -> Call]
        BY <1>0 DEF Types
      <3>1. ASSUME NEW u, StartGetStatus(c, u)
            PROVE  call'[c].pc \notin ListSteps
        BY <3>0, <3>1 DEF StartGetStatus, Idle, ListSteps
      <3>2. GetStatusFromCache(c) => call'[c].pc \notin ListSteps
        BY <3>0 DEF GetStatusFromCache, Goto, ListSteps, Call
      <3>3. GetStatusFromDB(c) => call'[c].pc \notin ListSteps
        BY <3>0 DEF GetStatusFromDB, Idle, ListSteps, Call
      <3>4. FinishGetStatus(c) => call'[c].pc \notin ListSteps
        BY <3>0 DEF FinishGetStatus, Idle, ListSteps
      <3>5. call'[c].pc \notin ListSteps
        BY <2>6, <3>1, <3>2, <3>3, <3>4 DEF GetStatusStep
      <3>6. TellsOfFriends(c)'
        BY <3>5 DEF TellsOfFriends
      <3>. QED  BY <2>2, <3>6 DEF OnlyFriendsAreTold
    <2>7. CASE AddFriendStep(c)
      <3>0. call \in [Calls -> Call]
        BY <1>0 DEF Types
      <3>1. ASSUME NEW u, NEW f, StartAddFriend(c, u, f)
            PROVE  call'[c].pc \notin ListSteps
        BY <3>0, <3>1 DEF StartAddFriend, Idle, ListSteps
      <3>2. FriendExistsInDB(c) => call'[c].pc \notin ListSteps
        BY <3>0 DEF FriendExistsInDB, Goto, Idle, ListSteps, Call
      <3>3. AddFirstDirection(c) => call'[c].pc \notin ListSteps
        BY <3>0 DEF AddFirstDirection, Goto, Idle, ListSteps, Call
      <3>4. AddSecondDirection(c) => call'[c].pc \notin ListSteps
        BY <3>0 DEF AddSecondDirection, Goto, Idle, ListSteps, Call
      <3>5. FinishAddFriend(c) => call'[c].pc \notin ListSteps
        BY <3>0 DEF FinishAddFriend, Idle, ListSteps
      <3>6. call'[c].pc \notin ListSteps
        BY <2>7, <3>1, <3>2, <3>3, <3>4, <3>5 DEF AddFriendStep
      <3>7. TellsOfFriends(c)'
        BY <3>6 DEF TellsOfFriends
      <3>. QED  BY <2>2, <3>7 DEF OnlyFriendsAreTold
    <2>. QED  BY <1>2, <2>3, <2>4, <2>5, <2>6, <2>7 DEF CallStep
  <1>3. CASE RedisFlush
    <2>1. \A d \in Calls : MovedTo(d, call[d].pc)
      <3>1. \A d \in Calls : Kept(d)
        BY <1>3 DEF RedisFlush, Kept
      <3>. QED  BY <1>0, <3>1, KeptView
    <2>2. friends' = friends
      BY <1>3 DEF RedisFlush
    <2>. QED  BY <1>1, <2>1, <2>2 DEF OnlyFriendsAreTold
  <1>4. CASE UNCHANGED vars
    BY <1>4 DEF vars, OnlyFriendsAreTold, TellsOfFriends
  <1>. QED  BY <1>2, <1>3, <1>4 DEF Next, CallStep

\* Whatever the cache has lost and whoever else adds friends meanwhile, a
\* GetFriendsStatus tells of its user's friends only.
THEOREM OnlyFriendsTold == Spec => []OnlyFriendsAreTold
  <1>1. Init => OnlyFriendsAreTold
    BY DEF Init, Idle, OnlyFriendsAreTold, TellsOfFriends, ListSteps
  <1>2. IInv => Types
    BY DEF IInv
  <1>. QED
    BY <1>1, <1>2, TellsStep, InvAtStart, InvStep, CacheAtStart, CacheStep, PTL DEF Spec
=============================================================================
