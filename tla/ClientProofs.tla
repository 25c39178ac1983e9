---------------------------- MODULE ClientProofs ----------------------------
(***************************************************************************)
(* The safety properties of Client, proved for any users, requests and     *)
(* depth of the page stack, with the rate limiter's for any limit and      *)
(* window.                                                                 *)
(***************************************************************************)
EXTENDS Client, FiniteSetTheorems, TLAPS

\* A page stack is never empty, its first page is no register page (so there
\* is always a page to go back to), and only login pages are covered.
GoodPages(p) ==
    /\ p \in Seq(Page)
    /\ p # << >>
    /\ p[1].page # "register"
    /\ \A i \in 1..(Len(p) - 1) : p[i].page = "login"

\* What is said of the user and the socket.
SessionInv ==
    /\ user \in Users \cup {None}
    /\ socket \in [state : {"connecting", "connected"}, user : Users] \cup {NoSocket}
    /\ requests \in [Requests -> [endpoint : Endpoints, user : Users,
                                  reply : {"pending", "success", "error"}] \cup {Idle}]
    /\ ShownUserOwnsSession

\* The inductive invariant.
IInv == HttpTypeOK /\ GoodPages(pages) /\ SessionInv

-----------------------------------------------------------------------------
(* The rate limiter *)

\* The lesser of two numbers is one of them, and no greater than the other.
LEMMA MinOfTwo ==
    ASSUME NEW m \in Nat, NEW n \in Nat
    PROVE  Min({m, n}) \in {m, n} /\ Min({m, n}) <= m /\ Min({m, n}) <= n
  <1>1. \E x \in {m, n} : \A y \in {m, n} : x <= y
    <2>1. CASE m <= n
      BY <2>1
    <2>2. CASE n <= m
      BY <2>2
    <2>. QED  BY <2>1, <2>2
  <1>2. Min({m, n}) \in {m, n} /\ \A y \in {m, n} : Min({m, n}) <= y
    BY <1>1 DEF Min
  <1>. QED  BY <1>2

\* A second that passes keeps the types.
LEMMA TickType == HttpTypeOK /\ Tick => HttpTypeOK'
  <1>. SUFFICES ASSUME HttpTypeOK, Tick PROVE HttpTypeOK'
    OBVIOUS
  <1>. USE WindowAssumption, MaxRequestsAssumption
  <1>1. age \in 0..(Window + 1) /\ recent \in [0..Window -> Nat]
    BY DEF HttpTypeOK
  <1>2. age' \in 0..(Window + 1)
    <2>1. age + 1 \in Nat /\ Window + 1 \in Nat
      BY <1>1
    <2>2. age' = Min({age + 1, Window + 1})
      BY DEF Tick
    <2>. QED  BY <2>1, <2>2, MinOfTwo
  <1>3. recent' \in [0..Window -> Nat]
    <2>1. \A k \in 0..Window : k # 0 => k - 1 \in 0..Window
      OBVIOUS
    <2>. QED  BY <1>1, <2>1 DEF Tick
  <1>. QED  BY <1>2, <1>3 DEF Tick, HttpTypeOK

\* A request keeps the types: in particular no window counts more requests
\* than the limit.
LEMMA OnReadType ==
    ASSUME HttpTypeOK, NEW endpoint, NEW u \in Users, NEW reply,
           OnRead(endpoint, u, reply)
    PROVE  HttpTypeOK'
  <1>. USE WindowAssumption, MaxRequestsAssumption DEF HttpTypeOK
  <1>1. CASE Refuse(reply)
    BY <1>1 DEF Refuse, httpVars, limiterVars
  <1>2. ASSUME IsAllowed, CountRequest
        PROVE  /\ count' \in 0..MaxRequests
               /\ age' \in 0..(Window + 1)
               /\ recent' \in [0..Window -> Nat]
    <2>1. count' \in 0..MaxRequests
      BY <1>2 DEF IsAllowed, CountRequest, WindowExpired
    <2>2. age' \in 0..(Window + 1)
      BY <1>2 DEF CountRequest
    <2>3. recent' \in [0..Window -> Nat]
      BY <1>2 DEF CountRequest
    <2>. QED  BY <2>1, <2>2, <2>3
  <1>3. CASE HandleLogin(u, reply)
    BY <1>2, <1>3 DEF HandleLogin
  <1>4. CASE HandleRegister(u, reply)
    BY <1>2, <1>4 DEF HandleRegister
  <1>. QED  BY <1>1, <1>3, <1>4 DEF OnRead

-----------------------------------------------------------------------------
(* The requests of the last seconds *)

\* The seconds that lie in the limiter's window when it is a seconds old.
Since(a) == {k \in 0..Window : k <= a}

\* The limiter's count covers what was allowed since its window began; what
\* was allowed before that began within one older window.
WindowInv ==
    /\ IsFiniteSet(AllowedIn(recent, 0..Window))
    /\ Cardinality(AllowedIn(recent, Since(age))) <= count
    /\ Cardinality(AllowedIn(recent, 0..Window \ Since(age))) <= MaxRequests
    /\ age = Window + 1 => recent[0] = 0
    /\ count = 0 => AllowedIn(recent, 0..Window) = {}

\* Which requests a history counts.
LEMMA AllowedElements ==
    ASSUME NEW f, NEW S, NEW k, NEW n
    PROVE  /\ <<k, n>> \in AllowedIn(f, S) <=> k \in S /\ n \in 1..f[k]
           /\ \A r \in AllowedIn(f, S) :
                r = <<r[1], r[2]>> /\ r[1] \in S /\ r[2] \in 1..f[r[1]]
  BY DEF AllowedIn

\* In fewer seconds there are no more requests, and the requests of all
\* seconds are those of some and those of the others.
LEMMA AllowedParts ==
    ASSUME NEW f, NEW T, NEW S \in SUBSET T, IsFiniteSet(AllowedIn(f, T))
    PROVE  /\ IsFiniteSet(AllowedIn(f, S))
           /\ Cardinality(AllowedIn(f, S)) \in Nat
           /\ Cardinality(AllowedIn(f, S)) <= Cardinality(AllowedIn(f, T))
           /\ Cardinality(AllowedIn(f, T))
                <= Cardinality(AllowedIn(f, S)) + Cardinality(AllowedIn(f, T \ S))
  <1>. DEFINE all == AllowedIn(f, T)
              some == AllowedIn(f, S)
              others == AllowedIn(f, T \ S)
  <1>1. some \in SUBSET all /\ others \in SUBSET all /\ all = some \cup others
    BY DEF AllowedIn
  <1>. HIDE DEF all, some, others
  <1>2. IsFiniteSet(all)
    BY DEF all
  <1>3. /\ IsFiniteSet(some) /\ Cardinality(some) <= Cardinality(all)
        /\ IsFiniteSet(others)
    BY <1>1, <1>2, FS_Subset
  <1>4. Cardinality(all) = Cardinality(some) + Cardinality(others) - Cardinality(some \cap others)
    BY <1>1, <1>3, FS_Union
  <1>5. /\ Cardinality(some) \in Nat /\ Cardinality(others) \in Nat
        /\ Cardinality(some \cap others) \in Nat
    BY <1>3, FS_CardinalityType, FS_Intersection
  <1>6. Cardinality(all) <= Cardinality(some) + Cardinality(others)
    BY <1>4, <1>5
  <1>. QED  BY <1>3, <1>5, <1>6 DEF all, some, others

\* A second later the same requests are one second older.
LEMMA ShiftedRequests ==
    ASSUME NEW f \in [0..Window -> Nat], NEW g \in [0..Window -> Nat],
           g[0] = 0, \A k \in 0..Window : k # 0 => g[k] = f[k - 1],
           NEW S \in SUBSET (0..Window), NEW T \in SUBSET (0..Window),
           \A k \in S : k # 0 => k - 1 \in T,
           IsFiniteSet(AllowedIn(f, T))
    PROVE  /\ IsFiniteSet(AllowedIn(g, S))
           /\ Cardinality(AllowedIn(g, S)) <= Cardinality(AllowedIn(f, T))
  <1>. DEFINE older == AllowedIn(g, S)
              same == AllowedIn(f, T)
              h == [r \in older |-> <<r[1] - 1, r[2]>>]
  <1>1. \A r \in older : /\ r = <<r[1], r[2]>>
                         /\ r[1] \in Int
                         /\ <<r[1] - 1, r[2]>> \in same
    <2>. SUFFICES ASSUME NEW r \in older
                  PROVE  /\ r = <<r[1], r[2]>>
                         /\ r[1] \in Int
                         /\ <<r[1] - 1, r[2]>> \in same
      OBVIOUS
    <2>1. r = <<r[1], r[2]>> /\ r[1] \in S /\ r[2] \in 1..g[r[1]]
      BY AllowedElements
    <2>2. r[1] \in 0..Window /\ r[1] # 0
      BY <2>1
    <2>3. r[1] - 1 \in T /\ r[2] \in 1..f[r[1] - 1]
      BY <2>1, <2>2
    <2>4. <<r[1] - 1, r[2]>> \in same
      BY <2>3, AllowedElements
    <2>. QED  BY <2>1, <2>2, <2>4
  <1>. HIDE DEF older, same
  <1>2. h \in Injection(older, same)
    BY <1>1 DEF Injection, IsInjective
  <1>. QED  BY <1>2, FS_Injection DEF older, same

\* One more request in this second.
LEMMA OneMoreRequest ==
    ASSUME NEW f \in [0..Window -> Nat], NEW S \in SUBSET (0..Window),
           IsFiniteSet(AllowedIn(f, S)), Window \in Nat
    PROVE  LET g == [f EXCEPT ![0] = @ + 1]
           IN  /\ IsFiniteSet(AllowedIn(g, S))
               /\ Cardinality(AllowedIn(g, S)) <= Cardinality(AllowedIn(f, S)) + 1
               /\ 0 \notin S => AllowedIn(g, S) = AllowedIn(f, S)
  <1>. DEFINE g == [f EXCEPT ![0] = @ + 1]
              new == <<0, f[0] + 1>>
  <1>1. /\ f[0] \in Nat /\ g[0] = f[0] + 1
        /\ \A k \in 0..Window : k # 0 => g[k] = f[k]
    OBVIOUS
  <1>. HIDE DEF g
  <1>2. AllowedIn(g, S) = IF 0 \in S THEN AllowedIn(f, S) \cup {new} ELSE AllowedIn(f, S)
    <2>1. ASSUME NEW r \in AllowedIn(g, S)
          PROVE  r \in AllowedIn(f, S) \/ (0 \in S /\ r = new)
      <3>1. r = <<r[1], r[2]>> /\ r[1] \in S /\ r[2] \in 1..g[r[1]]
        BY <2>1, AllowedElements
      <3>2. r[2] \in 1..f[r[1]] \/ (r[1] = 0 /\ r[2] = f[0] + 1)
        BY <1>1, <3>1
      <3>. QED  BY <3>1, <3>2, AllowedElements
    <2>2. ASSUME NEW r \in AllowedIn(f, S)
          PROVE  r \in AllowedIn(g, S)
      <3>1. r = <<r[1], r[2]>> /\ r[1] \in S /\ r[2] \in 1..f[r[1]]
        BY <2>2, AllowedElements
      <3>2. r[2] \in 1..g[r[1]]
        BY <1>1, <3>1
      <3>. QED  BY <3>1, <3>2, AllowedElements
    <2>3. 0 \in S => new \in AllowedIn(g, S)
      BY <1>1, AllowedElements
    <2>. QED  BY <2>1, <2>2, <2>3
  <1>3. /\ IsFiniteSet(AllowedIn(f, S) \cup {new})
        /\ Cardinality(AllowedIn(f, S) \cup {new}) <= Cardinality(AllowedIn(f, S)) + 1
    <2>. DEFINE old == AllowedIn(f, S)
    <2>. HIDE DEF old, new
    <2>1. IsFiniteSet(old) /\ Cardinality(old) \in Nat
      BY FS_CardinalityType DEF old
    <2>2. /\ IsFiniteSet(old \cup {new})
          /\ Cardinality(old \cup {new}) \in {Cardinality(old), Cardinality(old) + 1}
      BY <2>1, FS_AddElement
    <2>. QED  BY <2>1, <2>2 DEF old
  <1>4. Cardinality(AllowedIn(f, S)) \in Nat
    BY FS_CardinalityType
  <1>. QED  BY <1>2, <1>3, <1>4 DEF g

\* A second that passes keeps the limiter's invariant.
LEMMA TickWindow ==
    ASSUME HttpTypeOK, WindowInv, Tick
    PROVE  WindowInv'
  <1>. DEFINE all == 0..Window
  <1>. USE WindowAssumption
  <1>1. /\ recent \in [all -> Nat] /\ age \in 0..(Window + 1)
        /\ count \in 0..MaxRequests
      BY DEF HttpTypeOK
  <1>2. /\ recent' \in [all -> Nat] /\ recent'[0] = 0
        /\ \A k \in all : k # 0 => recent'[k] = recent[k - 1]
        /\ count' = count
    BY TickType DEF HttpTypeOK, Tick
  <1>3. age' = IF age <= Window THEN age + 1 ELSE Window + 1
    <2>1. age' = Min({age + 1, Window + 1})
      BY DEF Tick
    <2>2. age + 1 \in Nat /\ Window + 1 \in Nat
      BY <1>1
    <2>. QED  BY <1>1, <2>1, <2>2, MinOfTwo
  <1>4. /\ IsFiniteSet(AllowedIn(recent, all))
        /\ Cardinality(AllowedIn(recent, Since(age))) <= count
        /\ Cardinality(AllowedIn(recent, all \ Since(age))) <= MaxRequests
        /\ count = 0 => AllowedIn(recent, all) = {}
    BY DEF WindowInv
  <1>5. /\ Since(age) \in SUBSET all /\ all \ Since(age) \in SUBSET all
        /\ Since(age') \in SUBSET all /\ all \ Since(age') \in SUBSET all
    BY DEF Since
  <1>6. /\ \A k \in all : k # 0 => k - 1 \in all
        /\ \A k \in Since(age') : k # 0 => k - 1 \in Since(age)
        /\ \A k \in all \ Since(age') : k # 0 => k - 1 \in all \ Since(age)
    BY <1>1, <1>3 DEF Since
  <1>7. /\ IsFiniteSet(AllowedIn(recent, Since(age)))
        /\ IsFiniteSet(AllowedIn(recent, all \ Since(age)))
        /\ Cardinality(AllowedIn(recent, Since(age))) \in Nat
        /\ Cardinality(AllowedIn(recent, all \ Since(age))) \in Nat
    BY <1>4, <1>5, AllowedParts
  <1>. HIDE DEF all
  <1>8. /\ IsFiniteSet(AllowedIn(recent', all))
        /\ Cardinality(AllowedIn(recent', all)) <= Cardinality(AllowedIn(recent, all))
    BY <1>1, <1>2, <1>4, <1>6, ShiftedRequests DEF all
  <1>9. /\ IsFiniteSet(AllowedIn(recent', Since(age')))
        /\ Cardinality(AllowedIn(recent', Since(age')))
             <= Cardinality(AllowedIn(recent, Since(age)))
    BY <1>1, <1>2, <1>5, <1>6, <1>7, ShiftedRequests DEF all
  <1>10. /\ IsFiniteSet(AllowedIn(recent', all \ Since(age')))
         /\ Cardinality(AllowedIn(recent', all \ Since(age')))
              <= Cardinality(AllowedIn(recent, all \ Since(age)))
    BY <1>1, <1>2, <1>5, <1>6, <1>7, ShiftedRequests DEF all
  <1>11. /\ Cardinality(AllowedIn(recent', Since(age'))) \in Nat
         /\ Cardinality(AllowedIn(recent', all \ Since(age'))) \in Nat
    BY <1>9, <1>10, FS_CardinalityType
  <1>12. Cardinality(AllowedIn(recent', Since(age'))) <= count'
    BY <1>1, <1>2, <1>4, <1>7, <1>9, <1>11
  <1>13. Cardinality(AllowedIn(recent', all \ Since(age'))) <= MaxRequests
    BY <1>4, <1>7, <1>10, <1>11, MaxRequestsAssumption
  <1>14. count' = 0 => AllowedIn(recent', all) = {}
    <2>1. ASSUME count = 0 PROVE AllowedIn(recent', all) = {}
      <3>1. Cardinality(AllowedIn(recent, all)) = 0
        BY <1>4, <2>1, FS_EmptySet
      <3>2. Cardinality(AllowedIn(recent', all)) \in Nat
        BY <1>8, FS_CardinalityType
      <3>3. Cardinality(AllowedIn(recent', all)) = 0
        BY <1>8, <3>1, <3>2
      <3>. QED  BY <1>8, <3>3, FS_EmptySet
    <2>. QED  BY <1>2, <2>1
  <1>. QED  BY <1>2, <1>8, <1>12, <1>13, <1>14 DEF WindowInv, all

\* A request that is allowed keeps it, too: it opens a window when the last
\* one is over, and is covered by the limit when it is not.
LEMMA CountWindow ==
    ASSUME HttpTypeOK, WindowInv, IsAllowed, CountRequest
    PROVE  WindowInv'
  <1>. DEFINE all == 0..Window
  <1>. USE WindowAssumption, MaxRequestsAssumption
  <1>1. /\ recent \in [all -> Nat] /\ age \in 0..(Window + 1)
        /\ count \in 0..MaxRequests
      BY DEF HttpTypeOK
  <1>2. recent' = [recent EXCEPT ![0] = @ + 1]
    BY DEF CountRequest
  <1>3. /\ IsFiniteSet(AllowedIn(recent, all))
        /\ Cardinality(AllowedIn(recent, Since(age))) <= count
        /\ Cardinality(AllowedIn(recent, all \ Since(age))) <= MaxRequests
        /\ age = Window + 1 => recent[0] = 0
        /\ count = 0 => AllowedIn(recent, all) = {}
    BY DEF WindowInv
  <1>4. \A S \in SUBSET all :
          /\ IsFiniteSet(AllowedIn(recent, S))
          /\ Cardinality(AllowedIn(recent, S)) \in Nat
          /\ Cardinality(AllowedIn(recent, S)) <= Cardinality(AllowedIn(recent, all))
          /\ IsFiniteSet(AllowedIn(recent', S))
          /\ Cardinality(AllowedIn(recent', S)) <= Cardinality(AllowedIn(recent, S)) + 1
          /\ 0 \notin S => AllowedIn(recent', S) = AllowedIn(recent, S)
    <2>. SUFFICES ASSUME NEW S \in SUBSET all
                  PROVE  /\ IsFiniteSet(AllowedIn(recent, S))
                         /\ Cardinality(AllowedIn(recent, S)) \in Nat
                         /\ Cardinality(AllowedIn(recent, S))
                              <= Cardinality(AllowedIn(recent, all))
                         /\ IsFiniteSet(AllowedIn(recent', S))
                         /\ Cardinality(AllowedIn(recent', S))
                              <= Cardinality(AllowedIn(recent, S)) + 1
                         /\ 0 \notin S => AllowedIn(recent', S) = AllowedIn(recent, S)
      OBVIOUS
    <2>1. /\ IsFiniteSet(AllowedIn(recent, S))
          /\ Cardinality(AllowedIn(recent, S)) \in Nat
          /\ Cardinality(AllowedIn(recent, S)) <= Cardinality(AllowedIn(recent, all))
      BY <1>3, AllowedParts
    <2>. QED  BY <1>1, <1>2, <2>1, OneMoreRequest
  <1>5. /\ \A a : Since(a) \in SUBSET all /\ all \ Since(a) \in SUBSET all
        /\ all \in SUBSET all
        /\ \A a \in Nat : 0 \notin all \ Since(a)
    BY DEF Since
  <1>. HIDE DEF all
  <1>6. CASE ~WindowExpired
    <2>1. count' = count + 1 /\ age' = age /\ age <= Window
      BY <1>1, <1>6 DEF CountRequest, WindowExpired
    <2>2. Cardinality(AllowedIn(recent', Since(age))) <= Cardinality(AllowedIn(recent, Since(age))) + 1
      BY <1>4, <1>5
    <2>3. Cardinality(AllowedIn(recent', Since(age))) \in Nat
      BY <1>4, <1>5, FS_CardinalityType
    <2>4. Cardinality(AllowedIn(recent', Since(age'))) <= count'
      BY <1>1, <1>3, <1>4, <1>5, <2>1, <2>2, <2>3
    <2>5. AllowedIn(recent', all \ Since(age)) = AllowedIn(recent, all \ Since(age))
      BY <1>1, <1>4, <1>5
    <2>6. Cardinality(AllowedIn(recent', all \ Since(age'))) <= MaxRequests
      BY <1>3, <2>1, <2>5
    <2>. QED  BY <1>1, <1>4, <1>5, <2>1, <2>4, <2>6 DEF WindowInv, all
  <1>7. CASE WindowExpired
    <2>1. count' = 1 /\ age' = 0 /\ (count = 0 \/ age = Window + 1)
      BY <1>1, <1>7 DEF CountRequest, WindowExpired
    <2>2. AllowedIn(recent, Since(0)) = {}
      <3>1. CASE count = 0
        BY <1>3, <3>1 DEF AllowedIn, Since, all
      <3>2. CASE age = Window + 1
        BY <1>3, <3>2 DEF AllowedIn, Since
      <3>. QED  BY <2>1, <3>1, <3>2
    <2>3. Cardinality(AllowedIn(recent', Since(0))) <= 1
      BY <1>4, <1>5, <2>2, FS_EmptySet
    <2>4. Cardinality(AllowedIn(recent, all)) <= MaxRequests
      <3>1. CASE count = 0
        BY <1>3, <3>1, FS_EmptySet
      <3>2. CASE age = Window + 1
        <4>1. Since(age) = all
          BY <3>2 DEF Since, all
        <4>2. Cardinality(AllowedIn(recent, all)) <= count
          BY <1>3, <4>1
        <4>. QED  BY <1>1, <1>4, <1>5, <4>2
      <3>. QED  BY <2>1, <3>1, <3>2
    <2>5. AllowedIn(recent', all \ Since(0)) = AllowedIn(recent, all \ Since(0))
      BY <1>4, <1>5
    <2>6. Cardinality(AllowedIn(recent', all \ Since(0))) <= MaxRequests
      BY <1>4, <1>5, <2>4, <2>5
    <2>. QED  BY <1>4, <1>5, <2>1, <2>3, <2>6 DEF WindowInv, all
  <1>. QED  BY <1>6, <1>7

\* A request keeps the limiter's invariant, whether or not it is allowed.
LEMMA OnReadWindow ==
    ASSUME HttpTypeOK, WindowInv, NEW endpoint, NEW u, NEW reply,
           OnRead(endpoint, u, reply)
    PROVE  WindowInv'
  <1>1. CASE Refuse(reply)
    BY <1>1 DEF Refuse, httpVars, limiterVars, WindowInv
  <1>2. CASE HandleLogin(u, reply) \/ HandleRegister(u, reply)
    BY <1>2, CountWindow DEF HandleLogin, HandleRegister
  <1>. QED  BY <1>1, <1>2 DEF OnRead

\* What the two windows cover together is at most twice the limit.
LEMMA TwoWindows == HttpTypeOK /\ WindowInv => AtMostTwiceTheLimit
  <1>. SUFFICES ASSUME HttpTypeOK, WindowInv PROVE AtMostTwiceTheLimit
    OBVIOUS
  <1>1. Since(age) \in SUBSET (0..Window) /\ 0..Window \ Since(age) \in SUBSET (0..Window)
    BY DEF Since
  <1>2. /\ Cardinality(AllowedIn(recent, 0..Window))
             <= Cardinality(AllowedIn(recent, Since(age)))
                + Cardinality(AllowedIn(recent, 0..Window \ Since(age)))
        /\ Cardinality(AllowedIn(recent, Since(age))) \in Nat
        /\ Cardinality(AllowedIn(recent, 0..Window \ Since(age))) \in Nat
        /\ Cardinality(AllowedIn(recent, 0..Window)) \in Nat
    BY <1>1, AllowedParts, FS_CardinalityType DEF WindowInv
  <1>3. /\ Cardinality(AllowedIn(recent, Since(age))) <= MaxRequests
        /\ Cardinality(AllowedIn(recent, 0..Window \ Since(age))) <= MaxRequests
    BY <1>2, MaxRequestsAssumption DEF HttpTypeOK, WindowInv
  <1>4. Cardinality(AllowedIn(recent, 0..Window)) <= 2 * MaxRequests
    BY <1>2, <1>3, MaxRequestsAssumption
  <1>. QED  BY <1>4 DEF AtMostTwiceTheLimit

-----------------------------------------------------------------------------
(* The page stack *)

\* Enabling buttons changes no page's kind.
LEMMA EnablePages ==
    ASSUME GoodPages(pages), NEW kinds
    PROVE  /\ GoodPages(Enable(kinds))
           /\ Len(Enable(kinds)) = Len(pages)
           /\ \A i \in 1..Len(pages) : Enable(kinds)[i].page = pages[i].page
  <1>1. /\ pages \in Seq(Page)
        /\ Len(pages) \in Nat \ {0}
        /\ DOMAIN pages = 1..Len(pages)
        /\ \A i \in 1..Len(pages) : pages[i] \in Page
    BY DEF GoodPages
  <1>2. Enable(kinds) = [i \in 1..Len(pages) |->
          IF pages[i].page \in kinds THEN [pages[i] EXCEPT !.enabled = TRUE] ELSE pages[i]]
    BY <1>1 DEF Enable
  <1>3. \A i \in 1..Len(pages) :
          /\ Enable(kinds)[i] \in Page
          /\ Enable(kinds)[i].page = pages[i].page
    <2>1. \A p \in Page : LET q == [p EXCEPT !.enabled = TRUE]
                          IN  q \in Page /\ q.page = p.page
      BY DEF Page
    <2>2. \A i \in 1..Len(pages) :
            Enable(kinds)[i] \in {pages[i], [pages[i] EXCEPT !.enabled = TRUE]}
      BY <1>2
    <2>. QED  BY <1>1, <2>1, <2>2
  <1>4. Enable(kinds) \in Seq(Page) /\ Len(Enable(kinds)) = Len(pages)
    BY <1>1, <1>2, <1>3
  <1>. QED  BY <1>1, <1>3, <1>4 DEF GoodPages

\* What taking off the top page leaves.
LEMMA FrontFacts ==
    ASSUME NEW s \in Seq(Page), Len(s) \in Nat \ {0}
    PROVE  /\ Front(s) \in Seq(Page)
           /\ Len(Front(s)) = Len(s) - 1
           /\ \A i \in 1..(Len(s) - 1) : Front(s)[i] = s[i]
  <1>1. DOMAIN s = 1..Len(s) /\ s[Len(s)] \in Page
    OBVIOUS
  <1>2. Len(SubSeq(s, 1, Len(s) - 1)) = Len(s) - 1
    BY <1>1
  <1>3. SubSeq(s, 1, Len(s) - 1) \in Seq(Page)
    OBVIOUS
  <1>4. \A i \in 1..(Len(s) - 1) : SubSeq(s, 1, Len(s) - 1)[i] = s[i]
    OBVIOUS
  <1>. QED  BY <1>2, <1>3, <1>4 DEF Front

\* A register page on top can be taken off: it is not the only page.
LEMMA PopPages ==
    ASSUME GoodPages(pages), Top.page = "register"
    PROVE  GoodPages(Front(pages))
  <1>1. /\ pages \in Seq(Page)
        /\ Len(pages) \in Nat \ {0}
        /\ pages[1].page # "register"
        /\ pages[Len(pages)].page = "register"
        /\ \A i \in 1..(Len(pages) - 1) : pages[i].page = "login"
    BY DEF GoodPages, Top, Last
  <1>2. Len(pages) > 1
    BY <1>1
  <1>3. /\ Front(pages) \in Seq(Page)
        /\ Len(Front(pages)) = Len(pages) - 1
        /\ \A i \in 1..(Len(pages) - 1) : Front(pages)[i] = pages[i]
    BY <1>1, FrontFacts
  <1>. QED  BY <1>1, <1>2, <1>3 DEF GoodPages

\* A page goes on top of a login page.
LEMMA PushPages ==
    ASSUME GoodPages(pages), Top.page = "login", NEW p \in {"login", "register", "main"}
    PROVE  GoodPages(Push(p))
  <1>1. /\ pages \in Seq(Page)
        /\ Len(pages) \in Nat \ {0}
        /\ pages[1].page # "register"
        /\ pages[Len(pages)].page = "login"
        /\ \A i \in 1..(Len(pages) - 1) : pages[i].page = "login"
    BY DEF GoodPages, Top, Last
  <1>2. New(p) \in Page
    BY DEF New, Page
  <1>3. /\ Push(p) \in Seq(Page)
        /\ Len(Push(p)) = Len(pages) + 1
        /\ \A i \in 1..Len(pages) : Push(p)[i] = pages[i]
    BY <1>1, <1>2 DEF Push
  <1>4. \A i \in 1..Len(pages) : i = Len(pages) \/ i \in 1..(Len(pages) - 1)
    BY <1>1
  <1>. QED  BY <1>1, <1>3, <1>4 DEF GoodPages

\* The top page is replaced by a page that is not a register page.
LEMMA ReplacePages ==
    ASSUME NEW s, GoodPages(s), NEW p \in {"login", "main"}
    PROVE  GoodPages(Append(Front(s), New(p)))
  <1>1. /\ s \in Seq(Page)
        /\ Len(s) \in Nat \ {0}
        /\ s[1].page # "register"
        /\ \A i \in 1..(Len(s) - 1) : s[i].page = "login"
    BY DEF GoodPages
  <1>2. New(p) \in Page /\ New(p).page # "register"
    BY DEF New, Page
  <1>3. /\ Front(s) \in Seq(Page)
        /\ Len(Front(s)) = Len(s) - 1
        /\ \A i \in 1..(Len(s) - 1) : Front(s)[i] = s[i]
    BY <1>1, FrontFacts
  <1>4. /\ Append(Front(s), New(p)) \in Seq(Page)
        /\ Len(Append(Front(s), New(p))) = Len(s)
        /\ Append(Front(s), New(p))[Len(s)] = New(p)
        /\ \A i \in 1..(Len(s) - 1) : Append(Front(s), New(p))[i] = s[i]
    BY <1>1, <1>2, <1>3
  <1>5. Append(Front(s), New(p))[1].page # "register"
    <2>1. CASE Len(s) = 1
      BY <1>2, <1>4, <2>1
    <2>2. CASE Len(s) # 1
      BY <1>1, <1>4, <2>2
    <2>. QED  BY <2>1, <2>2
  <1>. QED  BY <1>1, <1>4, <1>5 DEF GoodPages

\* Disabling the button of the top page changes no page's kind.
LEMMA DisablePages ==
    ASSUME GoodPages(pages), NEW p, p = [pages EXCEPT ![Len(pages)].enabled = FALSE]
    PROVE  GoodPages(p)
  <1>1. /\ pages \in Seq(Page)
        /\ Len(pages) \in Nat \ {0}
        /\ DOMAIN pages = 1..Len(pages)
        /\ pages[Len(pages)] \in Page
    BY DEF GoodPages
  <1>2. /\ p \in Seq(Page)
        /\ Len(p) = Len(pages)
        /\ \A i \in 1..Len(pages) : p[i].page = pages[i].page
    <2>1. p = [pages EXCEPT ![Len(pages)] = [pages[Len(pages)] EXCEPT !.enabled = FALSE]]
      OBVIOUS
    <2>2. /\ [pages[Len(pages)] EXCEPT !.enabled = FALSE] \in Page
          /\ [pages[Len(pages)] EXCEPT !.enabled = FALSE].page = pages[Len(pages)].page
      BY <1>1 DEF Page
    <2>. QED  BY <1>1, <2>1, <2>2
  <1>. QED  BY <1>1, <1>2 DEF GoodPages

-----------------------------------------------------------------------------
(* The initial states and the steps *)

\* The initial states satisfy the inductive invariant.
LEMMA InitIInv == Init => IInv
  <1>. SUFFICES ASSUME Init PROVE IInv
    OBVIOUS
  <1>. USE DEF Init
  <1>1. HttpTypeOK
    BY WindowAssumption, MaxRequestsAssumption DEF HttpInit, HttpTypeOK
  <1>2. GoodPages(pages)
    BY DEF GoodPages, New, Page
  <1>3. SessionInv
    BY DEF SessionInv, ShownUserOwnsSession
  <1>. QED  BY <1>1, <1>2, <1>3 DEF IInv

\* A request that is sent, and a disconnection, keep the types.
LEMMA SendFacts ==
    ASSUME SessionInv, NEW r \in Requests, NEW endpoint \in Endpoints, NEW u \in Users,
           Send(r, endpoint, u), DisconnectFromServer
    PROVE  SessionInv'
  BY DEF SessionInv, Send, DisconnectFromServer, ShownUserOwnsSession

\* What the user does keeps the inductive invariant.
LEMMA UserStep ==
    ASSUME IInv, UserActs
    PROVE  IInv'
  <1>0. HttpTypeOK /\ GoodPages(pages) /\ SessionInv
    BY DEF IInv
  <1>1. UNCHANGED httpVars => HttpTypeOK'
    BY <1>0 DEF HttpTypeOK, httpVars, limiterVars
  <1>2. ASSUME NEW r \in Requests, NEW u \in Users, ClickLogin(r, u)
        PROVE  IInv'
    <2>1. GoodPages(pages')
      BY <1>0, <1>2, DisablePages DEF ClickLogin
    <2>2. SessionInv'
      BY <1>0, <1>2, SendFacts DEF ClickLogin, Endpoints
    <2>. QED  BY <1>1, <1>2, <2>1, <2>2 DEF ClickLogin, IInv
  <1>3. ASSUME NEW r \in Requests, NEW u \in Users, ClickRegister(r, u)
        PROVE  IInv'
    <2>1. GoodPages(pages')
      BY <1>0, <1>3, DisablePages DEF ClickRegister
    <2>2. SessionInv'
      BY <1>0, <1>3, SendFacts DEF ClickRegister, Endpoints
    <2>. QED  BY <1>1, <1>3, <2>1, <2>2 DEF ClickRegister, IInv
  <1>4. CASE OpenRegisterPage
    <2>1. GoodPages(pages')
      BY <1>0, <1>4, PushPages DEF OpenRegisterPage
    <2>2. SessionInv'
      BY <1>0, <1>4 DEF OpenRegisterPage, SessionInv, ShownUserOwnsSession
    <2>. QED  BY <1>1, <1>4, <2>1, <2>2 DEF OpenRegisterPage, IInv
  <1>5. CASE BackToLogin
    <2>1. GoodPages(pages')
      BY <1>0, <1>5, PopPages DEF BackToLogin
    <2>2. SessionInv'
      BY <1>0, <1>5 DEF BackToLogin, SessionInv, ShownUserOwnsSession
    <2>. QED  BY <1>1, <1>5, <2>1, <2>2 DEF BackToLogin, IInv
  <1>6. CASE Logout
    <2>1. GoodPages(pages')
      BY <1>0, <1>6, ReplacePages DEF Logout, Replace
    <2>2. SessionInv'
      BY <1>0, <1>6 DEF Logout, DisconnectFromServer, SessionInv, ShownUserOwnsSession
    <2>. QED  BY <1>1, <1>6, <2>1, <2>2 DEF Logout, IInv
  <1>. QED  BY <1>2, <1>3, <1>4, <1>5, <1>6 DEF UserActs

\* Answers to a request keep the inductive invariant.
LEMMA RequestStep ==
    ASSUME IInv, NEW r \in Requests, ServerAnswers(r) \/ NetworkFails(r) \/ ReplyFinished(r)
    PROVE  IInv'
  <1>0. HttpTypeOK /\ GoodPages(pages) /\ SessionInv
    BY DEF IInv
  <1>1. UNCHANGED httpVars => HttpTypeOK'
    BY <1>0 DEF HttpTypeOK, httpVars, limiterVars
  <1>2. requests[r].reply # "none" =>
          /\ requests[r].endpoint \in Endpoints
          /\ requests[r].user \in Users
    BY <1>0 DEF SessionInv, Idle
  <1>3. CASE ServerAnswers(r)
    <2>1. PICK reply \in {"success", "error"} :
            /\ OnRead(requests[r].endpoint, requests[r].user, reply)
            /\ requests' = [requests EXCEPT ![r].reply = reply]
      BY <1>3 DEF ServerAnswers
    <2>2. requests[r].reply = "pending" /\ UNCHANGED <<user, socket, pages>>
      BY <1>3 DEF ServerAnswers
    <2>3. HttpTypeOK'
      BY <1>0, <1>2, <2>1, <2>2, OnReadType
    <2>4. SessionInv'
      BY <1>0, <2>1, <2>2 DEF SessionInv, ShownUserOwnsSession, Idle
    <2>. QED  BY <1>0, <2>2, <2>3, <2>4 DEF IInv
  <1>4. CASE NetworkFails(r)
    <2>1. SessionInv'
      BY <1>0, <1>4 DEF NetworkFails, SessionInv, ShownUserOwnsSession, Idle
    <2>. QED  BY <1>0, <1>1, <1>4, <2>1 DEF NetworkFails, IInv
  <1>5. CASE OnNetworkError(r)
    <2>1. GoodPages(pages')
      BY <1>0, <1>5, EnablePages DEF OnNetworkError
    <2>2. SessionInv'
      BY <1>0, <1>5 DEF OnNetworkError, SessionInv, ShownUserOwnsSession
    <2>. QED  BY <1>1, <1>5, <2>1, <2>2 DEF OnNetworkError, IInv
  <1>6. CASE OnLoginSuccess(r)
    <2>1. requests[r].user \in Users
      BY <1>2, <1>6 DEF OnLoginSuccess
    <2>2. SessionInv'
      BY <1>0, <1>6, <2>1, NoneAssumption
         DEF OnLoginSuccess, EstablishWebSocketConnection, SessionInv, ShownUserOwnsSession
    <2>. QED  BY <1>0, <1>1, <1>6, <2>2 DEF OnLoginSuccess, IInv
  <1>7. CASE OnRegisterSuccess(r)
    <2>1. GoodPages(pages')
      BY <1>0, <1>7, PopPages DEF OnRegisterSuccess
    <2>2. SessionInv'
      BY <1>0, <1>7 DEF OnRegisterSuccess, SessionInv, ShownUserOwnsSession
    <2>. QED  BY <1>1, <1>7, <2>1, <2>2 DEF OnRegisterSuccess, IInv
  <1>. QED  BY <1>3, <1>4, <1>5, <1>6, <1>7 DEF ReplyFinished

\* The socket's signals keep the inductive invariant.
LEMMA SocketStep ==
    ASSUME IInv, OnConnected \/ OnConnectFailed \/ OnDisconnected
    PROVE  IInv'
  <1>0. HttpTypeOK /\ GoodPages(pages) /\ SessionInv
    BY DEF IInv
  <1>1. UNCHANGED httpVars => HttpTypeOK'
    BY <1>0 DEF HttpTypeOK, httpVars, limiterVars
  <1>2. CASE OnConnected
    <2>1. GoodPages(pages')
      <3>1. GoodPages(Enable({"login"}))
        BY <1>0, EnablePages
      <3>2. GoodPages(Append(Front(Enable({"login"})), New("main")))
        BY <3>1, ReplacePages
      <3>. QED  BY <1>0, <1>2, <3>2 DEF OnConnected
    <2>2. SessionInv'
      BY <1>0, <1>2 DEF OnConnected, SessionInv, ShownUserOwnsSession, NoSocket
    <2>. QED  BY <1>1, <1>2, <2>1, <2>2 DEF OnConnected, IInv
  <1>3. CASE OnConnectFailed \/ OnDisconnected
    <2>1. GoodPages(pages')
      BY <1>0, <1>3, EnablePages DEF OnConnectFailed, OnDisconnected
    <2>2. SessionInv'
      BY <1>0, <1>3 DEF OnConnectFailed, OnDisconnected, SessionInv, ShownUserOwnsSession
    <2>. QED  BY <1>1, <1>3, <2>1, <2>2 DEF OnConnectFailed, OnDisconnected, IInv
  <1>. QED  BY <1>2, <1>3

\* Every step keeps the inductive invariant.
LEMMA NextIInv == IInv /\ [Next]_vars => IInv'
  <1>. SUFFICES ASSUME IInv, [Next]_vars PROVE IInv'
    OBVIOUS
  <1>1. CASE Tick /\ UNCHANGED clientVars
    BY <1>1, TickType DEF IInv, clientVars, SessionInv, ShownUserOwnsSession
  <1>2. CASE UNCHANGED vars
    BY <1>2 DEF IInv, vars, httpVars, limiterVars, clientVars, HttpTypeOK, SessionInv,
                ShownUserOwnsSession
  <1>. QED  BY <1>1, <1>2, UserStep, RequestStep, SocketStep DEF Next

-----------------------------------------------------------------------------

\* The inductive invariant holds in every reachable state.
LEMMA InvariantHolds == Spec => []IInv
  BY InitIInv, NextIInv, PTL DEF Spec

\* Every variable keeps its type: the page stack is never empty, and no window
\* of the rate limiter counts more than the limit.
THEOREM TypeCorrect == Spec => []TypeOK
  <1>1. IInv => TypeOK
    BY DEF IInv, GoodPages, SessionInv, TypeOK
  <1>. QED  BY <1>1, InvariantHolds, PTL

\* In whatever order any number of logins, answers, logouts and lost
\* connections come, the user shown is the one whose session is open.
THEOREM SessionIsOwned == Spec => []ShownUserOwnsSession
  BY InvariantHolds, PTL DEF IInv, SessionInv

\* Whatever answers arrive on whichever page, only login pages are covered.
THEOREM StackStaysSound == Spec => []OnlyLoginPagesBelow
  <1>1. IInv => OnlyLoginPagesBelow
    <2>. SUFFICES ASSUME GoodPages(pages) PROVE OnlyLoginPagesBelow
      BY DEF IInv
    <2>1. DOMAIN pages = 1..Len(pages) /\ Len(pages) \in Nat
      BY DEF GoodPages
    <2>. QED  BY <2>1 DEF OnlyLoginPagesBelow, GoodPages
  <1>. QED  BY <1>1, InvariantHolds, PTL

\* Every step keeps the rate limiter's invariant.
LEMMA NextWindow == IInv /\ WindowInv /\ [Next]_vars => WindowInv'
  <1>. SUFFICES ASSUME IInv, WindowInv, [Next]_vars PROVE WindowInv'
    OBVIOUS
  <1>0. HttpTypeOK
    BY DEF IInv
  <1>1. CASE Tick
    BY <1>0, <1>1, TickWindow
  <1>2. ASSUME NEW r \in Requests, ServerAnswers(r)
        PROVE  WindowInv'
    BY <1>0, <1>2, OnReadWindow DEF ServerAnswers
  <1>3. CASE UNCHANGED limiterVars
    BY <1>3 DEF limiterVars, WindowInv
  <1>4. CASE UserActs
    BY <1>3, <1>4
    DEF UserActs, ClickLogin, ClickRegister, OpenRegisterPage, BackToLogin, Logout, httpVars
  <1>5. ASSUME NEW r \in Requests,
               OnNetworkError(r) \/ OnLoginSuccess(r) \/ OnRegisterSuccess(r) \/ NetworkFails(r)
        PROVE  WindowInv'
    BY <1>3, <1>5
    DEF OnNetworkError, OnLoginSuccess, OnRegisterSuccess, NetworkFails, httpVars
  <1>6. CASE OnConnected \/ OnConnectFailed \/ OnDisconnected
    BY <1>3, <1>6 DEF OnConnected, OnConnectFailed, OnDisconnected, httpVars
  <1>7. CASE UNCHANGED vars
    BY <1>3, <1>7 DEF vars, httpVars
  <1>. QED  BY <1>1, <1>2, <1>4, <1>5, <1>6, <1>7 DEF Next, ReplyFinished

\* The limiter begins with nothing counted.
LEMMA InitWindow == Init => WindowInv
  <1>. SUFFICES ASSUME Init PROVE WindowInv
    OBVIOUS
  <1>1. count = 0 /\ age = 0 /\ recent = [k \in 0..Window |-> 0]
    BY DEF Init, HttpInit
  <1>2. \A S \in SUBSET (0..Window) : AllowedIn(recent, S) = {}
    BY <1>1 DEF AllowedIn
  <1>3. Since(age) \in SUBSET (0..Window) /\ 0..Window \ Since(age) \in SUBSET (0..Window)
    BY DEF Since
  <1>4. age # Window + 1
    BY <1>1, WindowAssumption
  <1>5. /\ AllowedIn(recent, 0..Window) = {}
        /\ AllowedIn(recent, Since(age)) = {}
        /\ AllowedIn(recent, 0..Window \ Since(age)) = {}
    BY <1>2, <1>3
  <1>6. IsFiniteSet({}) /\ Cardinality({}) = 0
    BY FS_EmptySet
  <1>7. 0 <= count /\ 0 <= MaxRequests
    BY <1>1, MaxRequestsAssumption
  <1>8. /\ Cardinality(AllowedIn(recent, Since(age))) <= count
        /\ Cardinality(AllowedIn(recent, 0..Window \ Since(age))) <= MaxRequests
    BY <1>5, <1>6, <1>7
  <1>. QED  BY <1>4, <1>5, <1>6, <1>8 DEF WindowInv

\* However its requests fall around the end of a window, no address is served
\* more than twice the limit within the window's length, for any limit and any
\* length: the limiter's fixed windows cost a factor of two and no more.
THEOREM LimitHoldsTwice == Spec => []AtMostTwiceTheLimit
  <1>1. Spec => []WindowInv
    BY InitWindow, NextWindow, InvariantHolds, PTL DEF Spec
  <1>2. IInv => HttpTypeOK
    BY DEF IInv
  <1>. QED  BY <1>1, <1>2, TwoWindows, InvariantHolds, PTL

-----------------------------------------------------------------------------
(* Who is refused *)

\* While a window runs, the limiter counts nothing but requests it allowed
\* within it. (WindowInv says that it counts all of them.)
CountIsRecent ==
    age <= Window => count <= Cardinality(AllowedIn(recent, Since(age)))

\* An address is refused only when it was served the limit within the last
\* window_seconds: neither an older window nor a refused request is held
\* against it.
RefusedOnlyAtLimit ==
    ~IsAllowed => MaxRequests <= Cardinality(AllowedIn(recent, 0..Window))

\* A second later every request of these seconds is still there, one second
\* older, as long as the history reaches that far.
LEMMA KeptRequests ==
    ASSUME NEW f \in [0..Window -> Nat], NEW g \in [0..Window -> Nat],
           \A k \in 0..Window : k # 0 => g[k] = f[k - 1],
           NEW S \in SUBSET (0..Window), NEW T \in SUBSET (0..Window),
           \A k \in T : k + 1 \in S,
           IsFiniteSet(AllowedIn(g, S))
    PROVE  Cardinality(AllowedIn(f, T)) <= Cardinality(AllowedIn(g, S))
  <1>. DEFINE younger == AllowedIn(f, T)
              same == AllowedIn(g, S)
              h == [r \in younger |-> <<r[1] + 1, r[2]>>]
  <1>1. \A r \in younger : /\ r = <<r[1], r[2]>>
                           /\ r[1] \in Int
                           /\ <<r[1] + 1, r[2]>> \in same
    <2>. SUFFICES ASSUME NEW r \in younger
                  PROVE  /\ r = <<r[1], r[2]>>
                         /\ r[1] \in Int
                         /\ <<r[1] + 1, r[2]>> \in same
      OBVIOUS
    <2>1. r = <<r[1], r[2]>> /\ r[1] \in T /\ r[2] \in 1..f[r[1]]
      BY AllowedElements
    <2>2. r[1] + 1 \in 0..Window /\ r[1] + 1 # 0 /\ (r[1] + 1) - 1 = r[1]
      BY <2>1
    <2>3. r[1] + 1 \in S /\ r[2] \in 1..g[r[1] + 1]
      BY <2>1, <2>2
    <2>4. <<r[1] + 1, r[2]>> \in same
      BY <2>3, AllowedElements
    <2>. QED  BY <2>1, <2>2, <2>4
  <1>. HIDE DEF younger, same
  <1>2. h \in Injection(younger, same)
    <2>1. h \in [younger -> same]
      BY <1>1
    <2>2. ASSUME NEW q \in younger, NEW r \in younger, h[q] = h[r]
          PROVE  q = r
      <3>1. <<q[1] + 1, q[2]>> = <<r[1] + 1, r[2]>>
        BY <2>2
      <3>2. q[1] + 1 = r[1] + 1 /\ q[2] = r[2]
        BY <3>1
      <3>3. q[1] \in Int /\ r[1] \in Int
        BY <1>1
      <3>4. q = <<q[1], q[2]>> /\ r = <<r[1], r[2]>>
        BY <1>1
      <3>5. q[1] = r[1]
        BY <3>2, <3>3
      <3>. QED  BY <3>2, <3>4, <3>5
    <2>. QED  BY <2>1, <2>2 DEF Injection, IsInjective
  <1>. QED  BY <1>2, FS_Injection DEF younger, same

\* A request that is allowed in this second is one more.
LEMMA OneRequestMore ==
    ASSUME NEW f \in [0..Window -> Nat], NEW S \in SUBSET (0..Window), 0 \in S,
           IsFiniteSet(AllowedIn(f, S)), Window \in Nat
    PROVE  LET g == [f EXCEPT ![0] = @ + 1]
           IN  Cardinality(AllowedIn(g, S)) = Cardinality(AllowedIn(f, S)) + 1
  <1>. DEFINE g == [f EXCEPT ![0] = @ + 1]
              new == <<0, f[0] + 1>>
              old == AllowedIn(f, S)
  <1>1. /\ f[0] \in Nat /\ g[0] = f[0] + 1
        /\ \A k \in 0..Window : k # 0 => g[k] = f[k]
    OBVIOUS
  <1>2. /\ IsFiniteSet(AllowedIn(g, S))
        /\ Cardinality(AllowedIn(g, S)) <= Cardinality(old) + 1
    BY OneMoreRequest
  <1>. HIDE DEF g
  <1>3. old \cup {new} \in SUBSET AllowedIn(g, S)
    <2>1. ASSUME NEW r \in old
          PROVE  r \in AllowedIn(g, S)
      <3>1. r = <<r[1], r[2]>> /\ r[1] \in S /\ r[2] \in 1..f[r[1]]
        BY <2>1, AllowedElements
      <3>2. r[2] \in 1..g[r[1]]
        BY <1>1, <3>1
      <3>. QED  BY <3>1, <3>2, AllowedElements
    <2>2. new \in AllowedIn(g, S)
      BY <1>1, AllowedElements
    <2>. QED  BY <2>1, <2>2
  <1>4. new \notin old
    BY <1>1, AllowedElements
  <1>. HIDE DEF old, new
  <1>5. IsFiniteSet(old) /\ Cardinality(old) \in Nat
    BY FS_CardinalityType DEF old
  <1>6. Cardinality(old \cup {new}) = Cardinality(old) + 1
    BY <1>4, <1>5, FS_AddElement
  <1>7. Cardinality(old \cup {new}) <= Cardinality(AllowedIn(g, S))
    BY <1>3, <1>2, FS_Subset
  <1>8. Cardinality(AllowedIn(g, S)) \in Nat
    BY <1>2, FS_CardinalityType
  <1>. QED  BY <1>2, <1>5, <1>6, <1>7, <1>8 DEF g, old

\* A second that passes takes no request out of a window that still runs.
LEMMA TickCount ==
    ASSUME HttpTypeOK, WindowInv, WindowInv', CountIsRecent, Tick
    PROVE  CountIsRecent'
  <1>. SUFFICES ASSUME age' <= Window
                PROVE  count' <= Cardinality(AllowedIn(recent', Since(age')))
    BY DEF CountIsRecent
  <1>. USE WindowAssumption
  <1>1. /\ recent \in [0..Window -> Nat] /\ age \in 0..(Window + 1)
        /\ count \in 0..MaxRequests
    BY DEF HttpTypeOK
  <1>2. /\ recent' \in [0..Window -> Nat]
        /\ \A k \in 0..Window : k # 0 => recent'[k] = recent[k - 1]
        /\ count' = count
    BY TickType DEF HttpTypeOK, Tick
  <1>3. age' = age + 1 /\ age + 1 <= Window
    <2>1. age' = Min({age + 1, Window + 1})
      BY DEF Tick
    <2>2. age + 1 \in Nat /\ Window + 1 \in Nat
      BY <1>1
    <2>3. age' \in {age + 1, Window + 1}
      BY <2>1, <2>2, MinOfTwo
    <2>. QED  BY <1>1, <2>3
  <1>4. /\ Since(age) \in SUBSET (0..Window) /\ Since(age') \in SUBSET (0..Window)
        /\ \A k \in Since(age) : k + 1 \in Since(age')
    BY <1>1, <1>3 DEF Since
  <1>5. /\ IsFiniteSet(AllowedIn(recent', Since(age')))
        /\ IsFiniteSet(AllowedIn(recent, Since(age)))
    BY <1>4, AllowedParts DEF WindowInv
  <1>6. Cardinality(AllowedIn(recent, Since(age)))
          <= Cardinality(AllowedIn(recent', Since(age')))
    BY <1>1, <1>2, <1>4, <1>5, KeptRequests
  <1>7. count <= Cardinality(AllowedIn(recent, Since(age)))
    BY <1>1, <1>3 DEF CountIsRecent
  <1>8. /\ Cardinality(AllowedIn(recent, Since(age))) \in Nat
        /\ Cardinality(AllowedIn(recent', Since(age'))) \in Nat
    BY <1>5, FS_CardinalityType
  <1>9. count \in Int /\ MaxRequests \in Nat
    BY <1>1, MaxRequestsAssumption
  <1>. QED  BY <1>2, <1>6, <1>7, <1>8, <1>9

\* A request that is counted is in the window it opens or belongs to.
LEMMA CountCount ==
    ASSUME HttpTypeOK, WindowInv, CountIsRecent, CountRequest
    PROVE  CountIsRecent'
  <1>. USE WindowAssumption, MaxRequestsAssumption
  <1>1. /\ recent \in [0..Window -> Nat] /\ age \in 0..(Window + 1)
        /\ count \in 0..MaxRequests /\ count \in Nat
    BY DEF HttpTypeOK
  <1>2. recent' = [recent EXCEPT ![0] = @ + 1]
    BY DEF CountRequest
  <1>3. \A a \in Nat : Since(a) \in SUBSET (0..Window) /\ 0 \in Since(a)
    BY DEF Since
  <1>4. \A a \in Nat : /\ IsFiniteSet(AllowedIn(recent, Since(a)))
                       /\ Cardinality(AllowedIn(recent, Since(a))) \in Nat
    BY <1>3, AllowedParts DEF WindowInv
  <1>5. \A a \in Nat : Cardinality(AllowedIn(recent', Since(a)))
                         = Cardinality(AllowedIn(recent, Since(a))) + 1
    BY <1>1, <1>2, <1>3, <1>4, OneRequestMore
  <1>6. CASE WindowExpired
    <2>1. count' = 1 /\ age' = 0
      BY <1>6 DEF CountRequest
    <2>2. 1 <= Cardinality(AllowedIn(recent', Since(0)))
      BY <1>4, <1>5
    <2>. QED  BY <2>1, <2>2 DEF CountIsRecent
  <1>7. CASE ~WindowExpired
    <2>1. count' = count + 1 /\ age' = age /\ age <= Window /\ age \in Nat
      BY <1>1, <1>7 DEF CountRequest, WindowExpired
    <2>2. count <= Cardinality(AllowedIn(recent, Since(age)))
      BY <2>1 DEF CountIsRecent
    <2>3. /\ Cardinality(AllowedIn(recent, Since(age))) \in Nat
          /\ Cardinality(AllowedIn(recent', Since(age)))
               = Cardinality(AllowedIn(recent, Since(age))) + 1
      BY <1>4, <1>5, <2>1
    <2>4. count + 1 <= Cardinality(AllowedIn(recent', Since(age)))
      BY <1>1, <2>2, <2>3
    <2>. QED  BY <2>1, <2>4 DEF CountIsRecent
  <1>. QED  BY <1>6, <1>7

\* Only a second that passes and a request that is answered touch the limiter.
LEMMA LimiterSteps ==
    ASSUME [Next]_vars, ~UNCHANGED limiterVars
    PROVE  Tick \/ \E endpoint, u, reply : OnRead(endpoint, u, reply)
  <1>. DEFINE Answered == \E endpoint, u, reply : OnRead(endpoint, u, reply)
  <1>1. ASSUME NEW r \in Requests, ServerAnswers(r)
        PROVE  Answered
    BY <1>1 DEF ServerAnswers
  <1>2. ~UserActs
    BY DEF UserActs, ClickLogin, ClickRegister, OpenRegisterPage, BackToLogin, Logout, httpVars
  <1>3. ASSUME NEW r \in Requests,
               OnNetworkError(r) \/ OnLoginSuccess(r) \/ OnRegisterSuccess(r) \/ NetworkFails(r)
        PROVE  FALSE
    BY <1>3 DEF OnNetworkError, OnLoginSuccess, OnRegisterSuccess, NetworkFails, httpVars
  <1>4. ~ (OnConnected \/ OnConnectFailed \/ OnDisconnected)
    BY DEF OnConnected, OnConnectFailed, OnDisconnected, httpVars
  <1>5. ~UNCHANGED vars
    BY DEF vars, httpVars
  <1>. HIDE DEF Answered
  <1>6. Tick \/ Answered
    <2>1. ASSUME NEW r \in Requests, ServerAnswers(r) \/ NetworkFails(r) \/ ReplyFinished(r)
          PROVE  Answered
      BY <1>1, <1>3, <2>1 DEF ReplyFinished
    <2>. QED  BY <1>2, <1>4, <1>5, <2>1 DEF Next
  <1>. QED  BY <1>6 DEF Answered

\* Every step keeps what the limiter's count stands for.
LEMMA NextCount ==
    IInv /\ WindowInv /\ WindowInv' /\ CountIsRecent /\ [Next]_vars => CountIsRecent'
  <1>. SUFFICES ASSUME IInv, WindowInv, WindowInv', CountIsRecent, [Next]_vars
                PROVE  CountIsRecent'
    OBVIOUS
  <1>0. HttpTypeOK
    BY DEF IInv
  <1>1. CASE Tick
    BY <1>0, <1>1, TickCount
  <1>2. CASE UNCHANGED limiterVars
    BY <1>2 DEF limiterVars, CountIsRecent
  <1>3. ASSUME NEW endpoint, NEW u, NEW reply, OnRead(endpoint, u, reply)
        PROVE  CountIsRecent'
    <2>1. UNCHANGED limiterVars \/ CountRequest
      BY <1>3 DEF OnRead, Refuse, HandleLogin, HandleRegister, httpVars
    <2>. QED  BY <1>0, <1>2, <2>1, CountCount
  <1>. QED  BY <1>1, <1>2, <1>3, LimiterSteps

\* However requests fall, no address is refused that was not served the limit
\* within the last window_seconds: with LimitHoldsTwice, what it is served in
\* that time is the limit at least, when it asks for so much, and twice the
\* limit at most.
THEOREM NobodyRefusedEarly == Spec => []RefusedOnlyAtLimit
  <1>1. Init => CountIsRecent
    <2>. SUFFICES ASSUME Init PROVE CountIsRecent
      OBVIOUS
    <2>1. count = 0 /\ age \in Nat
      BY DEF Init, HttpInit
    <2>2. Since(age) \in SUBSET (0..Window)
      BY DEF Since
    <2>3. Cardinality(AllowedIn(recent, Since(age))) \in Nat
      BY <2>2, InitWindow, AllowedParts DEF WindowInv
    <2>. QED  BY <2>1, <2>3 DEF CountIsRecent
  <1>2. Spec => []WindowInv
    BY InitWindow, NextWindow, InvariantHolds, PTL DEF Spec
  <1>3. Spec => []CountIsRecent
    BY <1>1, <1>2, NextCount, InvariantHolds, PTL DEF Spec
  <1>4. IInv /\ WindowInv /\ CountIsRecent => RefusedOnlyAtLimit
    <2>. SUFFICES ASSUME IInv, WindowInv, CountIsRecent, ~IsAllowed
                  PROVE  MaxRequests <= Cardinality(AllowedIn(recent, 0..Window))
      BY DEF RefusedOnlyAtLimit
    <2>1. /\ age \in 0..(Window + 1) /\ count \in 0..MaxRequests
          /\ Window \in Nat /\ MaxRequests \in Nat
      BY WindowAssumption, MaxRequestsAssumption DEF IInv, HttpTypeOK
    <2>2. age <= Window /\ MaxRequests <= count
      BY <2>1 DEF IsAllowed, WindowExpired
    <2>3. count <= Cardinality(AllowedIn(recent, Since(age)))
      BY <2>2 DEF CountIsRecent
    <2>4. Since(age) \in SUBSET (0..Window)
      BY DEF Since
    <2>5. /\ Cardinality(AllowedIn(recent, Since(age))) \in Nat
          /\ Cardinality(AllowedIn(recent, Since(age)))
               <= Cardinality(AllowedIn(recent, 0..Window))
          /\ Cardinality(AllowedIn(recent, 0..Window)) \in Nat
      BY <2>4, AllowedParts, FS_CardinalityType DEF WindowInv
    <2>. QED  BY <2>1, <2>2, <2>3, <2>5
  <1>. QED  BY <1>2, <1>3, <1>4, InvariantHolds, PTL

-----------------------------------------------------------------------------
(* Who has a session *)

\* A success that is on its way, and a session, belong to a name that has an
\* account.
AccountInv ==
    /\ \A r \in Requests :
         requests[r].reply = "success" => requests[r].user \in accounts
    /\ socket.user \in accounts \cup {None}

\* No session is ever opened for a name without an account, whatever
\* registrations fail, and whatever answers are late, lost or overtaken.
SessionHasAccount == socket.user \in accounts \cup {None}

\* A request answered with success is for a name that has an account then.
LEMMA SuccessMeansAccount ==
    ASSUME NEW endpoint, NEW u, NEW reply, OnRead(endpoint, u, reply)
    PROVE  /\ accounts \subseteq accounts'
           /\ reply = "success" => u \in accounts'
  BY DEF OnRead, Refuse, HandleLogin, HandleRegister, httpVars

\* Every step keeps it: accounts are never deleted.
LEMMA NextAccount == IInv /\ AccountInv /\ [Next]_vars => AccountInv'
  <1>. SUFFICES ASSUME IInv, AccountInv, [Next]_vars PROVE AccountInv'
    OBVIOUS
  <1>0. SessionInv
    BY DEF IInv
  <1>. USE DEF AccountInv
  <1>1. CASE Tick /\ UNCHANGED clientVars
    BY <1>1 DEF Tick, clientVars
  <1>2. ASSUME NEW r \in Requests, NEW u \in Users, ClickLogin(r, u) \/ ClickRegister(r, u)
        PROVE  AccountInv'
    BY <1>0, <1>2
    DEF ClickLogin, ClickRegister, Send, DisconnectFromServer, NoSocket, httpVars, SessionInv
  <1>3. CASE OpenRegisterPage \/ BackToLogin
    BY <1>3 DEF OpenRegisterPage, BackToLogin, httpVars
  <1>4. CASE Logout
    BY <1>4 DEF Logout, DisconnectFromServer, NoSocket, httpVars
  <1>5. ASSUME NEW r \in Requests, ServerAnswers(r)
        PROVE  AccountInv'
    <2>1. PICK reply \in {"success", "error"} :
            /\ OnRead(requests[r].endpoint, requests[r].user, reply)
            /\ requests' = [requests EXCEPT ![r].reply = reply]
      BY <1>5 DEF ServerAnswers
    <2>2. accounts \subseteq accounts' /\ (reply = "success" => requests[r].user \in accounts')
      BY <2>1, SuccessMeansAccount
    <2>3. \A q \in Requests : q # r => requests'[q] = requests[q]
      BY <1>0, <2>1 DEF SessionInv
    <2>4. requests'[r].reply = reply /\ requests'[r].user = requests[r].user
      BY <1>0, <1>5, <2>1 DEF SessionInv, ServerAnswers, Idle
    <2>5. socket' = socket
      BY <1>5 DEF ServerAnswers
    <2>. QED  BY <2>2, <2>3, <2>4, <2>5
  <1>6. ASSUME NEW r \in Requests, NetworkFails(r) \/ OnNetworkError(r) \/ OnRegisterSuccess(r)
        PROVE  AccountInv'
    BY <1>0, <1>6
    DEF NetworkFails, OnNetworkError, OnRegisterSuccess, Idle, httpVars, SessionInv
  <1>7. ASSUME NEW r \in Requests, OnLoginSuccess(r)
        PROVE  AccountInv'
    BY <1>0, <1>7
    DEF OnLoginSuccess, EstablishWebSocketConnection, Idle, httpVars, SessionInv
  <1>8. CASE OnConnected \/ OnConnectFailed \/ OnDisconnected
    BY <1>0, <1>8
    DEF OnConnected, OnConnectFailed, OnDisconnected, NoSocket, httpVars, SessionInv
  <1>9. CASE UNCHANGED vars
    BY <1>9 DEF vars, httpVars, clientVars
  <1>10. CASE UserActs
    BY <1>2, <1>3, <1>4, <1>10 DEF UserActs
  <1>11. ASSUME NEW r \in Requests, ServerAnswers(r) \/ NetworkFails(r) \/ ReplyFinished(r)
         PROVE  AccountInv'
    BY <1>5, <1>6, <1>7, <1>11 DEF ReplyFinished
  <1>. QED  BY <1>1, <1>8, <1>9, <1>10, <1>11 DEF Next

\* Only who has an account gets a session.
THEOREM SessionsHaveAccounts == Spec => []SessionHasAccount
  <1>1. Init => AccountInv
    BY DEF Init, AccountInv, NoSocket, Idle
  <1>2. AccountInv => SessionHasAccount
    BY DEF AccountInv, SessionHasAccount
  <1>. QED  BY <1>1, <1>2, NextAccount, InvariantHolds, PTL DEF Spec

-----------------------------------------------------------------------------
(* The main page *)

\* The main page comes up only when a connection succeeds: no answer, lost
\* connection or page that is taken off the stack uncovers one.
MainPageIsEntered ==
    [][Top.page # "main" /\ Top'.page = "main" =>
         socket.state = "connecting" /\ socket'.state = "connected"]_vars

\* It goes only when the user logs out, which ends the session: a late answer
\* to a registration, say, does not take it off.
MainPageIsLeft ==
    [][Top.page = "main" /\ Top'.page # "main" =>
         pages' = Replace("login") /\ socket' = NoSocket]_vars

\* Taking off a register page uncovers a login page.
LEMMA PopUncovers ==
    ASSUME GoodPages(pages), Top.page = "register", pages' = Front(pages)
    PROVE  Top'.page = "login"
  <1>1. /\ pages \in Seq(Page)
        /\ Len(pages) \in Nat \ {0}
        /\ pages[1].page # "register"
        /\ pages[Len(pages)].page = "register"
        /\ \A i \in 1..(Len(pages) - 1) : pages[i].page = "login"
    BY DEF GoodPages, Top, Last
  <1>2. Len(pages) - 1 \in 1..(Len(pages) - 1)
    BY <1>1
  <1>3. /\ Len(Front(pages)) = Len(pages) - 1
        /\ \A i \in 1..(Len(pages) - 1) : Front(pages)[i] = pages[i]
    BY <1>1, FrontFacts
  <1>4. Front(pages)[Len(Front(pages))].page = "login"
    BY <1>1, <1>2, <1>3
  <1>. QED  BY <1>4 DEF Top, Last

\* Replacing the top page shows the new one.
LEMMA ReplaceShows ==
    ASSUME NEW s, GoodPages(s), NEW p, pages' = Append(Front(s), New(p))
    PROVE  Top'.page = p
  <1>1. s \in Seq(Page) /\ Len(s) \in Nat \ {0}
    BY DEF GoodPages
  <1>2. Front(s) \in Seq(Page)
    BY <1>1, FrontFacts
  <1>3. /\ Len(Append(Front(s), New(p))) = Len(Front(s)) + 1
        /\ Append(Front(s), New(p))[Len(Front(s)) + 1] = New(p)
    BY <1>2
  <1>. QED  BY <1>3 DEF Top, Last, New

\* Enabling or disabling buttons leaves the kind of the top page.
LEMMA ButtonsKeepTop ==
    ASSUME GoodPages(pages),
           \/ \E kinds : pages' = Enable(kinds)
           \/ pages' = [pages EXCEPT ![Len(pages)].enabled = FALSE]
           \/ pages' = pages
    PROVE  Top'.page = Top.page
  <1>1. pages \in Seq(Page) /\ Len(pages) \in Nat \ {0}
    BY DEF GoodPages
  <1>2. ASSUME NEW kinds, pages' = Enable(kinds)
        PROVE  Top'.page = Top.page
    BY <1>1, <1>2, EnablePages DEF Top, Last
  <1>3. CASE pages' = [pages EXCEPT ![Len(pages)].enabled = FALSE]
    <2>1. pages' = [pages EXCEPT ![Len(pages)] = [pages[Len(pages)] EXCEPT !.enabled = FALSE]]
      BY <1>3
    <2>2. [pages[Len(pages)] EXCEPT !.enabled = FALSE].page = pages[Len(pages)].page
      BY <1>1 DEF Page
    <2>3. Len(pages') = Len(pages) /\ pages'[Len(pages)].page = pages[Len(pages)].page
      BY <1>1, <2>1, <2>2
    <2>. QED  BY <2>3 DEF Top, Last
  <1>. QED  BY <1>2, <1>3 DEF Top

\* What each step does to the top page.
LEMMA TopSteps ==
    ASSUME IInv, [Next]_vars
    PROVE  \/ Top'.page = Top.page
           \/ Top.page # "main" /\ Top'.page # "main"
           \/ Top.page # "main" /\ socket.state = "connecting" /\ socket'.state = "connected"
           \/ Top.page = "main" /\ pages' = Replace("login") /\ socket' = NoSocket
  <1>. DEFINE Goal == \/ Top'.page = Top.page
                      \/ Top.page # "main" /\ Top'.page # "main"
                      \/ /\ Top.page # "main"
                         /\ socket.state = "connecting" /\ socket'.state = "connected"
                      \/ Top.page = "main" /\ pages' = Replace("login") /\ socket' = NoSocket
  <1>. SUFFICES Goal
    OBVIOUS
  <1>0. GoodPages(pages) /\ SessionInv
    BY DEF IInv
  <1>1. ASSUME NEW r \in Requests, NEW u \in Users, ClickLogin(r, u) \/ ClickRegister(r, u)
        PROVE  Goal
    BY <1>0, <1>1, ButtonsKeepTop DEF ClickLogin, ClickRegister
  <1>2. CASE OpenRegisterPage
    <2>1. pages' = Append(pages, New("register")) /\ Top.page = "login" /\ pages \in Seq(Page)
      BY <1>0, <1>2 DEF OpenRegisterPage, Push, GoodPages
    <2>2. Top'.page = "register"
      BY <2>1 DEF Top, Last, New
    <2>. QED  BY <2>1, <2>2
  <1>3. CASE BackToLogin
    BY <1>0, <1>3, PopUncovers DEF BackToLogin
  <1>4. CASE Logout
    BY <1>4 DEF Logout, DisconnectFromServer
  <1>5. ASSUME NEW r \in Requests, ServerAnswers(r) \/ NetworkFails(r) \/ OnLoginSuccess(r)
        PROVE  Goal
    BY <1>5 DEF ServerAnswers, NetworkFails, OnLoginSuccess, Top
  <1>6. ASSUME NEW r \in Requests, OnNetworkError(r)
        PROVE  Goal
    BY <1>0, <1>6, ButtonsKeepTop DEF OnNetworkError
  <1>7. ASSUME NEW r \in Requests, OnRegisterSuccess(r)
        PROVE  Goal
    <2>1. CASE Top.page = "register"
      BY <1>0, <1>7, <2>1, PopUncovers DEF OnRegisterSuccess
    <2>2. CASE Top.page # "register"
      BY <1>7, <2>2 DEF OnRegisterSuccess, Top
    <2>. QED  BY <2>1, <2>2
  <1>8. CASE OnConnected
    <2>1. socket.state = "connecting" /\ socket'.state = "connected"
      BY <1>0, <1>8 DEF OnConnected, SessionInv, NoSocket
    <2>2. \/ pages' = pages
          \/ pages' = Append(Front(Enable({"login"})), New("main"))
      BY <1>8 DEF OnConnected
    <2>3. pages' = pages => Top'.page = Top.page
      BY DEF Top
    <2>4. pages' = Append(Front(Enable({"login"})), New("main")) => Top'.page = "main"
      BY <1>0, EnablePages, ReplaceShows
    <2>. QED  BY <2>1, <2>2, <2>3, <2>4
  <1>9. CASE OnConnectFailed \/ OnDisconnected
    BY <1>0, <1>9, ButtonsKeepTop DEF OnConnectFailed, OnDisconnected
  <1>10. CASE (Tick /\ UNCHANGED clientVars) \/ UNCHANGED vars
    BY <1>10 DEF clientVars, vars, Top
  <1>. HIDE DEF Goal
  <1>11. CASE UserActs
    BY <1>1, <1>2, <1>3, <1>4, <1>11 DEF UserActs
  <1>12. ASSUME NEW r \in Requests, ServerAnswers(r) \/ NetworkFails(r) \/ ReplyFinished(r)
         PROVE  Goal
    BY <1>5, <1>6, <1>7, <1>12 DEF ReplyFinished
  <1>. QED  BY <1>8, <1>9, <1>10, <1>11, <1>12 DEF Next

\* Whatever answers are late and connections lost, the main page comes up with
\* a session and goes with a logout only.
THEOREM MainPageFollowsSession == Spec => MainPageIsEntered /\ MainPageIsLeft
  <1>1. IInv /\ [Next]_vars =>
          [Top.page # "main" /\ Top'.page = "main" =>
             socket.state = "connecting" /\ socket'.state = "connected"]_vars
    BY TopSteps
  <1>2. IInv /\ [Next]_vars =>
          [Top.page = "main" /\ Top'.page # "main" =>
             pages' = Replace("login") /\ socket' = NoSocket]_vars
    BY TopSteps
  <1>. QED
    BY <1>1, <1>2, InvariantHolds, PTL DEF Spec, MainPageIsEntered, MainPageIsLeft
=============================================================================
