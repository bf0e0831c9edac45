------------------------- MODULE StoreLocksProofs -------------------------
(***************************************************************************)
(* Theorems about StoreLocks, for any number of threads of each kind: the  *)
(* locks exclude; where no call drops a blob, or one thread alone nests    *)
(* the calls, no two threads wait for each other.                          *)
(***************************************************************************)
EXTENDS StoreLocks, TLAPS

----------------------------------------------------------------------------
(* Short lists: what appending makes of them, and what Front leaves.       *)
LEMMA ListOfThree ==
  ASSUME NEW S, NEW s \in Seq(S), NEW a \in S, NEW b \in S, NEW c \in S,
         Len(s) = 3, s[1] = a, s[2] = b, s[3] = c
  PROVE  s = <<a, b, c>>
PROOF OBVIOUS

LEMMA ListOfFour ==
  ASSUME NEW S, NEW s \in Seq(S),
         NEW a \in S, NEW b \in S, NEW c \in S, NEW d \in S,
         Len(s) = 4, s[1] = a, s[2] = b, s[3] = c, s[4] = d
  PROVE  s = <<a, b, c, d>>
PROOF OBVIOUS

LEMMA ListOfTwo ==
  ASSUME NEW S, NEW s \in Seq(S), NEW a \in S, NEW b \in S,
         Len(s) = 2, s[1] = a, s[2] = b
  PROVE  s = <<a, b>>
PROOF OBVIOUS

LEMMA Appended ==
  ASSUME NEW a \in Locks, NEW b \in Locks, NEW c \in Locks, NEW d \in Locks
  PROVE  /\ Append(<<>>, a) = <<a>>
         /\ Append(<<a>>, b) = <<a, b>>
         /\ Append(<<a, b>>, c) = <<a, b, c>>
         /\ Append(<<a, b, c>>, d) = <<a, b, c, d>>
PROOF
  <1>1. Append(<<>>, a) = <<a>> OBVIOUS
  <1>2. Append(<<a>>, b) = <<a, b>>
    <2>1. Append(<<a>>, b) \in Seq(Locks) /\ Len(Append(<<a>>, b)) = 2 OBVIOUS
    <2>2. Append(<<a>>, b)[1] = a /\ Append(<<a>>, b)[2] = b OBVIOUS
    <2>3. QED BY <2>1, <2>2, ListOfTwo
  <1>3. Append(<<a, b>>, c) = <<a, b, c>>
    <2> DEFINE s == Append(<<a, b>>, c)
    <2>1. s \in Seq(Locks) /\ Len(s) = 3 OBVIOUS
    <2>2. s[1] = a /\ s[2] = b /\ s[3] = c OBVIOUS
    <2> HIDE DEF s
    <2>3. s = <<a, b, c>> BY <2>1, <2>2, ListOfThree
    <2>4. QED BY <2>3 DEF s
  <1>4. Append(<<a, b, c>>, d) = <<a, b, c, d>>
    <2> DEFINE s == Append(<<a, b, c>>, d)
    <2>1. s \in Seq(Locks) /\ Len(s) = 4 OBVIOUS
    <2>2. s[1] = a /\ s[2] = b /\ s[3] = c /\ s[4] = d OBVIOUS
    <2> HIDE DEF s
    <2>3. s = <<a, b, c, d>> BY <2>1, <2>2, ListOfFour
    <2>4. QED BY <2>3 DEF s
  <1>5. QED BY <1>1, <1>2, <1>3, <1>4

LEMMA FrontAppend ==
  ASSUME NEW S, NEW s \in Seq(S), NEW x \in S
  PROVE  Front(Append(s, x)) = s
BY DEF Front

(* What is left of a list of one to four when its last is gone.            *)
Fronts(a, b, c, d) ==
  /\ Front(<<a>>) = <<>>
  /\ Front(<<a, b>>) = <<a>>
  /\ Front(<<a, b, c>>) = <<a, b>>
  /\ Front(<<a, b, c, d>>) = <<a, b, c>>

LEMMA FrontOf ==
  ASSUME NEW a \in Locks, NEW b \in Locks, NEW c \in Locks, NEW d \in Locks
  PROVE  Fronts(a, b, c, d)
PROOF
  <1>1. <<>> \in Seq(Locks) /\ <<a>> \in Seq(Locks) /\ <<a, b>> \in Seq(Locks) /\ <<a, b, c>> \in Seq(Locks)
    OBVIOUS
  <1>2. Front(Append(<<>>, a)) = <<>> BY <1>1, FrontAppend
  <1>3. Front(Append(<<a>>, b)) = <<a>> BY <1>1, FrontAppend
  <1>4. Front(Append(<<a, b>>, c)) = <<a, b>> BY <1>1, FrontAppend
  <1>5. Front(Append(<<a, b, c>>, d)) = <<a, b, c>> BY <1>1, FrontAppend
  <1>6. /\ Append(<<>>, a) = <<a>> /\ Append(<<a>>, b) = <<a, b>>
        /\ Append(<<a, b>>, c) = <<a, b, c>> /\ Append(<<a, b, c>>, d) = <<a, b, c, d>>
    BY Appended
  <1>7. QED BY <1>2, <1>3, <1>4, <1>5, <1>6 DEF Fronts

----------------------------------------------------------------------------
(* The nests of calls there are.                                           *)
Nest ==
  {<<>>, <<"cache">>, <<"store">>, <<"cache", "store">>, <<"store", "cache">>,
   <<"store", "cache", "store">>, <<"cache", "store", "cache">>,
   <<"cache", "store", "cache", "store">>}

(* A waiting thread waits for a lock that its code may take where it is:   *)
(* neither moves while it waits.                                           *)
Waiting == \A t \in Threads : waits[t] # "none" => NextLock(t, waits[t])

LockInv == TypeOK /\ Waiting /\ OneInside

LEMMA NestSeq == Nest \subseteq Seq(Locks)
PROOF
  <1>1. \A l, m, n, o \in Locks :
          /\ <<l>> \in Seq(Locks) /\ <<l, m>> \in Seq(Locks)
          /\ <<l, m, n>> \in Seq(Locks) /\ <<l, m, n, o>> \in Seq(Locks)
    OBVIOUS
  <1>2. <<>> \in Seq(Locks) OBVIOUS
  <1>3. "cache" \in Locks /\ "store" \in Locks BY DEF Locks
  <1>4. QED BY <1>1, <1>2, <1>3 DEF Nest

(* A call that returns leaves the nest it was made in.                     *)
LEMMA FrontNest ==
  ASSUME NEW s \in Nest, s # <<>>
  PROVE  /\ Front(s) \in Nest
         /\ Range(Front(s)) \subseteq Range(s)
PROOF
  <1>1. Front(s) \in Nest
    <2>1. "cache" \in Locks /\ "store" \in Locks BY DEF Locks
    <2>2. /\ Fronts("cache", "store", "cache", "store")
          /\ Fronts("store", "cache", "store", "cache")
      BY <2>1, FrontOf
    <2>3. QED BY <2>2 DEF Fronts, Nest
  <1>2. s \in Seq(Locks) BY NestSeq
  <1>3. QED BY <1>1, <1>2, Len(s) > 0 DEF Front, Range

(* A lock taken where the code may take it makes a nest there is, with     *)
(* that lock and those it had.                                             *)
LEMMA TakenNest ==
  ASSUME NEW t \in Threads, NEW l \in Locks, stack[t] \in Nest, NextLock(t, l)
  PROVE  /\ Append(stack[t], l) \in Nest
         /\ Range(Append(stack[t], l)) = Range(stack[t]) \cup {l}
PROOF
  <1>1. stack[t] \in Seq(Locks) BY NestSeq
  <1>2. Range(Append(stack[t], l)) = Range(stack[t]) \cup {l}
    <2> DEFINE s == stack[t]
    <2> HIDE DEF s
    <2>1. s \in Seq(Locks) BY <1>1 DEF s
    <2>2. Range(Append(s, l)) = Range(s) \cup {l} BY <2>1 DEF Range
    <2>3. QED BY <2>2 DEF s
  <1>3. "cache" \in Locks /\ "store" \in Locks BY DEF Locks
  <1>4. CASE stack[t] = <<>>
    <2>1. Append(<<>>, l) = <<l>> OBVIOUS
    <2>2. QED BY <1>2, <1>4, <2>1 DEF Nest, Locks
  <1>5. CASE stack[t] = <<"cache">>
    <2>1. l = "store" BY <1>5 DEF NextLock, MayDrop, Last
    <2>2. Append(<<"cache">>, "store") = <<"cache", "store">> BY <1>3, Appended
    <2>3. QED BY <1>2, <1>5, <2>1, <2>2 DEF Nest
  <1>6. CASE stack[t] = <<"store">>
    <2>1. l = "cache" BY <1>6 DEF NextLock, MayDrop, Last
    <2>2. Append(<<"store">>, "cache") = <<"store", "cache">> BY <1>3, Appended
    <2>3. QED BY <1>2, <1>6, <2>1, <2>2 DEF Nest
  <1>7. CASE stack[t] = <<"cache", "store">>
    <2>1. l = "cache" BY <1>7 DEF NextLock, MayDrop, Last
    <2>2. Append(<<"cache", "store">>, "cache") = <<"cache", "store", "cache">> BY <1>3, Appended
    <2>3. QED BY <1>2, <1>7, <2>1, <2>2 DEF Nest
  <1>8. CASE stack[t] = <<"store", "cache">>
    <2>1. l = "store" BY <1>8 DEF NextLock, MayDrop, Last
    <2>2. Append(<<"store", "cache">>, "store") = <<"store", "cache", "store">> BY <1>3, Appended
    <2>3. QED BY <1>2, <1>8, <2>1, <2>2 DEF Nest
  <1>9. CASE stack[t] = <<"store", "cache", "store">>
    BY <1>9 DEF NextLock, MayDrop, Last
  <1>10. CASE stack[t] = <<"cache", "store", "cache">>
    <2>1. l = "store" BY <1>10 DEF NextLock, MayDrop, Last
    <2>2. \A m \in Locks : Append(<<m, l, m>>, l) = <<m, l, m, l>>
      BY Appended
    <2>3. Append(<<"cache", l, "cache">>, l) = <<"cache", l, "cache", l>> BY <1>3, <2>2
    <2>4. stack[t] = <<"cache", l, "cache">> BY <1>10, <2>1
    <2>5. Append(stack[t], l) = <<"cache", "store", "cache", "store">> BY <2>1, <2>3, <2>4
    <2>6. QED BY <1>2, <2>5 DEF Nest
  <1>11. CASE stack[t] = <<"cache", "store", "cache", "store">>
    BY <1>11 DEF NextLock, MayDrop, Last
  <1>12. QED
    BY <1>2, <1>4, <1>5, <1>6, <1>7, <1>8, <1>9, <1>10, <1>11 DEF Nest

(* What a thread may take next depends on its own calls alone.             *)
LEMMA NextLockOwn ==
  ASSUME NEW t \in Threads, NEW l, stack'[t] = stack[t], back'[t] = back[t], NextLock(t, l)
  PROVE  NextLock(t, l)'
BY DEF NextLock, MayDrop

----------------------------------------------------------------------------
LEMMA CallsKeep ==
  ASSUME LockInv, NEW t \in Threads, NEW l \in Locks, Calls(t, l)
  PROVE  LockInv'
PROOF
  <1>1. TypeOK' BY DEF LockInv, TypeOK, Calls
  <1>2. ASSUME NEW u \in Threads, NEW m, m = waits'[u], m # "none"
        PROVE  NextLock(u, m)'
    <2>1. NextLock(u, m) BY <1>2 DEF LockInv, TypeOK, Waiting, Calls
    <2>2. stack'[u] = stack[u] /\ back'[u] = back[u] BY DEF Calls
    <2>3. QED BY <2>1, <2>2, NextLockOwn
  <1>3. OneInside' BY DEF LockInv, OneInside, Holds, Calls
  <1>4. QED BY <1>1, <1>2, <1>3 DEF LockInv, Waiting

LEMMA TakesKeep ==
  ASSUME LockInv, NEW t \in Threads, Takes(t)
  PROVE  LockInv'
PROOF
  <1> DEFINE l == waits[t]
  <1>1. l \in Locks /\ stack[t] \in Nest BY DEF LockInv, TypeOK, Takes, Nest
  <1>2. NextLock(t, l) BY DEF LockInv, Waiting, Takes
  <1>3. /\ Append(stack[t], l) \in Nest
        /\ Range(Append(stack[t], l)) = Range(stack[t]) \cup {l}
    BY <1>1, <1>2, TakenNest
  <1>4. /\ stack' = [stack EXCEPT ![t] = Append(stack[t], l)]
        /\ waits' = [waits EXCEPT ![t] = "none"]
        /\ back' = [back EXCEPT ![t] = FALSE]
        /\ Free(t, l)
    BY DEF Takes
  <1> HIDE DEF l
  <1>5. TypeOK' BY <1>3, <1>4 DEF LockInv, TypeOK, Nest
  <1>6. ASSUME NEW u \in Threads, NEW m, m = waits'[u], m # "none"
        PROVE  NextLock(u, m)'
    <2>1. u # t /\ waits'[u] = waits[u] BY <1>4, <1>6 DEF LockInv, TypeOK
    <2>2. stack'[u] = stack[u] /\ back'[u] = back[u]
      BY <1>4, <2>1 DEF LockInv, TypeOK
    <2>3. NextLock(u, m) BY <1>6, <2>1 DEF LockInv, Waiting
    <2>4. QED BY <2>2, <2>3, NextLockOwn
  <1>7. ASSUME NEW m \in Locks, NEW u \in Threads, NEW v \in Threads,
               Holds(u, m)', Holds(v, m)', u # v
        PROVE  FALSE
    <2>1. ASSUME NEW w \in Threads, Holds(w, m)'
          PROVE  Holds(w, m) \/ (w = t /\ m = l)
      <3>1. CASE w = t BY <1>3, <1>4, <2>1, <3>1 DEF LockInv, TypeOK, Holds
      <3>2. CASE w # t BY <1>4, <2>1, <3>2 DEF LockInv, TypeOK, Holds
      <3>3. QED BY <3>1, <3>2
    <2>2. CASE Holds(u, m) /\ Holds(v, m) BY <1>7, <2>2 DEF LockInv, OneInside
    <2>3. CASE u = t /\ m = l BY <1>4, <1>7, <2>1, <2>3 DEF Free
    <2>4. CASE v = t /\ m = l BY <1>4, <1>7, <2>1, <2>4 DEF Free
    <2>5. QED BY <1>7, <2>1, <2>2, <2>3, <2>4
  <1>8. OneInside' BY <1>7 DEF OneInside
  <1>9. QED BY <1>5, <1>6, <1>8 DEF LockInv, Waiting

LEMMA ReturnsKeep ==
  ASSUME LockInv, NEW t \in Threads, Returns(t)
  PROVE  LockInv'
PROOF
  <1>1. stack[t] \in Nest /\ stack[t] # <<>> BY DEF LockInv, TypeOK, Returns, Nest
  <1>2. Front(stack[t]) \in Nest /\ Range(Front(stack[t])) \subseteq Range(stack[t])
    BY <1>1, FrontNest
  <1>3. /\ stack' = [stack EXCEPT ![t] = Front(stack[t])]
        /\ waits' = waits /\ waits[t] = "none"
        /\ back' = [back EXCEPT ![t] = Len(stack[t]) > 1]
    BY DEF Returns
  <1>4. TypeOK' BY <1>2, <1>3 DEF LockInv, TypeOK, Nest
  <1>5. ASSUME NEW u \in Threads, NEW m, m = waits'[u], m # "none"
        PROVE  NextLock(u, m)'
    <2>1. u # t /\ waits'[u] = waits[u] BY <1>3, <1>5
    <2>2. stack'[u] = stack[u] /\ back'[u] = back[u]
      BY <1>3, <2>1 DEF LockInv, TypeOK
    <2>3. NextLock(u, m) BY <1>5, <2>1 DEF LockInv, Waiting
    <2>4. QED BY <2>2, <2>3, NextLockOwn
  <1>6. ASSUME NEW m \in Locks, NEW w \in Threads, Holds(w, m)'
        PROVE  Holds(w, m)
    <2>1. CASE w = t BY <1>2, <1>3, <1>6, <2>1 DEF LockInv, TypeOK, Holds
    <2>2. CASE w # t BY <1>3, <1>6, <2>2 DEF LockInv, TypeOK, Holds
    <2>3. QED BY <2>1, <2>2
  <1>7. OneInside' BY <1>6 DEF LockInv, OneInside
  <1>8. QED BY <1>4, <1>5, <1>7 DEF LockInv, Waiting

LEMMA LockStart == Init => LockInv
PROOF
  <1> SUFFICES ASSUME Init PROVE LockInv OBVIOUS
  <1>1. TypeOK BY DEF Init, TypeOK
  <1>2. Waiting BY DEF Init, Waiting
  <1>3. OneInside BY DEF Init, OneInside, Holds, Range
  <1>4. QED BY <1>1, <1>2, <1>3 DEF LockInv

LEMMA LockStep == LockInv /\ [Next]_vars => LockInv'
PROOF
  <1> SUFFICES ASSUME LockInv, [Next]_vars PROVE LockInv' OBVIOUS
  <1>1. ASSUME NEW t \in Threads, NEW l \in Locks, Calls(t, l) PROVE LockInv'
    BY <1>1, CallsKeep
  <1>2. ASSUME NEW t \in Threads, Takes(t) PROVE LockInv' BY <1>2, TakesKeep
  <1>3. ASSUME NEW t \in Threads, Returns(t) PROVE LockInv' BY <1>3, ReturnsKeep
  <1>4. CASE UNCHANGED vars
    BY <1>4 DEF vars, LockInv, TypeOK, Waiting, OneInside, Holds, NextLock, MayDrop
  <1>5. QED BY <1>1, <1>2, <1>3, <1>4 DEF Next

LEMMA LockSound == Spec => []LockInv
PROOF
  <1>1. QED BY LockStart, LockStep, PTL DEF Spec

(* The nests of calls are those the code makes, and no two threads are     *)
(* inside calls under one lock: PrefixCache and BlobStore may take each    *)
(* other's callbacks for their own thread's.                               *)
THEOREM LocksExclude == Spec => [](TypeOK /\ OneInside)
PROOF
  <1>1. LockInv => TypeOK /\ OneInside BY DEF LockInv
  <1>2. QED BY <1>1, LockSound, PTL

----------------------------------------------------------------------------
(* Where no call drops a blob the locks are taken in one order.            *)
NoDrops == Dropping = {}

(* The worker's thread alone has calls that nest: no directory, no clear().*)
OneNests ==
  /\ \E e : Engines = {e}
  /\ Clearing = {} /\ Writers = {} /\ Clients \cap Dropping = {}

(* The locks a thread has taken in the one order, the cache's first.       *)
InOrder == \A t \in Threads : stack[t] \in {<<>>, <<"cache">>, <<"store">>, <<"cache", "store">>}

(* A client that calls neither clear() nor save() has one lock at most.    *)
ClientsFlat == \A t \in Clients : stack[t] \in {<<>>, <<"cache">>, <<"store">>}

LEMMA OrderStep ==
  ASSUME NoDrops, LockInv, InOrder, [Next]_vars
  PROVE  InOrder'
PROOF
  <1>1. ASSUME NEW t \in Threads, NEW l \in Locks, Calls(t, l) PROVE InOrder'
    BY <1>1 DEF InOrder, Calls
  <1>2. ASSUME NEW t \in Threads, Takes(t) PROVE InOrder'
    <2> DEFINE l == waits[t]
    <2>1. l \in Locks /\ NextLock(t, l)
      BY <1>2 DEF LockInv, Waiting, TypeOK, Takes
    <2>2. stack' = [stack EXCEPT ![t] = Append(stack[t], l)] BY <1>2 DEF Takes
    <2> HIDE DEF l
    <2>3. CASE stack[t] = <<>>
      BY <2>1, <2>2, <2>3 DEF InOrder, LockInv, TypeOK, Locks
    <2>4. CASE stack[t] = <<"cache">>
      <3>1. l = "store" BY <2>1, <2>4 DEF NextLock, MayDrop, NoDrops
      <3>2. Append(<<"cache">>, "store") = <<"cache", "store">> BY Appended DEF Locks
      <3>3. QED BY <2>2, <2>4, <3>1, <3>2 DEF InOrder, LockInv, TypeOK
    <2>5. CASE stack[t] = <<"store">>
      BY <2>1, <2>5 DEF NextLock, MayDrop, NoDrops
    <2>6. CASE stack[t] = <<"cache", "store">>
      BY <2>1, <2>6 DEF NextLock, MayDrop, NoDrops, Last
    <2>7. QED BY <2>3, <2>4, <2>5, <2>6 DEF InOrder
  <1>3. ASSUME NEW t \in Threads, Returns(t) PROVE InOrder'
    <2>1. stack' = [stack EXCEPT ![t] = Front(stack[t])] /\ stack[t] # <<>>
      BY <1>3 DEF Returns
    <2>2. Front(stack[t]) \in {<<>>, <<"cache">>}
      <3>1. CASE stack[t] = <<"cache">> BY <3>1 DEF Front
      <3>2. CASE stack[t] = <<"store">> BY <3>2 DEF Front
      <3>3. CASE stack[t] = <<"cache", "store">> BY <3>3, FrontOf DEF Locks, Fronts
      <3>4. QED BY <2>1, <3>1, <3>2, <3>3 DEF InOrder
    <2>3. QED BY <2>1, <2>2 DEF InOrder, LockInv, TypeOK
  <1>4. CASE UNCHANGED vars BY <1>4 DEF vars, InOrder
  <1>5. QED BY <1>1, <1>2, <1>3, <1>4 DEF Next

LEMMA FlatStep ==
  ASSUME OneNests, LockInv, ClientsFlat, [Next]_vars
  PROVE  ClientsFlat'
PROOF
  <1>0. /\ Clients \subseteq Threads
        /\ \A t \in Clients : t \notin Dropping /\ ~ Nests(t)
    BY DEF OneNests, Threads, Nests
  <1>1. ASSUME NEW t \in Threads, NEW l \in Locks, Calls(t, l) PROVE ClientsFlat'
    BY <1>1 DEF ClientsFlat, Calls
  <1>2. ASSUME NEW t \in Threads, Takes(t) PROVE ClientsFlat'
    <2> DEFINE l == waits[t]
    <2>1. l \in Locks /\ NextLock(t, l)
      BY <1>2 DEF LockInv, Waiting, TypeOK, Takes
    <2>2. stack' = [stack EXCEPT ![t] = Append(stack[t], l)] BY <1>2 DEF Takes
    <2> HIDE DEF l
    <2>3. CASE t \notin Clients
      BY <1>0, <2>2, <2>3 DEF ClientsFlat, LockInv, TypeOK
    <2>4. CASE t \in Clients
      <3>1. stack[t] = <<>>
        <4>1. CASE stack[t] = <<"cache">>
          BY <1>0, <2>1, <2>4, <4>1 DEF NextLock, MayDrop
        <4>2. CASE stack[t] = <<"store">>
          BY <1>0, <2>1, <2>4, <4>2 DEF NextLock, MayDrop
        <4>3. QED BY <2>4, <4>1, <4>2 DEF ClientsFlat
      <3>2. Append(stack[t], l) \in {<<"cache">>, <<"store">>}
        BY <2>1, <3>1 DEF Locks
      <3>3. QED BY <1>0, <2>2, <3>2 DEF ClientsFlat, LockInv, TypeOK
    <2>5. QED BY <2>3, <2>4
  <1>3. ASSUME NEW t \in Threads, Returns(t) PROVE ClientsFlat'
    <2>1. stack' = [stack EXCEPT ![t] = Front(stack[t])] /\ stack[t] # <<>>
      BY <1>3 DEF Returns
    <2>2. CASE t \notin Clients
      BY <1>0, <2>1, <2>2 DEF ClientsFlat, LockInv, TypeOK
    <2>3. CASE t \in Clients
      <3>1. Front(stack[t]) = <<>>
        <4>1. CASE stack[t] = <<"cache">> BY <4>1 DEF Front
        <4>2. CASE stack[t] = <<"store">> BY <4>2 DEF Front
        <4>3. QED BY <2>1, <2>3, <4>1, <4>2 DEF ClientsFlat
      <3>2. QED BY <1>0, <2>1, <3>1 DEF ClientsFlat, LockInv, TypeOK
    <2>4. QED BY <2>2, <2>3
  <1>4. CASE UNCHANGED vars BY <1>4 DEF vars, ClientsFlat
  <1>5. QED BY <1>1, <1>2, <1>3, <1>4 DEF Next

(* One order: who waits for the cache's lock has none, who waits for the   *)
(* store's has not got it.                                                 *)
LEMMA OrderNoCircle ==
  ASSUME NoDrops, LockInv, InOrder
  PROVE  NoCircularWait
PROOF
  <1> SUFFICES ASSUME NEW t \in Threads, NEW u \in Threads,
                      waits[t] # "none", waits[u] # "none",
                      Holds(u, waits[t]), Holds(t, waits[u])
               PROVE  FALSE
    BY DEF NoCircularWait
  <1>1. ASSUME NEW v \in Threads, waits[v] # "none"
        PROVE  stack[v] = <<>> \/ (stack[v] = <<"cache">> /\ waits[v] = "store")
    <2>1. NextLock(v, waits[v]) BY <1>1 DEF LockInv, Waiting
    <2>2. stack[v] # <<"store">> BY <2>1, NoDrops DEF NextLock, MayDrop, NoDrops, Last
    <2>3. stack[v] # <<"cache", "store">>
      <3>1. SUFFICES ASSUME stack[v] = <<"cache", "store">> PROVE FALSE OBVIOUS
      <3>2. Last(stack[v]) = "store" /\ stack[v] # <<>> /\ stack[v] # <<"cache">>
        BY <3>1 DEF Last
      <3>3. QED BY <2>1, <3>2, NoDrops DEF NextLock, MayDrop, NoDrops
    <2>4. stack[v] = <<"cache">> => waits[v] = "store"
      BY <2>1 DEF NextLock, MayDrop, NoDrops
    <2>5. stack[v] \in {<<>>, <<"cache">>, <<"store">>, <<"cache", "store">>} BY DEF InOrder
    <2>6. QED BY <2>2, <2>3, <2>4, <2>5
  <1>2. stack[t] # <<>> /\ stack[u] # <<>> BY DEF Holds, Range
  <1>3. stack[u] = <<"cache">> /\ waits[t] = "store" BY <1>1, <1>2
  <1>4. QED BY <1>3 DEF Holds, Range

(* One thread nests: of two that hold a lock, one waits for none.          *)
LEMMA FlatNoCircle ==
  ASSUME OneNests, LockInv, ClientsFlat
  PROVE  NoCircularWait
PROOF
  <1> SUFFICES ASSUME NEW t \in Threads, NEW u \in Threads, t # u,
                      waits[t] # "none", waits[u] # "none",
                      Holds(u, waits[t]), Holds(t, waits[u])
               PROVE  FALSE
    BY DEF NoCircularWait
  <1>1. t \in Clients \/ u \in Clients BY DEF OneNests, Threads
  <1>2. stack[t] # <<>> /\ stack[u] # <<>> BY DEF Holds, Range
  <1>3. ASSUME NEW v \in Clients, waits[v] # "none" PROVE stack[v] = <<>>
    <2>1. v \in Threads /\ v \notin Dropping /\ ~ Nests(v)
      BY DEF OneNests, Threads, Nests
    <2>2. NextLock(v, waits[v]) BY <1>3, <2>1 DEF LockInv, Waiting
    <2>3. stack[v] # <<"store">> BY <2>1, <2>2 DEF NextLock, MayDrop, Last
    <2>4. stack[v] # <<"cache">> BY <2>1, <2>2 DEF NextLock, MayDrop, Last
    <2>5. QED BY <2>3, <2>4 DEF ClientsFlat
  <1>4. QED BY <1>1, <1>2, <1>3

(* The two locks never deadlock in a server that has no directory and      *)
(* whose cache is not cleared, nor in one whose store drops nothing.       *)
THEOREM NoDeadlock == NoDrops \/ OneNests => (Spec => []NoCircularWait)
PROOF
  <1>1. ASSUME NoDrops PROVE Spec => []NoCircularWait
    <2>1. Init => InOrder BY DEF Init, InOrder
    <2>2. LockInv /\ InOrder /\ [Next]_vars => InOrder' BY <1>1, OrderStep
    <2>3. LockInv /\ InOrder => NoCircularWait BY <1>1, OrderNoCircle
    <2>4. QED BY <2>1, <2>2, <2>3, LockSound, PTL DEF Spec
  <1>2. ASSUME OneNests PROVE Spec => []NoCircularWait
    <2>1. Init => ClientsFlat BY DEF Init, ClientsFlat, Threads
    <2>2. LockInv /\ ClientsFlat /\ [Next]_vars => ClientsFlat' BY <1>2, FlatStep
    <2>3. LockInv /\ ClientsFlat => NoCircularWait BY <1>2, FlatNoCircle
    <2>4. QED BY <2>1, <2>2, <2>3, LockSound, PTL DEF Spec
  <1>3. QED BY <1>1, <1>2
=============================================================================
