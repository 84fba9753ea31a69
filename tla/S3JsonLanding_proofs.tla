------------------------- MODULE S3JsonLanding_proofs -------------------------
(***************************************************************************)
(* Landing an S3 JSON feed misses nothing and commits nothing twice, for   *)
(* every set of objects, length of the clock, discovery setting and number *)
(* of failures, as long as the safety delay covers what S3 shows late.     *)
(***************************************************************************)
EXTENDS S3JsonLanding, TLAPS

-----------------------------------------------------------------------------
(* The inductive invariant. *)

(* The clock has started, and every bound is behind it by the safety delay. *)
Bounds ==
    /\ now >= FirstTick
    /\ \A bound \in {checkpoint, previous, high} : bound = None \/ (Settled(bound) /\ bound > 0)

(* What the producers' contract says of every object written so far. *)
Produced ==
    \A o \in Written :
        /\ modified[o] \in FirstTick..now
        /\ visible[o] <= modified[o] + MaxDelay
        /\ ~FullPrefix =>
              /\ HourOf(folder[o]) = folder[o]
              /\ folder[o] <= modified[o] + Lookahead
              /\ modified[o] <= folder[o] + Hour + Lookback

(* What an object of the window is, until the manifest: read already, or in *)
(* a folder still to be listed.                                             *)
Reachable(o) == o \in found \/ \E h \in walk : InFolder(o, h)

Window ==
    /\ pc \in {"high", "extract", "walk", "commit"} => previous = checkpoint
    /\ pc \in {"extract", "walk", "commit"} =>
          high # None /\ (previous # None => previous <= high)
    /\ pc \notin {"walk", "commit"} => found = {}
    /\ \A o \in found : o \in Written /\ InWindow(modified[o])
    /\ pc = "walk" => \A o \in Owed : InWindow(modified[o]) => Reachable(o)
    /\ pc = "commit" => \A o \in Owed : InWindow(modified[o]) => o \in delivered

(* An object in a committed run is not above the checkpoint. *)
Fetched ==
    \A o \in Objects : fetches[o] # 0 =>
        /\ fetches[o] = 1 /\ o \in Written
        /\ checkpoint # None /\ modified[o] <= checkpoint

(* A bound is the cap's exactly if the run knows it is. *)
Capped ==
    pc \in {"extract", "walk", "commit"} =>
        /\ Cap # None => high <= Resume + Cap
        /\ capBound => Cap # None /\ high = Resume + Cap

IInv ==
    /\ TypeOK /\ Bounds /\ Produced /\ Window /\ Fetched /\ Capped
    /\ delivered \subseteq Written
    /\ NoObjectMissed

-----------------------------------------------------------------------------
(* Hours. *)
LEMMA HourFacts ==
    ASSUME NEW x \in Int
    PROVE  /\ HourOf(x) \in Int /\ HourOf(x) <= x /\ x < HourOf(x) + Hour
           /\ \E k \in Int : HourOf(x) = Hour * k
           /\ HourOf(HourOf(x)) = HourOf(x)
<1>1. Hour \in Nat \ {0}
  BY DiscoveryConstants
<1>2. x % Hour \in 0..(Hour - 1)
  BY <1>1
<1>3. x = Hour * (x \div Hour) + (x % Hour) /\ (x \div Hour) \in Int
  BY <1>1
<1>4. HourOf(x) = Hour * (x \div Hour)
  BY <1>1, <1>2, <1>3 DEF HourOf
<1>5. (Hour * (x \div Hour)) % Hour = 0 /\ Hour * (x \div Hour) \in Int
  BY <1>1, <1>3
<1>6. HourOf(HourOf(x)) = HourOf(x)
  BY <1>4, <1>5 DEF HourOf
<1> QED
  BY <1>1, <1>2, <1>3, <1>4, <1>6 DEF HourOf

(* Two hours less than an hour apart are the same, or in order. *)
LEMMA HourOrder ==
    ASSUME NEW a \in Int, NEW b \in Int, HourOf(a) = a, HourOf(b) = b, a + Hour > b
    PROVE  a >= b
<1>1. Hour \in Nat \ {0}
  BY DiscoveryConstants
<1>2. PICK k \in Int : a = Hour * k
  BY HourFacts
<1>3. PICK j \in Int : b = Hour * j
  BY HourFacts
<1>4. ASSUME k <= j - 1 PROVE FALSE
  <2>1. Hour * k <= Hour * (j - 1)
    BY <1>1, <1>4
  <2>2. Hour * (j - 1) = Hour * j - Hour /\ Hour * k \in Int /\ Hour * j \in Int
    BY <1>1
  <2> QED
    BY <1>1, <1>2, <1>3, <2>1, <2>2
<1>5. Hour * k >= Hour * j
  BY <1>1, <1>4
<1> QED
  BY <1>2, <1>3, <1>5

LEMMA Constants ==
    /\ {Lookback, Lookahead, Safety, Start, MaxDelay, MaxSkew, FirstTick, LastTick, MaxFailures} \subseteq Nat
    /\ Hour \in Nat \ {0}
    /\ None \notin Int
    /\ MaxDelay + MaxSkew <= Safety /\ MaxSkew < Safety
    /\ Safety + MaxSkew < FirstTick /\ FirstTick <= LastTick
    /\ Cap # None => Cap \in Nat \ {0}
  BY DiscoveryConstants

-----------------------------------------------------------------------------
LEMMA InitInv == Init => IInv
<1> SUFFICES ASSUME Init PROVE IInv
  OBVIOUS
<1> USE Constants
<1>1. TypeOK
  <2>1. /\ FirstTick \in Ticks /\ 0 \in Ticks
        /\ 0 \in 0..(LastTick + Lookahead) /\ 0 \in 0..(LastTick + MaxDelay)
        /\ 0 \in 0..MaxFailures /\ 0 \in Nat
    BY DEF Ticks
  <2>2. /\ modified \in [Objects -> Ticks]
        /\ folder \in [Objects -> 0..(LastTick + Lookahead)]
        /\ visible \in [Objects -> 0..(LastTick + MaxDelay)]
        /\ fetches \in [Objects -> Nat]
    BY <2>1 DEF Init
  <2>3. /\ now \in Ticks /\ failures \in 0..MaxFailures /\ pc \in Steps /\ capBound \in BOOLEAN
        /\ checkpoint = None /\ previous = None /\ high = None
        /\ delivered = {} /\ found = {} /\ walk = {}
    BY <2>1 DEF Init, Steps
  <2> QED
    BY <2>2, <2>3 DEF TypeOK
<1>2. Bounds
  BY DEF Init, Bounds
<1>3. Written = {}
  BY DEF Init, Written
<1>4. Produced /\ NoObjectMissed /\ delivered \subseteq Written
  BY <1>3 DEF Init, Produced, NoObjectMissed
<1>5. Window /\ Fetched /\ Capped
  BY DEF Init, Window, Fetched, Capped
<1> QED
  BY <1>1, <1>2, <1>4, <1>5 DEF IInv

LEMMA CappedKept ==
    ASSUME IInv, UNCHANGED <<previous, high, capBound>>,
           pc' \in {"extract", "walk", "commit"} => pc \in {"extract", "walk", "commit"}
    PROVE  Capped'
<1>1. Capped
  BY DEF IInv
<1> QED
  BY <1>1 DEF Capped, Resume

(* Time passes: bounds only fall further behind. *)
LEMMA TickInv ==
    ASSUME IInv, Tick
    PROVE  IInv'
<1> USE Constants
<1>1. now' = now + 1 /\ now \in Int /\ now < LastTick /\ now >= 0
      /\ UNCHANGED <<producer, committed, failures, locals>>
  BY DEF IInv, TypeOK, Ticks, Tick
<1>2. TypeOK' /\ Bounds'
  <2>1. \A bound \in {checkpoint, previous, high} : bound = None \/ (Settled(bound)' /\ bound > 0)
    BY <1>1 DEF IInv, Bounds, Settled
  <2> QED
    BY <1>1, <2>1 DEF IInv, TypeOK, Bounds, Ticks, producer, committed, locals
<1>3. Written' = Written /\ Owed' = Owed
  BY <1>1 DEF Written, Owed, producer
<1>4. Produced'
  <2>1. \A o \in Written : modified[o] \in Int
    BY DEF IInv, TypeOK, Ticks, Written
  <2> QED
    BY <1>1, <1>3, <2>1 DEF IInv, Produced, producer
<1>5. Window' /\ Fetched' /\ (delivered \subseteq Written)' /\ NoObjectMissed'
  BY <1>1, <1>3 DEF IInv, Window, Reachable, InFolder, InWindow, Fetched, NoObjectMissed,
     producer, committed, locals
<1>6. Capped'
  BY <1>1, CappedKept DEF locals
<1> QED
  BY <1>2, <1>4, <1>5, <1>6 DEF IInv

(* An object is stamped above every bound already taken: a window under way *)
(* does not owe it, and the committed checkpoint is not past it.            *)
LEMMA PutInv ==
    ASSUME IInv, NEW o \in Objects, NEW delay \in 0..MaxDelay,
           NEW h \in {t \in 0..(now + Lookahead) : HourOf(t) = t}, PutObject(o, h, delay)
    PROVE  IInv'
<1> USE Constants
<1>1. /\ now \in FirstTick..LastTick /\ modified[o] = 0 /\ o \notin Written
      /\ UNCHANGED <<now, committed, failures, locals>>
      /\ \A q \in Objects : /\ modified'[q] = IF q = o THEN now ELSE modified[q]
                            /\ folder'[q] = IF q = o THEN h ELSE folder[q]
                            /\ visible'[q] = IF q = o THEN now + delay ELSE visible[q]
  BY DEF IInv, TypeOK, Ticks, Bounds, PutObject, Written
<1>2. TypeOK'
  <2>1. /\ modified' \in [Objects -> Ticks]
        /\ folder' \in [Objects -> 0..(LastTick + Lookahead)]
        /\ visible' \in [Objects -> 0..(LastTick + MaxDelay)]
    BY <1>1 DEF IInv, TypeOK, Ticks, PutObject
  <2> QED
    BY <1>1, <2>1 DEF IInv, TypeOK, Settled, committed, locals
<1>3. Bounds'
  BY <1>1 DEF IInv, Bounds, Settled, committed, locals
<1>4. Written' = Written \cup {o}
  BY <1>1 DEF Written
<1>5. Produced'
  <2>1. ASSUME ~FullPrefix
        PROVE  HourOf(h) = h /\ h <= now + Lookahead /\ now <= h + Hour + Lookback
    BY <2>1 DEF PutObject, OnTime
  <2>2. now \in FirstTick..now /\ now + delay <= now + MaxDelay
    BY <1>1
  <2> QED
    BY <1>1, <1>4, <2>1, <2>2 DEF IInv, Produced, Written
<1>6. \A bound \in {checkpoint, previous, high} : bound # None => bound \in Int /\ bound < now
  BY <1>1 DEF IInv, Bounds, Settled
<1>7. \A q \in Owed' : q = o \/ q \in Owed
  <2>1. ASSUME NEW q \in Owed', q # o PROVE q \in Owed
    <3>1. q \in Written /\ modified'[q] >= Start /\ (FullPrefix \/ folder'[q] >= HourOf(Start))
      BY <1>4, <2>1 DEF Owed
    <3> QED
      BY <1>1, <2>1, <3>1 DEF Owed, Written
  <2> QED
    BY <2>1
<1>8. NoObjectMissed'
  BY <1>1, <1>6, <1>7 DEF IInv, NoObjectMissed, Owed, Written, committed
<1>9. Fetched' /\ (delivered \subseteq Written)'
  BY <1>1, <1>4 DEF IInv, Fetched, Written, committed
<1>10. Window'
  <2>1. high # None => ~InWindow(now)
    BY <1>1, <1>6 DEF InWindow
  <2>2. \A q \in found : q # o
    BY <1>1 DEF IInv, Window
  <2>3. \A q \in Written : modified'[q] = modified[q] /\ folder'[q] = folder[q]
    BY <1>1 DEF Written
  <2>4. /\ pc' = pc /\ previous' = previous /\ checkpoint' = checkpoint /\ high' = high
        /\ found' = found /\ walk' = walk /\ delivered' = delivered
    BY <1>1 DEF locals, committed
  <2>5. \A x : InWindow(x)' = InWindow(x)
    BY <2>4 DEF InWindow
  <2>6. \A q \in found : q \in Written' /\ InWindow(modified'[q])
    BY <1>4, <2>3 DEF IInv, Window
  <2>7. ASSUME pc \in {"walk", "commit"}, NEW q \in Owed', InWindow(modified'[q])
        PROVE  q \in Owed /\ InWindow(modified[q]) /\ folder'[q] = folder[q]
    <3>1. high # None
      BY <2>7 DEF IInv, Window
    <3>2. q # o
      BY <1>1, <2>1, <2>7, <3>1
    <3> QED
      BY <1>7, <2>3, <2>7, <3>2 DEF Owed
  <2> QED
    BY <2>4, <2>5, <2>6, <2>7 DEF IInv, Window, Reachable, InFolder
<1>11. Capped'
  BY <1>1, CappedKept DEF locals
<1> QED
  BY <1>2, <1>3, <1>5, <1>8, <1>9, <1>10, <1>11 DEF IInv

(* Steps of an execution before its manifest touch its locals only. *)
LEMMA SharedUntouched ==
    ASSUME IInv, UNCHANGED <<producer, committed, now>>
    PROVE  /\ Written' = Written /\ Owed' = Owed
           /\ Produced' /\ Fetched' /\ NoObjectMissed' /\ (delivered \subseteq Written)'
<1>1. Written' = Written /\ Owed' = Owed
  BY DEF Written, Owed, producer
<1> QED
  BY <1>1 DEF IInv, Produced, Fetched, NoObjectMissed, producer, committed

LEMMA EndInv ==
    ASSUME IInv, End, UNCHANGED <<producer, committed, now>>, failures' \in 0..MaxFailures
    PROVE  IInv'
<1>1. TypeOK' /\ Bounds'
  <2>1. checkpoint' = checkpoint /\ previous' = None /\ high' = None /\ now' = now
    BY DEF End, committed
  <2> QED
    BY <2>1 DEF IInv, TypeOK, Bounds, Settled, Steps, End, producer, committed
<1>2. Window' /\ Capped'
  BY DEF Window, Capped, End
<1> QED
  BY <1>1, <1>2, SharedUntouched DEF IInv

LEMMA StartInv ==
    ASSUME IInv, StartJob \/ ReadState
    PROVE  IInv'
<1>1. /\ UNCHANGED <<producer, committed, now>>
      /\ UNCHANGED <<failures, high, capBound, walk, found>>
      /\ pc' \in {"state", "high"} /\ pc \in {"idle", "state"}
      /\ previous' \in {previous, checkpoint}
      /\ pc' = "high" => previous' = checkpoint
  BY DEF StartJob, ReadState
<1>2. TypeOK' /\ Bounds'
  <2>1. checkpoint' = checkpoint /\ now' = now
    BY <1>1 DEF committed
  <2> QED
    BY <1>1, <2>1 DEF IInv, TypeOK, Bounds, Settled, Steps, producer, committed
<1>3. Window'
  <2>1. found' = {} /\ checkpoint' = checkpoint
    BY <1>1 DEF IInv, Window, committed
  <2> QED
    BY <1>1, <2>1 DEF Window
<1>4. Capped'
  BY <1>1 DEF Capped
<1> QED
  BY <1>1, <1>2, <1>3, <1>4, SharedUntouched DEF IInv

(* Whatever the host's clock shows, the bound is settled and positive. *)
LEMMA BoundSettled ==
    ASSUME IInv, NEW skew \in -MaxSkew..MaxSkew
    PROVE  Settled(Bound(now + skew)) /\ Bound(now + skew) > 0
<1> USE Constants
<1>1. now \in Int /\ now >= FirstTick /\ skew \in Int /\ -MaxSkew <= skew /\ skew <= MaxSkew
  BY DEF IInv, TypeOK, Ticks, Bounds
<1>2. now + skew - Safety \in Int /\ now + skew - Safety <= now + MaxSkew - Safety /\ now + skew - Safety > 0
  BY <1>1
<1>3. Resume \in Nat
  BY DEF Resume, IInv, TypeOK, Settled, Bounds
<1>4. CASE CapBinds(now + skew)
  <2>1. Resume + Cap > 0 /\ Resume + Cap \in Int /\ Resume + Cap <= now + MaxSkew - Safety
    BY <1>1, <1>2, <1>3, <1>4 DEF CapBinds
  <2> QED
    BY <1>1, <1>4, <2>1 DEF Bound, Settled
<1>5. CASE ~CapBinds(now + skew)
  BY <1>1, <1>2, <1>5 DEF Bound, Settled
<1> QED
  BY <1>4, <1>5

LEMMA OpenInv ==
    ASSUME IInv, NEW skew \in -MaxSkew..MaxSkew, OpenWindow(now + skew)
    PROVE  IInv'
<1> USE Constants
<1>1. /\ UNCHANGED <<producer, committed, now>> /\ UNCHANGED <<failures, previous, walk, found>>
      /\ pc = "high" /\ pc' = "extract" /\ high' = Bound(now + skew)
      /\ capBound' = CapBinds(now + skew)
      /\ ~Regressed(Bound(now + skew))
  BY DEF OpenWindow
<1>2. Settled(Bound(now + skew)) /\ Bound(now + skew) > 0
  BY BoundSettled
<1>3. TypeOK' /\ Bounds'
  <2>1. checkpoint' = checkpoint /\ now' = now /\ capBound' \in BOOLEAN
    BY <1>1 DEF committed, CapBinds
  <2> QED
    BY <1>1, <1>2, <2>1 DEF IInv, TypeOK, Bounds, Settled, Steps, producer, committed
<1>4. Window'
  <2>1. found' = {} /\ previous' = checkpoint'
    BY <1>1 DEF IInv, Window, committed
  <2>2. high' # None /\ high' \in Int /\ (previous # None => previous \in Int)
    BY <1>1, <1>2 DEF Settled, IInv, TypeOK
  <2>3. previous # None => previous <= high'
    BY <1>1, <2>2 DEF Regressed
  <2> QED
    BY <1>1, <2>1, <2>2, <2>3 DEF Window
<1>5. Capped'
  <2>0. now \in Int /\ skew \in Int /\ (previous # None => previous \in Int)
    BY DEF IInv, TypeOK, Settled, Ticks
  <2>1. Resume' = Resume /\ Resume \in Int
    BY <1>1, <2>0 DEF Resume
  <2>2. /\ Cap # None => Bound(now + skew) <= Resume + Cap
        /\ CapBinds(now + skew) => Cap # None /\ Bound(now + skew) = Resume + Cap
    BY <2>0, <2>1 DEF Bound, CapBinds
  <2> QED
    BY <1>1, <2>1, <2>2 DEF Capped
<1> QED
  BY <1>1, <1>3, <1>4, <1>5, SharedUntouched DEF IInv

(* The folders of the walk hold every object the window owes: its folder is *)
(* named for an hour at most Lookahead after its timestamp, and closed at   *)
(* most Lookback before it.                                                 *)
LEMMA WalkCovers ==
    ASSUME IInv, pc = "extract", ~(high < Resume), NEW o \in Owed, InWindow(modified[o])
    PROVE  \E h \in Folders : InFolder(o, h)
<1> USE Constants
<1>1. /\ o \in Written /\ modified[o] \in Int /\ modified[o] >= Start
      /\ ~FullPrefix => folder[o] \in Nat /\ folder[o] >= HourOf(Start)
  BY DEF Owed, IInv, TypeOK, Ticks, Written
<1>2. CASE FullPrefix
  BY <1>2 DEF Folders, InFolder
<1>3. CASE ~FullPrefix
  <2>1. /\ HourOf(folder[o]) = folder[o]
        /\ folder[o] <= modified[o] + Lookahead
        /\ modified[o] <= folder[o] + Hour + Lookback
    BY <1>1, <1>3 DEF IInv, Produced
  <2>2. high \in Int /\ (previous # None => previous \in Int) /\ WalkFrom \in Int
    BY DEF IInv, Window, TypeOK, Settled, WalkFrom
  <2>3. folder[o] <= high + Lookahead
    BY <1>1, <1>3, <2>1, <2>2 DEF InWindow
  <2>4. HourOf(WalkFrom) <= folder[o]
    <3>1. CASE previous = None \/ Start > previous - Lookback
      BY <1>1, <1>3, <3>1 DEF WalkFrom
    <3>2. CASE ~(previous = None \/ Start > previous - Lookback)
      <4>1. WalkFrom = previous - Lookback /\ modified[o] > previous /\ previous \in Int
        BY <2>2, <3>2 DEF WalkFrom, InWindow
      <4>2. HourOf(WalkFrom) \in Int /\ HourOf(WalkFrom) <= WalkFrom
            /\ HourOf(HourOf(WalkFrom)) = HourOf(WalkFrom)
        BY <2>2, HourFacts
      <4>3. folder[o] + Hour > HourOf(WalkFrom)
        BY <1>1, <1>3, <2>1, <4>1, <4>2
      <4> QED
        BY <1>1, <1>3, <2>1, <4>2, <4>3, HourOrder
    <3> QED
      BY <3>1, <3>2
  <2>7. high + Lookahead \in Int
    BY <2>2
  <2>5. HourOf(WalkFrom) \in Int /\ high + Lookahead \in Int
    BY <2>2, <2>7, HourFacts
  <2>6. folder[o] \in Folders
    BY <1>1, <1>3, <2>1, <2>3, <2>4, <2>5 DEF Folders
  <2> QED
    BY <2>6 DEF InFolder
<1> QED
  BY <1>2, <1>3

LEMMA BeginInv ==
    ASSUME IInv, BeginWalk
    PROVE  IInv'
<1> USE Constants
<1>1. /\ UNCHANGED <<producer, committed, now>>
      /\ UNCHANGED <<failures, previous, high, capBound, found>>
      /\ pc = "extract" /\ pc' = "walk"
      /\ walk' = IF high < Resume THEN {} ELSE Folders
  BY DEF BeginWalk
<1>2. high \in Int /\ (previous # None => previous \in Int) /\ found = {} /\ previous = checkpoint
  BY <1>1 DEF IInv, Window, TypeOK, Settled
<1>3. ASSUME NEW h \in Folders PROVE HourOf(h) = h
  <2>1. HourOf(0) = 0
    BY DEF HourOf
  <2>2. high + Lookahead \in Int
    BY <1>2
  <2>3. HourOf(HourOf(high + Lookahead)) = HourOf(high + Lookahead)
    BY <2>2, HourFacts
  <2> QED
    BY <1>3, <2>1, <2>3 DEF Folders
<1>4. TypeOK' /\ Bounds'
  <2>1. checkpoint' = checkpoint /\ now' = now
    BY <1>1 DEF committed
  <2>2. \A h \in walk' : HourOf(h) = h
    BY <1>1, <1>3
  <2> QED
    BY <1>1, <2>1, <2>2 DEF IInv, TypeOK, Bounds, Settled, Steps, producer, committed
<1>5. ASSUME NEW o \in Owed, InWindow(modified[o]) PROVE \E h \in walk' : InFolder(o, h)
  <2>1. ~(high < Resume)
    <3>1. modified[o] \in Int /\ modified[o] >= Start
      BY DEF Owed, IInv, TypeOK, Ticks, Written
    <3> QED
      BY <1>2, <1>5, <3>1 DEF Resume, InWindow
  <2> QED
    BY <1>1, <1>5, <2>1, WalkCovers
<1>6. Window'
  <2>1. Owed' = Owed /\ modified' = modified /\ folder' = folder
    BY <1>1, SharedUntouched DEF producer
  <2>2. \A x : InWindow(x)' = InWindow(x)
    BY <1>1 DEF InWindow
  <2>3. high # None /\ (previous # None => previous <= high) /\ checkpoint' = checkpoint
    BY <1>1 DEF IInv, Window, committed
  <2> QED
    BY <1>1, <1>2, <1>5, <2>1, <2>2, <2>3 DEF Window, Reachable, InFolder
<1>7. Capped'
  BY <1>1, CappedKept
<1> QED
  BY <1>1, <1>4, <1>6, <1>7, SharedUntouched DEF IInv

(* What the window owes in the folder listed is visible by now. *)
LEMMA ListInv ==
    ASSUME IInv, NEW h \in walk, ListFolder(h)
    PROVE  IInv'
<1> USE Constants
<1>1. /\ UNCHANGED <<producer, committed, now>>
      /\ UNCHANGED <<failures, pc, previous, high, capBound>>
      /\ pc = "walk" /\ walk' = walk \ {h}
      /\ found' = found \cup
           {o \in Written : visible[o] <= now /\ InFolder(o, h) /\ InWindow(modified[o])}
  BY DEF ListFolder
<1>2. TypeOK' /\ Bounds'
  <2>1. checkpoint' = checkpoint /\ now' = now
    BY <1>1 DEF committed
  <2>2. found' \subseteq Objects /\ \A g \in walk' : HourOf(g) = g
    BY <1>1 DEF IInv, TypeOK, Written
  <2> QED
    BY <1>1, <2>1, <2>2 DEF IInv, TypeOK, Bounds, Settled, producer, committed
<1>3. ASSUME NEW o \in Owed, InWindow(modified[o])
      PROVE  o \in found' \/ \E g \in walk' : InFolder(o, g)
  <2>1. o \in found \/ \E g \in walk : InFolder(o, g)
    BY <1>1, <1>3 DEF IInv, Window, Reachable
  <2>2. visible[o] <= now
    <3>1. /\ o \in Written /\ visible[o] \in Int /\ modified[o] \in Int
          /\ visible[o] <= modified[o] + MaxDelay
      BY DEF Owed, Written, IInv, TypeOK, Ticks, Produced
    <3>2. high \in Int /\ high <= now + MaxSkew - Safety /\ now \in Int
      BY <1>1 DEF IInv, Window, TypeOK, Settled, Ticks
    <3>3. modified[o] <= high
      BY <1>3 DEF InWindow
    <3> QED
      BY <3>1, <3>2, <3>3
  <2> QED
    BY <1>1, <1>3, <2>1, <2>2 DEF Owed
<1>4. Window'
  <2>1. Owed' = Owed /\ Written' = Written /\ modified' = modified /\ folder' = folder
    BY <1>1, SharedUntouched DEF producer
  <2>2. \A x : InWindow(x)' = InWindow(x)
    BY <1>1 DEF InWindow
  <2>3. \A o \in found' : o \in Written /\ InWindow(modified[o])
    BY <1>1 DEF IInv, Window
  <2>4. /\ previous' = checkpoint' /\ high' # None /\ (previous' # None => previous' <= high')
        /\ pc' = "walk"
    BY <1>1 DEF IInv, Window, committed
  <2> QED
    BY <1>1, <1>3, <2>1, <2>2, <2>3, <2>4 DEF Window, Reachable, InFolder
<1>5. Capped'
  BY <1>1, CappedKept
<1> QED
  BY <1>1, <1>2, <1>4, <1>5, SharedUntouched DEF IInv

LEMMA ManifestInv ==
    ASSUME IInv, WriteManifest
    PROVE  IInv'
<1>1. /\ UNCHANGED <<producer, now, checkpoint, fetches>>
      /\ UNCHANGED <<failures, previous, high, capBound, walk, found>>
      /\ pc = "walk" /\ pc' = "commit" /\ walk = {}
      /\ delivered' = delivered \cup found
  BY DEF WriteManifest
<1>2. found \subseteq Written /\ Written \subseteq Objects
  BY DEF IInv, Window, Written
<1>3. TypeOK' /\ Bounds'
  BY <1>1, <1>2 DEF IInv, TypeOK, Bounds, Settled, Steps, producer
<1>4. Written' = Written /\ Owed' = Owed
  BY <1>1 DEF Written, Owed, producer
<1>5. Produced' /\ Fetched' /\ NoObjectMissed' /\ (delivered \subseteq Written)'
  BY <1>1, <1>2, <1>4 DEF IInv, Produced, Fetched, NoObjectMissed, producer
<1>6. Window'
  <2>1. \A o \in Owed : InWindow(modified[o]) => o \in found
    BY <1>1 DEF IInv, Window, Reachable
  <2>2. \A x : InWindow(x)' = InWindow(x)
    BY <1>1 DEF InWindow
  <2>3. /\ previous' = checkpoint' /\ high' # None /\ (previous' # None => previous' <= high')
        /\ \A o \in found : o \in Written /\ InWindow(modified[o])
    BY <1>1 DEF IInv, Window
  <2> QED
    BY <1>1, <1>4, <2>1, <2>2, <2>3 DEF Window, producer
<1>7. Capped'
  BY <1>1, CappedKept
<1> QED
  BY <1>3, <1>5, <1>6, <1>7 DEF IInv

(* The windows of successive commits meet: what the new checkpoint passes   *)
(* was passed by the old one or is in this window.                          *)
LEMMA CommitInv ==
    ASSUME IInv, Commit
    PROVE  IInv'
<1> USE Constants
<1>1. /\ UNCHANGED <<producer, now, delivered, failures>>
      /\ pc = "commit" /\ pc' \in {"idle", "state"}
      /\ checkpoint' = high
      /\ fetches' = [o \in Objects |-> IF o \in found THEN fetches[o] + 1 ELSE fetches[o]]
      /\ previous' = None /\ high' = None /\ walk' = {} /\ found' = {}
      /\ capBound' \in {capBound, FALSE}
  BY DEF Commit, End, NextWindow
<1>2. /\ high \in Int /\ high # None /\ Settled(high) /\ high > 0
      /\ previous = checkpoint
      /\ previous # None => previous \in Int /\ previous <= high
  BY <1>1 DEF IInv, Window, TypeOK, Bounds, Settled
<1>3. TypeOK' /\ Bounds'
  <2>1. fetches' \in [Objects -> Nat]
    BY <1>1 DEF IInv, TypeOK
  <2> QED
    BY <1>1, <1>2, <2>1 DEF IInv, TypeOK, Bounds, Settled, Steps, producer
<1>4. Written' = Written /\ Owed' = Owed
  BY <1>1 DEF Written, Owed, producer
<1>5. Window' /\ Capped'
  BY <1>1 DEF Window, Capped
<1>6. Produced' /\ (delivered \subseteq Written)'
  BY <1>1, <1>4 DEF IInv, Produced, producer
<1>7. NoObjectMissed'
  <2>1. ASSUME NEW o \in Owed, modified[o] <= high PROVE o \in delivered
    <3>0. modified[o] \in Int /\ modified[o] >= Start
      BY DEF Owed, IInv, TypeOK, Ticks, Written
    <3>1. CASE InWindow(modified[o])
      BY <1>1, <3>1 DEF IInv, Window
    <3>2. CASE ~InWindow(modified[o])
      <4>1. previous # None /\ modified[o] <= previous
        BY <1>2, <2>1, <3>0, <3>2 DEF InWindow
      <4> QED
        BY <1>2, <4>1 DEF IInv, NoObjectMissed
    <3> QED
      BY <3>1, <3>2
  <2> QED
    BY <1>1, <1>4, <2>1 DEF NoObjectMissed, producer
<1>8. Fetched'
  <2>1. ASSUME NEW o \in Objects, fetches'[o] # 0
        PROVE  fetches'[o] = 1 /\ o \in Written /\ modified[o] <= high
    <3>1. CASE o \in found
      <4>1. o \in Written /\ modified[o] <= high /\ modified[o] \in Int
        BY <3>1 DEF IInv, Window, InWindow, TypeOK, Ticks, Written
      <4>2. fetches[o] = 0
        <5>1. ASSUME fetches[o] # 0 PROVE FALSE
          <6>1. previous # None /\ modified[o] <= previous
            BY <1>2, <5>1 DEF IInv, Fetched
          <6>2. modified[o] > previous
            BY <3>1, <6>1 DEF IInv, Window, InWindow
          <6> QED
            BY <1>2, <4>1, <6>1, <6>2
        <5> QED
          BY <5>1
      <4> QED
        BY <1>1, <3>1, <4>1, <4>2
    <3>2. CASE o \notin found
      <4>1. /\ fetches[o] = 1 /\ o \in Written /\ fetches'[o] = fetches[o]
            /\ previous # None /\ modified[o] <= previous
        BY <1>1, <1>2, <2>1, <3>2 DEF IInv, Fetched
      <4>2. modified[o] \in Int
        BY DEF IInv, TypeOK, Ticks
      <4> QED
        BY <1>2, <4>1, <4>2
    <3> QED
      BY <3>1, <3>2
  <2> QED
    BY <1>1, <1>2, <1>4, <2>1 DEF Fetched, producer
<1> QED
  BY <1>3, <1>5, <1>6, <1>7, <1>8 DEF IInv

-----------------------------------------------------------------------------
LEMMA StepInv == IInv /\ [Next]_vars => IInv'
<1> SUFFICES ASSUME IInv, [Next]_vars PROVE IInv'
  OBVIOUS
<1>1. ASSUME NEW skew \in -MaxSkew..MaxSkew, SkipWindow(now + skew) PROVE IInv'
  BY <1>1, EndInv DEF SkipWindow, IInv, TypeOK
<1>2. CASE Fail
  <2>1. failures' \in 0..MaxFailures
    BY <1>2, Constants DEF Fail, IInv, TypeOK
  <2> QED
    BY <1>2, <2>1, EndInv DEF Fail
<1>3. CASE RunWindow
  BY <1>1, <1>3, StartInv, OpenInv, BeginInv, ListInv, ManifestInv, CommitInv DEF RunWindow
<1>4. CASE UNCHANGED vars
  <2>1. UNCHANGED <<producer, committed, now>> /\ UNCHANGED <<failures, locals>>
    BY <1>4 DEF vars
  <2>2. TypeOK' /\ Bounds'
    BY <2>1 DEF IInv, TypeOK, Bounds, Settled, producer, committed, locals
  <2>3. Window'
    BY <2>1, SharedUntouched
       DEF IInv, Window, Reachable, InFolder, InWindow, producer, committed, locals
  <2>4. Capped'
    BY <2>1, CappedKept DEF locals
  <2> QED
    BY <2>1, <2>2, <2>3, <2>4, SharedUntouched DEF IInv
<1> QED
  BY <1>2, <1>3, <1>4, TickInv, PutInv, StartInv DEF Next

(* The invariant: every window holds, has passed or can still reach what it *)
(* owes, and no committed object is above the checkpoint.                   *)
THEOREM Invariance == Spec => []IInv
  BY InitInv, StepInv, PTL DEF Spec

(* Every reachable state is well typed, with every bound behind the clock   *)
(* by the safety delay less the skew.                                       *)
THEOREM TypeCorrect == Spec => []TypeOK
<1>1. IInv => TypeOK
  BY DEF IInv
<1> QED
  BY <1>1, Invariance, PTL

(* The checkpoint never passes an object that was not landed, for any hour, *)
(* lookback, lookahead, cap and start, and any delay and skew that the      *)
(* safety delay covers.                                                     *)
THEOREM NoObjectMissedAlways == Spec => []NoObjectMissed
<1>1. IInv => NoObjectMissed
  BY DEF IInv
<1> QED
  BY <1>1, Invariance, PTL

(* No two committed runs contain the same object. *)
THEOREM NothingFetchedTwiceAlways == Spec => []NothingFetchedTwice
<1>1. IInv => NothingFetchedTwice
  <2> SUFFICES ASSUME IInv, NEW o \in Objects PROVE fetches[o] <= 1
    BY DEF NothingFetchedTwice
  <2>1. fetches[o] = 0 \/ fetches[o] = 1
    BY DEF IInv, Fetched
  <2> QED
    BY <2>1
<1> QED
  BY <1>1, Invariance, PTL

(* No landing run advances the checkpoint by more than the cap, and only a  *)
(* run as wide as the cap is followed by another in the same execution.     *)
THEOREM LoopsOnFullWindowsAlways == Spec => LoopsOnFullWindows
<1>1. ASSUME IInv, [Next]_vars, pc = "commit"
      PROVE  /\ Cap # None => high - Resume <= Cap
             /\ pc' = "state" => high - Resume = Cap
  <2>1. high \in Int /\ Resume \in Int /\ (Cap # None => Cap \in Int)
    BY <1>1, Constants DEF IInv, TypeOK, Settled, Window, Resume
  <2>2. Cap # None => high - Resume <= Cap
    BY <1>1, <2>1 DEF IInv, Capped
  <2>3. ASSUME pc' = "state" PROVE capBound
    <3>1. Commit
      BY <1>1, <2>3 DEF Next, vars, locals, Tick, PutObject, StartJob, RunWindow, ReadState, SkipWindow,
         OpenWindow, BeginWalk, ListFolder, WriteManifest, Fail, End
    <3> QED
      BY <2>3, <3>1 DEF Commit, CaughtUp, End
  <2> QED
    BY <1>1, <2>1, <2>2, <2>3 DEF IInv, Capped
<1>2. IInv /\ [Next]_vars =>
        [pc = "commit" =>
           /\ Cap # None => high - Resume <= Cap
           /\ pc' = "state" => high - Resume = Cap]_vars
  BY <1>1
<1> QED
  BY <1>2, Invariance, PTL DEF Spec, LoopsOnFullWindows

-----------------------------------------------------------------------------
(* The refinement: owed objects are the rows, their timestamps the          *)
(* watermarks, and nothing is written at or below a committed checkpoint.   *)
Stamp(o) == IF o \in Owed THEN modified[o] ELSE 0
Stamps == [o \in Objects |-> Stamp(o)]
Versions == {<<o, modified[o]>> : o \in delivered}

LEMMA LoadInit == Init => Load!Init
<1> SUFFICES ASSUME Init PROVE Load!Init
  OBVIOUS
<1>1. Owed = {} /\ delivered = {} /\ checkpoint = None
  BY DEF Init, Owed, Written
<1> QED
  BY <1>1 DEF Load!Init

LEMMA LoadStep == IInv /\ IInv' /\ [Next]_vars => [Load!Next]_Load!vars
<1> SUFFICES ASSUME IInv, IInv', [Next]_vars PROVE [Load!Next]_Load!vars
  OBVIOUS
<1> USE Constants
<1>0. ASSUME UNCHANGED <<producer, committed>> PROVE UNCHANGED Load!vars
  BY <1>0 DEF Load!vars, Owed, Written, producer, committed
<1>1. ASSUME NEW o \in Objects, NEW delay \in 0..MaxDelay,
             NEW h \in {t \in 0..(now + Lookahead) : HourOf(t) = t}, PutObject(o, h, delay)
      PROVE  [Load!Next]_Load!vars
  <2>1. /\ modified[o] = 0 /\ o \notin Written /\ o \notin delivered
        /\ modified' = [modified EXCEPT ![o] = now] /\ folder' = [folder EXCEPT ![o] = h]
        /\ delivered' = delivered /\ checkpoint' = checkpoint
    BY <1>1 DEF PutObject, IInv, Written, committed
  <2>2. now \in 1..LastTick /\ (checkpoint # None => checkpoint \in Int /\ now > checkpoint - 0)
    BY DEF IInv, TypeOK, Ticks, Bounds, Settled
  <2>3. ASSUME NEW q \in Objects, q # o PROVE modified'[q] = modified[q] /\ Stamp(q)' = Stamp(q)
    BY <2>1, <2>3 DEF Stamp, Owed, Written, IInv, TypeOK
  <2>4. Versions' = Versions
    <3>1. \A q \in delivered : q # o /\ q \in Objects
      BY <2>1 DEF IInv, TypeOK
    <3> QED
      BY <2>1, <2>3, <3>1 DEF Versions
  <2>5. Stamp(o) = 0 /\ Stamps[o] = 0
    BY <2>1 DEF Stamp, Stamps, Owed
  <2>6. CASE o \in Owed'
    <3>1. Stamp(o)' = now
      BY <2>1, <2>6 DEF Stamp, IInv, TypeOK
    <3>2. PICK w \in 1..LastTick : w = now
      BY <2>2
    <3>3. Stamps' = [Stamps EXCEPT ![o] = w]
      BY <2>3, <3>1, <3>2 DEF Stamps
    <3>4. Load!InsertRow(o, w)
      BY <2>1, <2>2, <2>4, <2>5, <3>2, <3>3 DEF Load!InsertRow, Stamps, Stamp, Versions
    <3> QED
      BY <3>4 DEF Load!Next
  <2>7. CASE o \notin Owed'
    <3>1. Stamp(o)' = 0
      BY <2>7 DEF Stamp
    <3>2. Stamps' = Stamps
      BY <2>3, <2>5, <3>1 DEF Stamps
    <3> QED
      BY <2>1, <2>4, <3>2 DEF Load!vars, Stamps, Stamp, Versions
  <2> QED
    BY <2>6, <2>7
<1>2. ASSUME WriteManifest PROVE [Load!Next]_Load!vars
  <2>1. /\ delivered' = delivered \cup found /\ modified' = modified /\ checkpoint' = checkpoint
        /\ Stamps' = Stamps
    BY <1>2 DEF WriteManifest, Stamps, Stamp, Owed, Written, producer
  <2>2. Versions \subseteq Versions'
    BY <2>1 DEF Versions
  <2>3. ASSUME NEW o \in delivered' PROVE o \in Objects /\ modified'[o] \in 1..LastTick
    BY <2>3 DEF IInv, TypeOK, Ticks, Written
  <2>4. Versions' \in SUBSET (Objects \X (1..LastTick))
    BY <2>3 DEF Versions
  <2>5. Load!Deliver
    BY <2>1, <2>2, <2>4 DEF Load!Deliver, Load!Versions, Stamps, Stamp, Versions
  <2> QED
    BY <2>5 DEF Load!Next
<1>3. ASSUME Commit PROVE [Load!Next]_Load!vars
  <2>1. /\ checkpoint' = high /\ delivered' = delivered /\ UNCHANGED producer
        /\ high # None /\ (checkpoint # None => checkpoint <= high)
    BY <1>3 DEF Commit, IInv, Window
  <2>2. high \in 1..LastTick
    BY <2>1 DEF IInv, TypeOK, Ticks, Bounds, Settled
  <2>3. Stamps' = Stamps /\ Versions' = Versions
    BY <2>1 DEF Stamps, Stamp, Versions, Owed, Written, producer
  <2>4. ASSUME NEW o \in Objects, Stamps[o] # 0, Stamps[o] <= high - 0
        PROVE  <<o, Stamps[o]>> \in Versions
    <3>1. o \in Owed /\ Stamps[o] = modified[o]
      BY <2>4 DEF Stamps, Stamp
    <3>2. modified[o] <= high /\ Owed' = Owed /\ modified' = modified
      BY <2>1, <2>2, <2>4, <3>1 DEF Owed, Written, producer, IInv, TypeOK, Ticks
    <3>3. o \in delivered
      BY <2>1, <3>1, <3>2 DEF IInv, NoObjectMissed
    <3> QED
      BY <3>1, <3>3 DEF Versions
  <2>5. Load!Advance(high)
    BY <2>1, <2>3, <2>4 DEF Load!Advance, Load!Below, Stamps, Stamp, Versions
  <2> QED
    BY <2>2, <2>5 DEF Load!Next
<1>4. ASSUME NEW skew \in -MaxSkew..MaxSkew, SkipWindow(now + skew) \/ OpenWindow(now + skew)
      PROVE  UNCHANGED <<producer, committed>>
  BY <1>4 DEF SkipWindow, OpenWindow
<1>5. ASSUME Tick \/ StartJob \/ ReadState \/ BeginWalk \/ (\E h \in walk : ListFolder(h)) \/ Fail
      PROVE  UNCHANGED <<producer, committed>>
  BY <1>5 DEF Tick, StartJob, ReadState, BeginWalk, ListFolder, Fail
<1>6. UNCHANGED vars => UNCHANGED <<producer, committed>>
  BY DEF vars
<1> QED
  BY <1>0, <1>1, <1>2, <1>3, <1>4, <1>5, <1>6 DEF Next, RunWindow

(* The window loop over a feed of objects is the same incremental load that *)
(* the Snowflake transaction implements.                                    *)
THEOREM Implementation == Spec => ImplementsIncrementalLoad
  BY LoadInit, LoadStep, Invariance, PTL DEF Spec, ImplementsIncrementalLoad
=============================================================================
