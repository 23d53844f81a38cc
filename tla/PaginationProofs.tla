-------------------------- MODULE PaginationProofs --------------------------
(* The guarantees of listAllCursors for every set of cursors, every page    *)
(* limit and every behaviour of the server.                                  *)
EXTENDS Pagination, TLAPS

LEMMA InvInit == Init => PaginationInv
<1> SUFFICES ASSUME Init PROVE PaginationInv
  OBVIOUS
<1>0. entries = <<>> /\ Len(entries) = 0 /\ 1..0 = {}
  BY DEF Init
<1>1. entries = <<>> /\ Len(entries) = 0 /\ Listed = {}
  BY <1>0 DEF Listed
<1>2. TypeOK
  <2>1. pages \in [Pages -> Bodies] /\ edited \in BOOLEAN /\ envelope \in Envelopes
    BY DEF Init
  <2>2. cursor \in Pages /\ seen \subseteq Cursors /\ pageNum \in 0..MaxPages
    BY PaginationAssumption DEF PaginationAssumption, Init, Pages
  <2>3. entries \in Seq(Pages) /\ status = "listing"
    BY <1>1 DEF Init
  <2>4. QED
    BY <2>1, <2>2, <2>3 DEF TypeOK
<1>3. NoPageTwice /\ Progress
  BY <1>1, PaginationAssumption DEF PaginationAssumption, Init, NoPageTwice, Progress
<1>4. Chain
  BY <1>1 DEF Init, Chain
<1>5. QED
  BY <1>2, <1>3, <1>4 DEF PaginationInv

\* What Append does to the pages listed so far.
LEMMA AppendPage ==
    ASSUME TypeOK, entries' = Append(entries, cursor)
    PROVE  /\ entries' \in Seq(Pages)
           /\ Len(entries') = Len(entries) + 1
           /\ \A i \in 1..Len(entries) : entries'[i] = entries[i]
           /\ entries'[Len(entries) + 1] = cursor
           /\ Listed' = Listed \cup {cursor}
<1>1. entries \in Seq(Pages) /\ cursor \in Pages
  BY DEF TypeOK
<1>2. /\ entries' \in Seq(Pages)
      /\ Len(entries') = Len(entries) + 1
      /\ \A i \in 1..Len(entries) : entries'[i] = entries[i]
      /\ entries'[Len(entries) + 1] = cursor
  BY <1>1
<1>3. 1..Len(entries') = 1..Len(entries) \cup {Len(entries) + 1}
  BY <1>1, <1>2
<1>4. Listed' = Listed \cup {cursor}
  BY <1>1, <1>2, <1>3 DEF Listed
<1>5. QED
  BY <1>2, <1>4

\* The three ways out of a successful fetch, and the other steps, keep PaginationInv.
LEMMA InvStep == PaginationInv /\ [Next]_vars => PaginationInv'
<1> SUFFICES ASSUME PaginationInv, [Next]_vars PROVE PaginationInv'
  OBVIOUS
<1>0. TypeOK /\ NoPageTwice /\ Progress /\ Chain
  BY DEF PaginationInv
<1> USE PaginationAssumption DEF PaginationAssumption
<1>1. CASE FetchFails
  <2>1. Listed' = Listed
    BY <1>1 DEF FetchFails, Listed
  <2>2. TypeOK' /\ NoPageTwice'
    BY <1>0, <1>1 DEF FetchFails, TypeOK, NoPageTwice
  <2>3. Progress'
    BY <1>0, <1>1, <2>1 DEF FetchFails, Progress
  <2>4. Chain'
    BY <1>0, <1>1, <2>1 DEF FetchFails, Chain, decodes
  <2>5. QED
    BY <2>2, <2>3, <2>4 DEF PaginationInv
<1>2. CASE PageLimit
  <2>1. Listed' = Listed
    BY <1>2 DEF PageLimit, Listed
  <2>2. TypeOK' /\ NoPageTwice'
    BY <1>0, <1>2 DEF PageLimit, StopWith, TypeOK, NoPageTwice
  <2>3. Progress'
    BY <1>0, <1>2, <2>1 DEF PageLimit, StopWith, Progress, TypeOK
  <2>4. Chain'
    BY <1>0, <1>2, <2>1 DEF PageLimit, StopWith, Chain, decodes
  <2>5. QED
    BY <2>2, <2>3, <2>4 DEF PaginationInv
<1>3. CASE ServerEdits
  <2>1. Listed' = Listed
    BY <1>3 DEF ServerEdits, Listed
  <2>2. TypeOK'
    BY <1>0, <1>3 DEF ServerEdits, TypeOK
  <2>3. NoPageTwice' /\ Progress'
    BY <1>0, <1>3, <2>1 DEF ServerEdits, NoPageTwice, Progress
  <2>4. Chain'
    BY <1>3 DEF ServerEdits, Chain
  <2>5. QED
    BY <2>2, <2>3, <2>4 DEF PaginationInv
<1>4. CASE Fetch
  <2> DEFINE next == pages[cursor].next
             n == Len(entries)
  <2>1. /\ entries' \in Seq(Pages) /\ Len(entries') = n + 1
        /\ \A i \in 1..n : entries'[i] = entries[i]
        /\ entries'[n + 1] = cursor
        /\ Listed' = Listed \cup {cursor}
    BY <1>0, <1>4, AppendPage DEF Fetch
  <2>2. /\ n \in Nat /\ n = pageNum /\ pageNum \in Nat /\ pageNum < MaxPages
        /\ cursor \notin Listed /\ status = "listing" /\ decodes(envelope, pages[cursor])
        /\ UNCHANGED <<pages, edited, envelope>>
    BY <1>0, <1>4 DEF Fetch, Progress, TypeOK
  <2>3. \A i \in 1..n : entries[i] \in Listed
    BY DEF Listed
  <2>4. next \in Cursors \cup {Last}
    BY <1>0 DEF TypeOK, Bodies
  <2>5. NoPageTwice'
    <3>1. Len(entries') <= MaxPages
      BY <2>1, <2>2
    <3>2. ASSUME NEW i \in 1..n + 1, NEW j \in 1..n + 1, entries'[i] = entries'[j]
          PROVE  i = j
      BY <3>2, <1>0, <2>1, <2>2, <2>3 DEF NoPageTwice
    <3>3. QED
      BY <3>1, <3>2, <2>1 DEF NoPageTwice
  <2>10. ASSUME ~edited, NEW i \in 1..n + 1
         PROVE  pages[entries'[i]].next =
                    IF i < n + 1 THEN entries'[i + 1] ELSE pages[cursor].next
    <3>1. CASE i = n + 1
      BY <3>1, <2>1, <2>2
    <3>2. CASE i = n /\ i # n + 1
      <4>1. n \in 1..n /\ entries'[n] = entries[n] /\ entries'[n + 1] = cursor
        BY <3>2, <2>1, <2>2
      <4>2. pages[entries[n]].next = cursor
        BY <4>1, <2>2, <2>10, <1>0 DEF Chain
      <4>3. QED
        BY <3>2, <4>1, <4>2, <2>2
    <3>3. CASE i < n
      <4>1. i \in 1..n /\ i + 1 \in 1..n
        BY <3>3, <2>2
      <4>2. pages[entries[i]].next = entries[i + 1]
        BY <4>1, <3>3, <2>10, <1>0 DEF Chain
      <4>3. QED
        BY <3>3, <4>1, <4>2, <2>1, <2>2
    <3>4. QED
      BY <3>1, <3>2, <3>3, <2>2
  <2>6. CASE next = Last /\ StopWith("ok")
    <3>1. TypeOK'
      BY <1>0, <2>1, <2>2, <2>6 DEF StopWith, TypeOK
    <3>2. Progress'
      BY <1>0, <2>1, <2>2, <2>6 DEF StopWith, Progress
    <3>3. Chain'
      <4> SUFFICES ASSUME ~edited' PROVE Chain'
        BY DEF Chain
      <4>1. status' = "ok" /\ cursor' = cursor /\ seen' = seen
        BY <2>6 DEF StopWith
      <4>2. \A c \in Listed' : decodes(envelope, pages[c])'
        BY <1>0, <2>1, <2>2 DEF Chain, decodes
      <4>3. \A i \in 1..n + 1 : pages[entries'[i]].next =
              IF i < n + 1 THEN entries'[i + 1] ELSE pages[cursor].next
        BY <2>10, <2>1, <2>2
      <4>4. QED
        BY <4>1, <4>2, <4>3, <2>1, <2>2, <2>6 DEF Chain
    <3>4. QED
      BY <2>5, <3>1, <3>2, <3>3 DEF PaginationInv
  <2>7. CASE next # Last /\ next \in seen /\ StopWith("cycle")
    <3>1. TypeOK'
      BY <1>0, <2>1, <2>2, <2>7 DEF StopWith, TypeOK
    <3>2. Progress'
      BY <1>0, <2>1, <2>2, <2>7 DEF StopWith, Progress
    <3>3. Chain'
      <4> SUFFICES ASSUME ~edited' PROVE Chain'
        BY DEF Chain
      <4>1. status' = "cycle" /\ cursor' = cursor /\ seen' = seen
        BY <2>7 DEF StopWith
      <4>2. \A c \in Listed' : decodes(envelope, pages[c])'
        BY <1>0, <2>1, <2>2 DEF Chain, decodes
      <4>3. \A i \in 1..n + 1 : pages[entries'[i]].next =
              IF i < n + 1 THEN entries'[i + 1] ELSE pages[cursor].next
        BY <2>10, <2>1, <2>2
      <4>4. QED
        BY <4>1, <4>2, <4>3, <2>1, <2>2, <2>7 DEF Chain
    <3>4. QED
      BY <2>5, <3>1, <3>2, <3>3 DEF PaginationInv
  <2>8. CASE next # Last /\ next \notin seen /\ Follow(next)
    <3>1. TypeOK'
      BY <1>0, <2>1, <2>2, <2>4, <2>8 DEF Follow, TypeOK, Pages
    <3>2. Progress'
      BY <1>0, <2>1, <2>2, <2>4, <2>8 DEF Follow, Progress
    <3>3. Chain'
      <4> SUFFICES ASSUME ~edited' PROVE Chain'
        BY DEF Chain
      <4>1. status' = "listing" /\ cursor' = next
        BY <2>2, <2>8 DEF Follow
      <4>2. \A c \in Listed' : decodes(envelope, pages[c])'
        BY <1>0, <2>1, <2>2 DEF Chain, decodes
      <4>3. \A i \in 1..n + 1 : pages[entries'[i]].next =
              IF i < n + 1 THEN entries'[i + 1] ELSE next
        BY <2>10, <2>1, <2>2
      <4>4. QED
        BY <4>1, <4>2, <4>3, <2>1, <2>2, <2>8 DEF Chain
    <3>4. QED
      BY <2>5, <3>1, <3>2, <3>3 DEF PaginationInv
  <2>9. QED
    BY <1>4, <2>6, <2>7, <2>8 DEF Fetch
<1>5. CASE UNCHANGED vars
  <2>1. Listed' = Listed
    BY <1>5 DEF vars, Listed
  <2>2. TypeOK' /\ NoPageTwice'
    BY <1>0, <1>5 DEF vars, TypeOK, NoPageTwice
  <2>3. Progress'
    BY <1>0, <1>5, <2>1 DEF vars, Progress
  <2>4. Chain'
    BY <1>0, <1>5, <2>1 DEF vars, Chain, decodes
  <2>5. QED
    BY <2>2, <2>3, <2>4 DEF PaginationInv
<1>6. QED
  BY <1>1, <1>2, <1>3, <1>4, <1>5 DEF Next

\* PaginationInv is an inductive invariant of listAllCursors.
THEOREM PaginationInvariant == Spec => []PaginationInv
<1>1. QED
  BY InvInit, InvStep, PTL DEF Spec

\* What the chain of next cursors says of a listing that has ended.
LEMMA ListedIsChained ==
    ASSUME PaginationInv, ~edited, Len(entries) > 0
    PROVE  /\ First \in Listed
           /\ \A i \in 1..Len(entries) - 1 :
                 pages[entries[i]].next = entries[i + 1] /\ entries[i + 1] \in Listed
<1>1. TypeOK /\ Progress /\ Chain
  BY DEF PaginationInv
<1>2. Len(entries) \in Nat /\ pageNum \in Nat
  BY <1>1, PaginationAssumption DEF TypeOK, PaginationAssumption
<1>3. First \in Listed
  <2>1. 1 \in 1..Len(entries) /\ entries[1] \in Listed
    BY <1>2 DEF Listed
  <2>2. CASE pageNum > 0
    BY <2>1, <2>2, <1>1 DEF Progress
  <2>3. CASE pageNum = 0
    <3>1. Len(entries) = 1 /\ entries[1] = cursor /\ cursor = First
      BY <2>3, <1>1, <1>2 DEF Progress
    <3>2. QED
      BY <3>1, <2>1
  <2>4. QED
    BY <2>2, <2>3, <1>2
<1>4. ASSUME NEW i \in 1..Len(entries) - 1
      PROVE  pages[entries[i]].next = entries[i + 1] /\ entries[i + 1] \in Listed
  <2>1. i \in 1..Len(entries) /\ i < Len(entries) /\ i + 1 \in 1..Len(entries)
    BY <1>2
  <2>2. QED
    BY <2>1, <1>1 DEF Chain, Listed
<1>5. QED
  BY <1>3, <1>4

\* In a listing that ended well or in a cycle, every page but the last fetched
\* one has its successor in the list; the last one has no next page or a seen one.
LEMMA EndedIsClosed ==
    ASSUME PaginationInv, ~edited, status \in {"ok", "cycle"}
    PROVE  /\ Closed(Listed)
           /\ status = "cycle" => \A c \in Listed : pages[c].next # Last
<1>1. TypeOK /\ Progress /\ Chain
  BY DEF PaginationInv
<1>2. Len(entries) \in Nat /\ Len(entries) > 0 /\ entries[Len(entries)] = cursor
  BY <1>1 DEF TypeOK, Progress
<1>3. First \in Listed
  BY <1>2, ListedIsChained
<1>4. ASSUME NEW c \in Listed
      PROVE  \/ pages[c].next \in Listed \ {Last}
             \/ c = cursor
  <2>1. PICK i \in 1..Len(entries) : entries[i] = c
    BY DEF Listed
  <2>2. CASE i = Len(entries)
    BY <2>1, <2>2, <1>2
  <2>3. CASE i \in 1..Len(entries) - 1
    <3>1. pages[c].next \in Listed
      BY <2>1, <2>3, <1>2, ListedIsChained
    <3>2. \A d \in Listed : d # Last
      BY <1>1, PaginationAssumption DEF PaginationAssumption, TypeOK, Listed, Pages
    <3>3. QED
      BY <3>1, <3>2
  <2>4. QED
    BY <2>2, <2>3, <1>2
<1>5. status = "ok" => pages[cursor].next = Last
  BY <1>1 DEF Chain
<1>6. status = "cycle" => pages[cursor].next \in Listed \ {Last}
  <2> SUFFICES ASSUME status = "cycle" PROVE pages[cursor].next \in Listed \ {Last}
    OBVIOUS
  <2>1. pages[cursor].next \in seen
    BY <1>1 DEF Chain
  <2>2. cursor \in Listed
    BY <1>2 DEF Listed
  <2>3. seen \subseteq Listed /\ Last \notin seen
    BY <1>1, <2>2, PaginationAssumption DEF Progress, TypeOK, PaginationAssumption
  <2>4. QED
    BY <2>1, <2>3
<1>7. \A c \in Listed : decodes(envelope, pages[c])
  BY <1>1 DEF Chain
<1>8. "ok" # "cycle"
  OBVIOUS
<1>9. QED
  BY <1>3, <1>4, <1>5, <1>6, <1>7, <1>8 DEF Closed

\* No page is fetched or listed twice, and there are at most maxPages requests.
THEOREM NoPageTwiceHolds == Spec => []NoPageTwice
<1>1. PaginationInv => NoPageTwice
  BY DEF PaginationInv
<1>2. QED
  BY <1>1, PaginationInvariant, PTL

\* A list that is returned holds every page that can be reached.
THEOREM CompleteListingHolds == Spec => []CompleteListing
<1>1. PaginationInv => CompleteListing
  BY EndedIsClosed DEF CompleteListing
<1>2. QED
  BY <1>1, PaginationInvariant, PTL

\* A reported cycle is one.
THEOREM CycleIsRealHolds == Spec => []CycleIsReal
<1>1. PaginationInv => CycleIsReal
  BY EndedIsClosed DEF CycleIsReal
<1>2. QED
  BY <1>1, PaginationInvariant, PTL

\* The page limit is reported only after maxPages pages, with a page left.
THEOREM LimitIsRealHolds == Spec => []LimitIsReal
<1>1. ASSUME PaginationInv PROVE LimitIsReal
  <2> SUFFICES ASSUME status = "limit" PROVE LimitIsReal
    BY DEF LimitIsReal
  <2>1. TypeOK /\ Progress /\ Chain
    BY <1>1 DEF PaginationInv
  <2>2. MaxPages \in Nat \ {0} /\ pageNum = MaxPages /\ Len(entries) = MaxPages
    BY <2>1, PaginationAssumption DEF Progress, PaginationAssumption
  <2>3. cursor \in Cursors \ Listed
    BY <2>1, <2>2 DEF Progress, TypeOK, Pages
  <2>4. ~edited => pages[entries[MaxPages]].next = cursor
    BY <2>1, <2>2 DEF Chain
  <2>5. QED
    BY <2>2, <2>3, <2>4 DEF LimitIsReal
<1>2. QED
  BY <1>1, PaginationInvariant, PTL
=============================================================================
