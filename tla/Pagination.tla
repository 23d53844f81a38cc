----------------------------- MODULE Pagination -----------------------------
(***************************************************************************)
(* One run of listAllCursors (internal/sigma/pagination.go), the loop      *)
(* behind every list call and every list-based lookup of the client.       *)
(*                                                                         *)
(* The server (external) serves a body for every cursor and may change any *)
(* of them between two fetches.  A page is named by its cursor and stands  *)
(* for its entries; First is the page of the nil cursor, Last is a nil or  *)
(* empty nextPage.                                                         *)
(***************************************************************************)
EXTENDS Naturals, Sequences

CONSTANTS Cursors, First, Last, MaxPages

ASSUME PaginationAssumption ==
    /\ First \notin Cursors /\ Last \notin Cursors /\ First # Last
    /\ MaxPages \in Nat \ {0}

VARIABLES
    pages,     \* what the server answers for each cursor
    edited,    \* history: the server changed a page during the listing
    envelope,  \* which decoder is in use: nextPage or nextPageToken
    cursor, seen, pageNum, entries,   \* the variables of listAllCursors
    status     \* "listing", or how listAllCursors returned

vars == <<pages, edited, envelope, cursor, seen, pageNum, entries, status>>

Pages  == Cursors \cup {First}
\* A body: blank, no JSON, a bare array, {}, an object without the list fields,
\* or an envelope with a next cursor.
Bodies == [shape : {"blank", "malformed", "array", "{}", "foreign"}, next : {Last}]
          \cup [shape : {"envelope"}, next : Cursors \cup {Last}]
Envelopes == {"nextPage", "nextPageToken"}

\* decodePageEnvelope takes a bare array for a whole list, decodePageTokenEnvelope
\* does not; {} is an empty last page to both.
decodes(kind, body) ==
    \/ body.shape \in {"envelope", "{}"}
    \/ body.shape = "array" /\ kind = "nextPage"

Init ==
    /\ pages \in [Pages -> Bodies]
    /\ edited = FALSE
    /\ envelope \in Envelopes
    /\ cursor = First
    /\ seen = {}
    /\ pageNum = 0
    /\ entries = <<>>
    /\ status = "listing"

\* The fetch fails: transport, status, empty body, cancelled sleep, bad envelope.
FetchFails ==
    /\ status = "listing" /\ pageNum < MaxPages
    /\ status' = "error"
    /\ UNCHANGED <<pages, edited, envelope, cursor, seen, pageNum, entries>>

\* Variant: the cursors met are not remembered.
FollowForgetful(next) ==
    /\ cursor' = next
    /\ pageNum' = pageNum + 1
    /\ UNCHANGED <<seen, status>>

\* Step past this page: remember the next cursor and go round the loop.
Follow(next) ==
    /\ seen' = seen \cup {next}
    /\ cursor' = next
    /\ pageNum' = pageNum + 1
    /\ UNCHANGED status

StopWith(s) ==
    /\ status' = s
    /\ UNCHANGED <<seen, cursor, pageNum>>

\* Variant: the cursor is looked up in seen after it was added there.
FetchAddsFirst ==
    /\ status = "listing" /\ pageNum < MaxPages
    /\ decodes(envelope, pages[cursor])
    /\ entries' = Append(entries, cursor)
    /\ LET next == pages[cursor].next IN
          \/ next = Last /\ StopWith("ok")
          \/ next # Last /\ StopWith("cycle")
    /\ UNCHANGED <<pages, edited, envelope>>

Fetch ==
    /\ status = "listing" /\ pageNum < MaxPages
    /\ decodes(envelope, pages[cursor])
    /\ entries' = Append(entries, cursor)
    /\ LET next == pages[cursor].next IN
          \/ next = Last /\ StopWith("ok")
          \/ next # Last /\ next \in seen /\ StopWith("cycle")
          \/ next # Last /\ next \notin seen /\ Follow(next)
    /\ UNCHANGED <<pages, edited, envelope>>

\* Variant: a listing cut off at the limit passes for a whole one.
PageLimitIsEnd ==
    /\ status = "listing" /\ pageNum >= MaxPages
    /\ StopWith("ok")
    /\ UNCHANGED <<pages, edited, envelope, entries>>

\* Variant: the limit is one page short.
PageLimitTooSoon ==
    /\ status = "listing" /\ pageNum >= MaxPages - 1
    /\ StopWith("limit")
    /\ UNCHANGED <<pages, edited, envelope, entries>>

\* Variant: the limit is noticed one page late, when no fetch is left.
PageLimitTooLate ==
    /\ status = "listing" /\ pageNum > MaxPages
    /\ StopWith("limit")
    /\ UNCHANGED <<pages, edited, envelope, entries>>

PageLimit ==
    /\ status = "listing" /\ pageNum >= MaxPages
    /\ StopWith("limit")
    /\ UNCHANGED <<pages, edited, envelope, entries>>

ServerEdits ==
    /\ status = "listing"
    /\ edited' = TRUE
    /\ \E c \in Pages, body \in Bodies : pages' = [pages EXCEPT ![c] = body]
    /\ UNCHANGED <<envelope, cursor, seen, pageNum, entries, status>>

Next == FetchFails \/ Fetch \/ PageLimit \/ ServerEdits

Spec == Init /\ [][Next]_vars

\* Every request ends (SigmaTransport); the server need not edit anything.
FairSpec == Spec /\ WF_vars(FetchFails \/ Fetch \/ PageLimit)

----------------------------------------------------------------------------
(* Properties.                                                              *)

TypeOK ==
    /\ pages \in [Pages -> Bodies]
    /\ edited \in BOOLEAN
    /\ envelope \in Envelopes
    /\ cursor \in Pages
    /\ seen \subseteq Cursors
    /\ pageNum \in 0..MaxPages
    /\ entries \in Seq(Pages)
    /\ status \in {"listing", "ok", "cycle", "limit", "error"}

Listed == {entries[i] : i \in 1..Len(entries)}

\* S holds the first page and, with a page, the page its next cursor names.
Closed(S) ==
    /\ First \in S
    /\ \A c \in S : decodes(envelope, pages[c])
                    /\ (pages[c].next # Last => pages[c].next \in S)

\* No page is fetched twice and no entry listed twice, and a listing costs at
\* most maxPages requests, even if the server rewires its cursors on the way.
NoPageTwice ==
    /\ Len(entries) <= MaxPages
    /\ \A i, j \in 1..Len(entries) : entries[i] = entries[j] => i = j

\* A list that is returned is the whole list: every page that can be reached
\* from the first one is in it (a resource missing from it is taken for deleted).
CompleteListing == status = "ok" /\ ~edited => Closed(Listed)

\* "pagination cycle detected" is said of real cycles only: the pages seen lead
\* to nothing else, and none of them is a last page.
CycleIsReal ==
    status = "cycle" /\ ~edited =>
        Closed(Listed) /\ \A c \in Listed : pages[c].next # Last

\* "pagination exceeded N pages" is said only if there is an N+1st page.
LimitIsReal ==
    status = "limit" =>
        /\ Len(entries) = MaxPages
        /\ cursor \in Cursors \ Listed
        /\ ~edited => pages[entries[MaxPages]].next = cursor

\* The listing ends, whatever cursors the server makes up.
ListingEnds == status = "listing" ~> status # "listing"

\* What the loop knows of the pages behind and before it.
Progress ==
    /\ Len(entries) = pageNum + (IF status \in {"ok", "cycle"} THEN 1 ELSE 0)
    /\ status \in {"listing", "limit"} => cursor \notin Listed
    /\ status \in {"ok", "cycle"} => Len(entries) > 0 /\ entries[Len(entries)] = cursor
    /\ cursor = First <=> pageNum = 0
    /\ pageNum > 0 => entries[1] = First
    /\ cursor \in seen \cup {First}
    /\ Listed \ {First} \subseteq seen
    /\ seen \subseteq Listed \cup {cursor}
    /\ status \in {"ok", "cycle", "error"} => pageNum < MaxPages
    /\ status = "limit" => pageNum = MaxPages

Chain ==
    ~edited =>
        /\ \A c \in Listed : decodes(envelope, pages[c])
        /\ \A i \in 1..Len(entries) :
              pages[entries[i]].next =
                  IF i < Len(entries) THEN entries[i + 1]
                  ELSE IF status \in {"listing", "limit", "error"} THEN cursor
                  ELSE pages[cursor].next
        /\ status = "ok" => pages[cursor].next = Last
        /\ status = "cycle" => pages[cursor].next \in seen

PaginationInv == TypeOK /\ NoPageTwice /\ Progress /\ Chain
============================================================================
