------------------------------- MODULE Grants -------------------------------
(***************************************************************************)
(* The grant resources (internal/provider/grant_resource.go and the five   *)
(* *_grant_resource.go), several addresses applied concurrently.           *)
(*                                                                         *)
(* Most POSTs of a grant do not return its ID.  Create therefore lists the *)
(* grants of the inode and looks for the one just made; the list also      *)
(* holds grants inherited from the inode above (workspace and document,    *)
(* connection and connection path), is read page by page while others      *)
(* grant and revoke, and need not show the newest.  Grants with a tag go   *)
(* through the generic API, which returns the ID.                          *)
(***************************************************************************)
EXTENDS FiniteSets, SigmaReplies

CONSTANTS
    Addresses,   \* Terraform addresses of grants
    Ids,         \* grant IDs the server can issue
    Keys,        \* pairs of grantee and permission
    OurKeys,     \* those the addresses ask for
    Tag, None,
    Gone         \* no grant under this ID, or none any more

Inodes == {"upper", "lower"}   \* e.g. a workspace and a workbook in it

\* Only documents (lower inodes) can have grants for a tagged version.
GrantSet == [inode : Inodes, key : Keys, tag : {None}]
            \cup [inode : {"lower"}, key : Keys, tag : {Tag}]

ASSUME GrantsAssumption ==
    /\ IsFiniteSet(Ids) /\ OurKeys \subseteq Keys
    /\ None \notin Ids \cup {Tag}
    /\ Gone \notin GrantSet /\ None \notin [id : Ids, tag : {None, Tag}, inode : Inodes]

VARIABLES
    config,     \* what each address asks for
    urlIds,     \* the API lists inodes under a URL ID, not the configured one
    listsTags,  \* the API lists the tag of a grant
    grants,     \* the server: the grant of each ID, or Gone
    state,      \* the Terraform state of each address: None or [id, tag, inode]
    posted,     \* the grant a Create has posted and not located yet, else None
    made,       \* history: grants each address has brought into being
    reported,   \* history: grants that exist after an error that was reported
    adrift,     \* history: addresses with an entry that need not name their own grant:
                \* Create was not shown it, or the user imported another one
    misled      \* history: grants that a list did not show or a bare 404 denied

vars == <<config, urlIds, listsTags, grants, state, posted, made, reported, adrift, misled>>

Live(id) == grants[id] # Gone
Located(a) == posted[a] = None
Held(id) == \E a \in Addresses : posted[a] = id \/ (state[a] # None /\ state[a].id = id)

Init ==
    /\ config \in [Addresses -> {g \in GrantSet : g.key \in OurKeys}]
    /\ \A a, b \in Addresses : config[a] = config[b] => a = b
    /\ urlIds \in BOOLEAN
    /\ listsTags \in BOOLEAN
    /\ grants = [id \in Ids |-> Gone]
    /\ state = [a \in Addresses |-> None]
    /\ posted = [a \in Addresses |-> None]
    /\ made = [a \in Addresses |-> {}]
    /\ reported = {}
    /\ adrift = {}
    /\ misled = {}

----------------------------------------------------------------------------
(* The list of an inode and what a lookup makes of it.                     *)

\* A list includes the grants inherited from above.
Listed(inode) == {id \in Ids : Live(id) /\ (grants[id].inode = inode \/ inode = "lower")}

\* What the pages of a list show of it: any part, as others edit meanwhile.
Lists(inode) == SUBSET Listed(inode)

ShownTag(g) == IF listsTags THEN g.tag ELSE None
ShownInodeIs(g, inode) == ~urlIds /\ g.inode = inode

\* Lookups without an ID are made for untagged grants only.
grantMatches(g, wanted) == g.key = wanted.key /\ ShownTag(g) = None

\* Variant: the first grant that matches is taken.
lookupFirst(list, wanted) == {id \in list : grantMatches(grants[id], wanted)}

\* Variant: of several matches, one on the inode is taken.
lookupAnyExact(list, wanted) ==
    LET matches == {id \in list : grantMatches(grants[id], wanted)}
        exact   == {id \in matches : ShownInodeIs(grants[id], wanted.inode)}
    IN  IF Cardinality(matches) = 1 THEN matches ELSE exact

\* The only match, or the only one on the inode itself; {} stands for the errors
\* "grant not found" and "multiple grants matched".
lookupGrant(list, wanted) ==
    LET matches == {id \in list : grantMatches(grants[id], wanted)}
        exact   == {id \in matches : ShownInodeIs(grants[id], wanted.inode)}
    IN  IF Cardinality(matches) = 1 THEN matches
        ELSE IF Cardinality(exact) = 1 THEN exact ELSE {}

tagged(entry) == entry.tag # None

----------------------------------------------------------------------------
(* Create: POST, then, unless the grant is tagged, the list.               *)

\* The server makes a new grant or, as it sees fit, keeps an equal one.
Granted(a, id, new) ==
    IF new
    THEN /\ ~Live(id) /\ ~Held(id)
         /\ grants' = [grants EXCEPT ![id] = config[a]]
         /\ made' = [made EXCEPT ![a] = @ \cup {id}]
    ELSE /\ grants[id] = config[a]
         /\ UNCHANGED <<grants, made>>

\* The entry that records a grant of the configured inode.
Entry(a, id, tag) == [id |-> id, tag |-> tag, inode |-> config[a].inode]

Unsaved(a, id) ==
    /\ reported' = reported \cup {id}
    /\ UNCHANGED <<state, posted, misled>>
Saved(a, id, tag) ==
    /\ reported' = reported \ {id}
    /\ misled' = misled \ {id}
    /\ state' = [state EXCEPT ![a] = Entry(a, id, tag)]
    /\ UNCHANGED posted

\* A grant for a tagged version: the answer has the ID, or is an error, or lacks
\* the ID, which the code takes for an error.
CreateTagged(a) ==
    /\ state[a] = None /\ tagged(config[a])
    /\ \E id \in Ids, new \in BOOLEAN :
          /\ Granted(a, id, new)
          /\ Saved(a, id, Tag) \/ Unsaved(a, id)
    /\ UNCHANGED <<config, urlIds, listsTags, adrift>>

\* Any other grant: success does not tell the ID.
CreateListed(a) ==
    /\ state[a] = None /\ Located(a) /\ ~tagged(config[a])
    /\ \E id \in Ids, new \in BOOLEAN :
          /\ Granted(a, id, new)
          /\ \/ /\ posted' = [posted EXCEPT ![a] = id]
                /\ reported' = reported \ {id}
                /\ misled' = misled \ {id}
                /\ UNCHANGED state
             \/ Unsaved(a, id)
    /\ UNCHANGED <<config, urlIds, listsTags, adrift>>

\* Create records what the lookup found in a list.
Adopt(a, list) ==
    /\ \E id \in lookupGrant(list, config[a]) :
          state' = [state EXCEPT ![a] = Entry(a, id, None)]
    /\ adrift' = IF posted[a] \in list THEN adrift ELSE adrift \cup {a}
    /\ misled' = misled \cup {id \in {posted[a]} \ list : Live(id)}
    /\ UNCHANGED reported

\* Variant: a grant that is not found is looked up by the next refresh.
LocateQuietly(a) ==
    /\ ~Located(a)
    /\ \/ \E list \in Lists(config[a].inode) : Adopt(a, list)
       \/ UNCHANGED <<state, reported, adrift, misled>>
    /\ posted' = [posted EXCEPT ![a] = None]
    /\ UNCHANGED <<config, urlIds, listsTags, grants, made>>

\* The list fails, or finds no grant or several: an error without a state entry.
Locate(a) ==
    /\ ~Located(a)
    /\ \/ \E list \in Lists(config[a].inode) : Adopt(a, list)
       \/ /\ reported' = reported \cup {id \in {posted[a]} : Live(id)}
          /\ UNCHANGED <<state, adrift, misled>>
    /\ posted' = [posted EXCEPT ![a] = None]
    /\ UNCHANGED <<config, urlIds, listsTags, grants, made>>

----------------------------------------------------------------------------
(* Read, Delete and import.                                                *)

Forget(a) == state' = [state EXCEPT ![a] = None] /\ adrift' = adrift \ {a}

\* What a Read makes of the reply to its request, about a grant that it finds
\* (found) or does not, perhaps because the list did not show it (hidden).
Refresh(a, found, hidden, tag) ==
    /\ \E r \in Answers(found, FALSE) :
          \/ /\ r[1] = "ok"
             /\ state' = [state EXCEPT ![a].tag = tag]
             /\ UNCHANGED <<adrift, misled>>
          \/ /\ IsNotFound(r[1])
             /\ Forget(a)
             /\ misled' = misled \cup
                   {id \in IF r[1] = "bare404" THEN {state[a].id} ELSE hidden : Live(id)}
          \/ r[1] # "ok" /\ ~IsNotFound(r[1]) /\ UNCHANGED <<state, adrift, misled>>
    /\ UNCHANGED <<config, urlIds, listsTags, grants, posted, made, reported>>

ReadTagged(a) ==
    /\ state[a] # None /\ tagged(state[a])
    /\ Refresh(a, Live(state[a].id), {}, Tag)

\* Variant: the grant is looked up by what it grants, as in Create.
ReadByContent(a) ==
    /\ state[a] # None /\ ~tagged(state[a])
    /\ LET found == state[a].id \in lookupGrant(Listed(state[a].inode), config[a]) IN
          Refresh(a, found, {}, IF found THEN ShownTag(grants[state[a].id]) ELSE None)

\* The list is searched for the ID; a list without it and the list of a missing
\* inode both mean that the grant is gone.
ReadListed(a) ==
    /\ state[a] # None /\ ~tagged(state[a])
    /\ LET listed == {state[a].id} \cap Listed(state[a].inode) IN
          \/ listed # {} /\ Refresh(a, TRUE, {}, ShownTag(grants[state[a].id]))
          \/ Refresh(a, FALSE, listed, None)

Revoke(id) ==
    /\ grants' = [grants EXCEPT ![id] = Gone]
    /\ made' = [a \in Addresses |-> made[a] \ {id}]
    /\ misled' = misled \ {id}
    /\ reported' = reported \ {id}

\* The API of a document may or may not know an inherited grant.
Knows(inode, id) ==
    IF Live(id) /\ grants[id].inode # inode THEN BOOLEAN ELSE {Live(id)}

\* Success and a missing grant both end Delete without error.
Delete(a) ==
    /\ state[a] # None
    /\ LET id == state[a].id IN
          \E known \in Knows(state[a].inode, id) : \E r \in Answers(known, TRUE) :
              /\ IF r[2] THEN Revoke(id)
                 ELSE /\ UNCHANGED <<grants, made, reported>>
                      /\ misled' = misled \cup {i \in {id} : r[1] = "bare404" /\ Live(i)}
              /\ IF r[1] = "ok" \/ IsNotFound(r[1]) THEN Forget(a) ELSE UNCHANGED <<state, adrift>>
    /\ UNCHANGED <<config, urlIds, listsTags, posted>>

\* terraform import of inodeId/grantId and the Read that follows, which must show
\* the grant: any that no address holds, inherited or not what the configuration
\* asks for.  The tag is not part of the import ID.
Import(a) ==
    /\ state[a] = None /\ Located(a)
    /\ \E inode \in Inodes : \E id \in Listed(inode) :
          /\ ~Held(id)
          /\ state' = [state EXCEPT ![a] =
                [id |-> id, tag |-> ShownTag(grants[id]), inode |-> inode]]
          /\ IF grants[id] = config[a] /\ inode = config[a].inode
                THEN misled' = misled \ {id} /\ UNCHANGED adrift
                ELSE adrift' = adrift \cup {a} /\ UNCHANGED misled
    /\ UNCHANGED <<config, urlIds, listsTags, grants, posted, made, reported>>

\* Other people grant and revoke at any time (external).
Somebody ==
    /\ \E id \in Ids :
          \/ /\ ~Live(id) /\ ~Held(id)
             /\ \E g \in GrantSet : grants' = [grants EXCEPT ![id] = g]
             /\ UNCHANGED <<made, reported, misled>>
          \/ Live(id) /\ Revoke(id)
    /\ UNCHANGED <<config, urlIds, listsTags, state, posted, adrift>>

Next ==
    \/ \E a \in Addresses :
          \/ CreateTagged(a) \/ CreateListed(a) \/ Locate(a)
          \/ ReadTagged(a) \/ ReadListed(a) \/ Delete(a) \/ Import(a)
    \/ Somebody

Spec == Init /\ [][Next]_vars

----------------------------------------------------------------------------
(* Properties.                                                             *)

TypeOK ==
    /\ config \in [Addresses -> GrantSet]
    /\ urlIds \in BOOLEAN /\ listsTags \in BOOLEAN
    /\ grants \in [Ids -> GrantSet \cup {Gone}]
    /\ state \in [Addresses -> [id : Ids, tag : {None, Tag}, inode : Inodes] \cup {None}]
    /\ posted \in [Addresses -> Ids \cup {None}]
    /\ made \in [Addresses -> SUBSET Ids]
    /\ reported \subseteq Ids
    /\ adrift \subseteq Addresses
    /\ misled \subseteq Ids
    /\ \A a \in Addresses : posted[a] = None \/ state[a] = None
    /\ \A a \in adrift : state[a] # None

\* Of the grants that the list shows, Create records the one it has posted and no
\* other, inherited, equal or tagged.  What it makes of a list that does not show
\* the posted one (adrift) is a limit of the code: a single inherited grant then
\* passes for it.
AdoptsItsOwn ==
    [][\A a \in Addresses :
          posted[a] # None /\ state'[a] # None /\ a \notin adrift' => state'[a].id = posted[a]]_vars

\* No two addresses take one grant for theirs, where the second destroy would
\* revoke what the first address manages; unless one of them is adrift.
NoSharedGrant ==
    \A a, b \in Addresses :
        a # b /\ state[a] # None /\ state[b] # None /\ state[a].id = state[b].id
            => a \in adrift \/ b \in adrift

\* A grant that an address made and that still exists is in some state entry, or
\* about to be located, or was the subject of an error; or a list did not show it,
\* or a bare 404 denied it.
NoSilentGrant ==
    \A a \in Addresses : \A id \in made[a] : Held(id) \/ id \in reported \cup misled

\* Terraform forgets a grant that still gives access, in a refresh or a destroy,
\* only in one of the three ways the code allows: a list did not show it, a 404
\* without a code denied it, or the entry names a grant of the inode above, which
\* the DELETE of the inode below need not know.
ForgetsOnlyTheRevoked ==
    [][\A a \in Addresses :
          state[a] # None /\ state'[a] = None =>
              \/ grants'[state[a].id] = Gone
              \/ state[a].id \in misled'
              \/ grants[state[a].id].inode # state[a].inode]_vars

\* The strengthening of the invariants above that every step preserves.
Asked == \A a, b \in Addresses : config[a] = config[b] => a = b
\* What Create has posted is what it was asked for, or has been revoked since.
PostedIsIts ==
    \A a \in Addresses : posted[a] # None =>
       ~tagged(config[a]) /\ grants[posted[a]] \in {config[a], Gone}
\* A state entry names a grant that the list of its inode can show, or nothing.
EntryListed ==
    \A a \in Addresses : state[a] # None /\ Live(state[a].id) =>
       grants[state[a].id].inode = state[a].inode \/ state[a].inode = "lower"
\* Unless it is adrift, an address holds what was asked for, or nothing.
HoldsIts ==
    \A a \in Addresses : state[a] # None /\ a \notin adrift =>
       /\ grants[state[a].id] \in {config[a], Gone}
       /\ state[a].inode = config[a].inode
MadeAccounted ==
    \A a \in Addresses : \A id \in made[a] :
       /\ grants[id] = config[a]
       /\ \/ posted[a] = id
          \/ state[a] # None /\ state[a].id = id /\ a \notin adrift
          \/ id \in reported \cup misled

GrantsInv ==
    TypeOK /\ Asked /\ PostedIsIts /\ EntryListed /\ HoldsIts /\ MadeAccounted /\ NoSharedGrant
=============================================================================
