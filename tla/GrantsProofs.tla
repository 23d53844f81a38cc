---------------------------- MODULE GrantsProofs ----------------------------
(* The grant resources, for any number of addresses, grants and grantees.  *)
EXTENDS Grants, TLAPS, FiniteSetTheorems

\* A list that shows a grant made for what is wanted yields this one or none.
LEMMA LookupFindsIt ==
    ASSUME NEW wanted \in GrantSet, ~tagged(wanted), NEW list \in SUBSET Ids,
           NEW id \in list, grants[id] = wanted,
           NEW found \in lookupGrant(list, wanted)
    PROVE  found = id
<1> DEFINE matches == {i \in list : grantMatches(grants[i], wanted)}
           exact   == {i \in matches : ShownInodeIs(grants[i], wanted.inode)}
<1>1. id \in matches
  BY DEF grantMatches, ShownTag, tagged
<1>2. matches \subseteq Ids /\ exact \subseteq Ids
  OBVIOUS
<1>3. IsFiniteSet(matches) /\ IsFiniteSet(exact)
  BY <1>2, FS_Subset, GrantsAssumption DEF GrantsAssumption
<1>4. lookupGrant(list, wanted) = IF Cardinality(matches) = 1 THEN matches
                                  ELSE IF Cardinality(exact) = 1 THEN exact ELSE {}
  BY DEF lookupGrant
<1> HIDE DEF matches
<1>5. exact # {} => id \in exact
  BY <1>1 DEF ShownInodeIs
<1> HIDE DEF exact
<1>6. CASE Cardinality(matches) = 1
  <2>1. PICK x : matches = {x}
    BY <1>3, <1>6, FS_Singleton
  <2>2. QED
    BY <1>1, <1>4, <1>6, <2>1
<1>7. CASE Cardinality(matches) # 1 /\ Cardinality(exact) = 1
  <2>1. PICK x : exact = {x}
    BY <1>3, <1>7, FS_Singleton
  <2>2. QED
    BY <1>4, <1>5, <1>7, <2>1
<1>8. QED
  BY <1>4, <1>6, <1>7

\* The markers None and Gone are neither grants, IDs nor state entries.
LEMMA Markers ==
    /\ None \notin Ids /\ None # Tag /\ Gone \notin GrantSet
    /\ None \notin [id : Ids, tag : {None, Tag}, inode : Inodes]
  BY GrantsAssumption DEF GrantsAssumption

\* A grant that is made or kept for an address; nobody else has made it.
LEMMA GrantedKeeps ==
    ASSUME GrantsInv, NEW a \in Addresses, NEW id \in Ids, NEW new \in BOOLEAN, Granted(a, id, new)
    PROVE  /\ grants' \in [Ids -> GrantSet \cup {Gone}] /\ grants'[id] = config[a]
           /\ made' \in [Addresses -> SUBSET Ids]
           /\ \A i \in Ids : i # id => grants'[i] = grants[i]
           /\ \A b \in Addresses : b # a => made'[b] = made[b] /\ id \notin made[b]
           /\ made'[a] \subseteq made[a] \cup {id}
           /\ \A b \in Addresses : posted[b] = id \/ (state[b] # None /\ state[b].id = id)
                 => grants[id] = config[a]
<1>1. \A b \in Addresses : config[b] \in GrantSet /\ config[b] # Gone
  BY Markers DEF GrantsInv, TypeOK
<1>2. CASE new
  <2>1. \A b \in Addresses : id \notin made[b]
    BY <1>1, <1>2 DEF Granted, Live, GrantsInv, MadeAccounted
  <2>2. QED
    BY <1>1, <1>2, <2>1, Markers DEF Granted, Live, Held, GrantsInv, TypeOK
<1>3. CASE ~new
  <2>1. \A b \in Addresses : b # a => id \notin made[b]
    BY <1>3 DEF Granted, GrantsInv, MadeAccounted, Asked
  <2>2. QED
    BY <1>1, <1>3, <2>1 DEF Granted, GrantsInv, TypeOK
<1>4. QED
  BY <1>2, <1>3

\* What an address records of a grant is an entry.
LEMMA EntryFacts ==
    ASSUME TypeOK, NEW a \in Addresses, NEW id \in Ids, NEW tag \in {None, Tag}
    PROVE  /\ Entry(a, id, tag) \in [id : Ids, tag : {None, Tag}, inode : Inodes]
           /\ Entry(a, id, tag) # None
           /\ Entry(a, id, tag).id = id /\ Entry(a, id, tag).inode = config[a].inode
<1>1. config[a] \in GrantSet
  BY DEF TypeOK
<1>2. config[a].inode \in Inodes
  BY <1>1 DEF GrantSet, Inodes
<1>3. QED
  BY <1>2, Markers DEF Entry

\* Create keeps the invariant, whether the grant is recorded, posted or lost.
LEMMA CreateStep ==
    ASSUME GrantsInv, NEW a \in Addresses, CreateTagged(a) \/ CreateListed(a)
    PROVE  GrantsInv'
<1>1. PICK id \in Ids, new \in BOOLEAN :
         /\ Granted(a, id, new)
         /\ \/ tagged(config[a]) /\ Saved(a, id, Tag)
            \/ Unsaved(a, id)
            \/ /\ ~tagged(config[a])
               /\ posted' = [posted EXCEPT ![a] = id]
               /\ reported' = reported \ {id}
               /\ misled' = misled \ {id}
               /\ UNCHANGED state
  BY DEF CreateTagged, CreateListed
<1>2. state[a] = None /\ posted[a] = None /\ a \notin adrift
  BY DEF CreateTagged, CreateListed, Located, GrantsInv, PostedIsIts, TypeOK
<1>3. UNCHANGED <<config, urlIds, listsTags, adrift>>
  BY DEF CreateTagged, CreateListed
<1>4. /\ grants' \in [Ids -> GrantSet \cup {Gone}] /\ grants'[id] = config[a]
      /\ made' \in [Addresses -> SUBSET Ids]
      /\ \A i \in Ids : i # id => grants'[i] = grants[i]
      /\ \A b \in Addresses : b # a => made'[b] = made[b] /\ id \notin made[b]
      /\ made'[a] \subseteq made[a] \cup {id}
      /\ \A b \in Addresses : posted[b] = id \/ (state[b] # None /\ state[b].id = id)
            => grants[id] = config[a]
  BY <1>1, GrantedKeeps
<1>5. \A b \in Addresses : config[b] \in GrantSet /\ config[b] # Gone
  BY Markers DEF GrantsInv, TypeOK
<1>6. \A b \in Addresses : state[b] # None => grants'[state[b].id] = grants[state[b].id]
  BY <1>4, Markers DEF GrantsInv, TypeOK
<1> USE Markers, <1>2, <1>3, <1>4, <1>5 DEF GrantsInv
<1>7. CASE tagged(config[a]) /\ Saved(a, id, Tag)
  <2>1. state'[a] = Entry(a, id, Tag) /\ state'[a] # None /\ state'[a].id = id
        /\ state'[a].inode = config[a].inode
    BY <1>7, EntryFacts DEF Saved, TypeOK
  <2>2. \A b \in Addresses : b # a => state'[b] = state[b]
    BY <1>7 DEF Saved, TypeOK
  <2>3. posted' = posted /\ reported' = reported \ {id} /\ misled' = misled \ {id}
    BY <1>7 DEF Saved
  <2>4. TypeOK'
    BY <1>7, <2>3, EntryFacts DEF Saved, TypeOK
  <2>5. PostedIsIts' /\ Asked'
    BY <2>3 DEF PostedIsIts, Asked, TypeOK
  <2>6. EntryListed'
    BY <1>6, <2>1, <2>2 DEF EntryListed, Live
  <2>7. HoldsIts'
    BY <2>1, <2>2 DEF HoldsIts, TypeOK
  <2>8. MadeAccounted'
    BY <2>1, <2>2, <2>3 DEF MadeAccounted, TypeOK
  <2>9. NoSharedGrant'
    BY <2>1, <2>2 DEF NoSharedGrant, HoldsIts, Asked, TypeOK
  <2>10. QED
    BY <2>4, <2>5, <2>6, <2>7, <2>8, <2>9
<1>8. CASE Unsaved(a, id)
  <2>1. state' = state /\ posted' = posted /\ misled' = misled /\ reported' = reported \cup {id}
    BY <1>8 DEF Unsaved
  <2>2. TypeOK'
    BY <2>1 DEF TypeOK
  <2>3. PostedIsIts' /\ Asked'
    BY <2>1 DEF PostedIsIts, Asked, TypeOK
  <2>4. EntryListed'
    BY <1>6, <2>1 DEF EntryListed, Live
  <2>5. HoldsIts'
    BY <2>1 DEF HoldsIts, TypeOK
  <2>6. MadeAccounted'
    BY <2>1 DEF MadeAccounted, TypeOK
  <2>7. NoSharedGrant'
    BY <2>1 DEF NoSharedGrant
  <2>8. QED
    BY <2>2, <2>3, <2>4, <2>5, <2>6, <2>7
<1>9. CASE /\ ~tagged(config[a])
           /\ posted' = [posted EXCEPT ![a] = id]
           /\ reported' = reported \ {id}
           /\ misled' = misled \ {id}
           /\ UNCHANGED state
  <2>1. posted'[a] = id /\ \A b \in Addresses : b # a => posted'[b] = posted[b]
    BY <1>9 DEF TypeOK
  <2>2. TypeOK'
    BY <1>9 DEF TypeOK
  <2>3. PostedIsIts' /\ Asked'
    BY <1>9, <2>1 DEF PostedIsIts, Asked, TypeOK
  <2>4. EntryListed'
    BY <1>6, <1>9 DEF EntryListed, Live
  <2>5. HoldsIts'
    BY <1>9 DEF HoldsIts, TypeOK
  <2>6. MadeAccounted'
    BY <1>9, <2>1 DEF MadeAccounted, TypeOK
  <2>7. NoSharedGrant'
    BY <1>9 DEF NoSharedGrant
  <2>8. QED
    BY <2>2, <2>3, <2>4, <2>5, <2>6, <2>7
<1>10. QED
  BY <1>1, <1>7, <1>8, <1>9

\* Create records the grant it posted, if the list shows it.
LEMMA AdoptsWhatIsShown ==
    ASSUME GrantsInv, NEW a \in Addresses, posted[a] # None,
           NEW list \in Lists(config[a].inode), Adopt(a, list)
    PROVE  \E id \in list :
              /\ state' = [state EXCEPT ![a] = Entry(a, id, None)]
              /\ posted[a] \in list => id = posted[a] /\ grants[id] = config[a]
<1>1. posted[a] \in Ids /\ config[a] \in GrantSet /\ list \in SUBSET Ids
  BY DEF GrantsInv, TypeOK, Lists, Listed
<1>2. PICK id \in lookupGrant(list, config[a]) : state' = [state EXCEPT ![a] = Entry(a, id, None)]
  BY DEF Adopt
<1>3. id \in list
  BY DEF lookupGrant
<1>4. posted[a] \in list => grants[posted[a]] = config[a] /\ ~tagged(config[a])
  BY DEF GrantsInv, PostedIsIts, Lists, Listed, Live
<1>5. posted[a] \in list => id = posted[a]
  BY <1>1, <1>4, LookupFindsIt
<1>6. QED
  BY <1>2, <1>3, <1>4, <1>5

LEMMA LocateStep == ASSUME GrantsInv, NEW a \in Addresses, Locate(a) PROVE GrantsInv'
<1>1. /\ posted' = [posted EXCEPT ![a] = None] /\ posted[a] \in Ids /\ posted[a] # None
      /\ state[a] = None /\ a \notin adrift
      /\ UNCHANGED <<config, urlIds, listsTags, grants, made>>
  BY DEF Locate, Located, GrantsInv, TypeOK
<1>2. posted'[a] = None /\ \A b \in Addresses : b # a => posted'[b] = posted[b]
  BY <1>1 DEF GrantsInv, TypeOK
<1>3. \A b \in Addresses : config[b] \in GrantSet /\ config[b] # Gone
  BY Markers DEF GrantsInv, TypeOK
<1> USE Markers, <1>1, <1>2, <1>3 DEF GrantsInv
<1>4. ASSUME NEW list \in Lists(config[a].inode), Adopt(a, list) PROVE GrantsInv'
  <2>1. PICK id \in list :
          /\ state' = [state EXCEPT ![a] = Entry(a, id, None)]
          /\ posted[a] \in list => id = posted[a] /\ grants[id] = config[a]
    BY <1>4, AdoptsWhatIsShown
  <2>2. id \in Ids /\ id \in Listed(config[a].inode)
    BY DEF Lists, Listed
  <2>3. /\ adrift' = IF posted[a] \in list THEN adrift ELSE adrift \cup {a}
        /\ misled' = misled \cup {i \in {posted[a]} \ list : Live(i)}
        /\ reported' = reported
    BY <1>4 DEF Adopt
  <2>4. state'[a] = Entry(a, id, None) /\ state'[a] # None /\ state'[a].id = id
        /\ state'[a].inode = config[a].inode
    BY <2>1, <2>2, EntryFacts DEF TypeOK
  <2>5. \A b \in Addresses : b # a => state'[b] = state[b]
    BY <2>1 DEF TypeOK
  <2>6. TypeOK'
    BY <2>1, <2>2, <2>3, <2>4, EntryFacts DEF TypeOK
  <2>7. PostedIsIts' /\ Asked'
    BY DEF PostedIsIts, Asked
  <2>8. EntryListed'
    <3>1. grants[id].inode = config[a].inode \/ config[a].inode = "lower"
      BY <2>2 DEF Listed
    <3>2. QED
      BY <2>4, <2>5, <3>1 DEF EntryListed, Live
  <2>9. HoldsIts'
    BY <2>1, <2>3, <2>4, <2>5 DEF HoldsIts
  <2>10. MadeAccounted'
    <3>1. posted[a] \in made[a] => Live(posted[a])
      BY DEF MadeAccounted, Live
    <3>2. QED
      BY <2>1, <2>3, <2>4, <2>5, <3>1 DEF MadeAccounted
  <2>11. NoSharedGrant'
    BY <2>1, <2>3, <2>4, <2>5 DEF NoSharedGrant, HoldsIts, Asked
  <2>12. QED
    BY <2>6, <2>7, <2>8, <2>9, <2>10, <2>11
<1>5. CASE /\ reported' = reported \cup {id \in {posted[a]} : Live(id)}
           /\ UNCHANGED <<state, adrift, misled>>
  <2>1. TypeOK'
    BY <1>5 DEF TypeOK
  <2>2. PostedIsIts' /\ Asked'
    BY DEF PostedIsIts, Asked
  <2>3. EntryListed' /\ HoldsIts' /\ NoSharedGrant'
    BY <1>5 DEF EntryListed, Live, HoldsIts, NoSharedGrant
  <2>4. MadeAccounted'
    <3>1. posted[a] \in made[a] => posted[a] \in reported'
      BY <1>5 DEF MadeAccounted, Live
    <3>2. QED
      BY <1>5, <3>1 DEF MadeAccounted
  <2>5. QED
    BY <2>1, <2>2, <2>3, <2>4
<1>6. QED
  BY <1>4, <1>5 DEF Locate

\* A Read keeps the entry, with its ID, or drops one whose grant does not exist, was
\* not shown, or was denied by a bare 404.
LEMMA ReadOutcome ==
    ASSUME GrantsInv, NEW a \in Addresses, ReadTagged(a) \/ ReadListed(a)
    PROVE  /\ state[a] # None
           /\ \/ \E tag \in {None, Tag} : /\ state' = [state EXCEPT ![a].tag = tag]
                                          /\ UNCHANGED <<adrift, misled>>
              \/ /\ Forget(a)
                 /\ misled \subseteq misled' /\ misled' \subseteq Ids
                 /\ Live(state[a].id) => state[a].id \in misled'
              \/ UNCHANGED <<state, adrift, misled>>
           /\ UNCHANGED <<config, urlIds, listsTags, grants, posted, made, reported>>
<1>1. state[a] # None /\ state[a].id \in Ids
  BY Markers DEF ReadTagged, ReadListed, GrantsInv, TypeOK
<1>2. PICK found \in BOOLEAN, hidden \in SUBSET {state[a].id}, tag \in {None, Tag} :
         /\ Refresh(a, found, hidden, tag)
         /\ ~found => ~Live(state[a].id) \/ state[a].id \in hidden
  <2>1. CASE ReadTagged(a)
    <3>1. Refresh(a, Live(state[a].id), {}, Tag)
      BY <2>1 DEF ReadTagged
    <3>2. Live(state[a].id) \in BOOLEAN /\ {} \in SUBSET {state[a].id}
      BY DEF Live
    <3>3. QED
      BY <3>1, <3>2
  <2>2. CASE ReadListed(a)
    <3> DEFINE listed == {state[a].id} \cap Listed(state[a].inode)
    <3>1. \/ listed # {} /\ Refresh(a, TRUE, {}, ShownTag(grants[state[a].id]))
          \/ Refresh(a, FALSE, listed, None)
      BY <2>2 DEF ReadListed
    <3>2. CASE listed # {} /\ Refresh(a, TRUE, {}, ShownTag(grants[state[a].id]))
      <4>1. ShownTag(grants[state[a].id]) \in {None, Tag}
        BY <1>1, <3>2 DEF ShownTag, Listed, Live, GrantsInv, TypeOK, GrantSet
      <4>2. {} \in SUBSET {state[a].id}
        OBVIOUS
      <4>3. QED
        BY <3>2, <4>1, <4>2
    <3>3. CASE Refresh(a, FALSE, listed, None)
      <4>1. Live(state[a].id) => state[a].id \in listed
        BY <1>1 DEF GrantsInv, EntryListed, Listed
      <4>2. listed \in SUBSET {state[a].id}
        OBVIOUS
      <4> HIDE DEF listed
      <4>3. QED
        BY <3>3, <4>1, <4>2
    <3>4. QED
      BY <3>1, <3>2, <3>3
  <2>3. QED
    BY <2>1, <2>2
<1>3. PICK r \in Answers(found, FALSE) :
         \/ r[1] = "ok" /\ state' = [state EXCEPT ![a].tag = tag] /\ UNCHANGED <<adrift, misled>>
         \/ /\ IsNotFound(r[1])
            /\ Forget(a)
            /\ misled' = misled \cup
                  {id \in IF r[1] = "bare404" THEN {state[a].id} ELSE hidden : Live(id)}
         \/ UNCHANGED <<state, adrift, misled>>
  BY <1>2 DEF Refresh
<1>4. UNCHANGED <<config, urlIds, listsTags, grants, posted, made, reported>>
  BY <1>2 DEF Refresh
<1>5. CASE /\ IsNotFound(r[1])
           /\ Forget(a)
           /\ misled' = misled \cup
                 {id \in IF r[1] = "bare404" THEN {state[a].id} ELSE hidden : Live(id)}
  <2>1. misled \subseteq misled' /\ misled' \subseteq Ids
    BY <1>1, <1>2, <1>5 DEF GrantsInv, TypeOK
  <2>2. r[1] = "404" => ~found
    BY <1>3 DEF Answers
  <2>3. Live(state[a].id) => state[a].id \in misled'
    BY <1>2, <1>5, <2>2 DEF IsNotFound
  <2>4. QED
    BY <1>1, <1>4, <1>5, <2>1, <2>3
<1>6. QED
  BY <1>1, <1>2, <1>3, <1>4, <1>5

\* A grant that is revoked, by other people or by the destroy of one address.
LEMMA RevokeStep ==
    ASSUME GrantsInv, NEW id \in Ids, Revoke(id),
           \/ UNCHANGED <<state, adrift>>
           \/ \E a \in Addresses : state[a] # None /\ state[a].id = id /\ Forget(a),
           UNCHANGED <<config, urlIds, listsTags, posted>>
    PROVE  GrantsInv'
<1>1. grants' = [grants EXCEPT ![id] = Gone] /\ made' = [a \in Addresses |-> made[a] \ {id}]
      /\ misled' = misled \ {id} /\ reported' = reported \ {id}
  BY DEF Revoke
<1>2. \A a \in Addresses : \/ state'[a] = state[a] /\ (a \in adrift' <=> a \in adrift)
                           \/ state[a].id = id /\ state'[a] = None /\ a \notin adrift'
  BY DEF Forget, GrantsInv, TypeOK
<1>3. state' \in [Addresses -> [id : Ids, tag : {None, Tag}, inode : Inodes] \cup {None}]
      /\ adrift' \subseteq Addresses
  BY DEF Forget, GrantsInv, TypeOK
<1> USE <1>1, <1>2, <1>3, Markers DEF GrantsInv
<1>4. TypeOK'
  BY DEF TypeOK
<1>5. PostedIsIts' /\ Asked'
  BY DEF PostedIsIts, Asked, TypeOK
<1>6. EntryListed'
  BY DEF EntryListed, Live, TypeOK
<1>7. HoldsIts'
  BY DEF HoldsIts, TypeOK
<1>8. MadeAccounted'
  BY DEF MadeAccounted, TypeOK
<1>9. NoSharedGrant'
  BY DEF NoSharedGrant
<1>10. QED
  BY <1>4, <1>5, <1>6, <1>7, <1>8, <1>9

\* An entry that is forgotten although its grant may exist.
LEMMA ForgetStep ==
    ASSUME GrantsInv, NEW a \in Addresses, state[a] # None, Forget(a),
           misled \subseteq misled', misled' \subseteq Ids,
           Live(state[a].id) => \/ state[a].id \in misled'
                                \/ grants[state[a].id].inode # state[a].inode,
           UNCHANGED <<config, urlIds, listsTags, grants, posted, made, reported>>
    PROVE  GrantsInv'
<1>1. state' = [state EXCEPT ![a] = None] /\ adrift' = adrift \ {a}
  BY DEF Forget
<1>2. state'[a] = None /\ \A b \in Addresses : b # a => state'[b] = state[b]
  BY <1>1 DEF GrantsInv, TypeOK
<1> USE <1>1, <1>2, Markers DEF GrantsInv
<1>3. TypeOK'
  BY DEF TypeOK
<1>4. PostedIsIts' /\ Asked'
  BY DEF PostedIsIts, Asked
<1>5. EntryListed' /\ HoldsIts' /\ NoSharedGrant'
  BY DEF EntryListed, Live, HoldsIts, NoSharedGrant
<1>6. MadeAccounted'
  <2>1. state[a].id \in made[a] /\ a \notin adrift => state[a].id \in misled'
    BY DEF MadeAccounted, HoldsIts, Live, TypeOK
  <2>2. QED
    BY <2>1 DEF MadeAccounted
<1>7. QED
  BY <1>3, <1>4, <1>5, <1>6

\* A destroy revokes the grant, forgets the entry, or both; it forgets a grant that
\* exists only if a bare 404 denied it or the entry is on the inode below.
LEMMA DeleteOutcome ==
    ASSUME GrantsInv, NEW a \in Addresses, Delete(a)
    PROVE  /\ state[a] # None /\ state[a].id \in Ids
           /\ \/ Revoke(state[a].id) /\ (Forget(a) \/ UNCHANGED <<state, adrift>>)
              \/ UNCHANGED <<grants, made, reported, misled, state, adrift>>
              \/ /\ UNCHANGED <<grants, made, reported>> /\ Forget(a)
                 /\ misled \subseteq misled' /\ misled' \subseteq Ids
                 /\ Live(state[a].id) => \/ state[a].id \in misled'
                                         \/ grants[state[a].id].inode # state[a].inode
           /\ UNCHANGED <<config, urlIds, listsTags, posted>>
<1>1. state[a] # None /\ state[a].id \in Ids
  BY Markers DEF Delete, GrantsInv, TypeOK
<1> DEFINE Effect(r) ==
      /\ IF r[2] THEN Revoke(state[a].id)
         ELSE /\ UNCHANGED <<grants, made, reported>>
              /\ misled' = misled \cup {i \in {state[a].id} : r[1] = "bare404" /\ Live(i)}
      /\ IF r[1] = "ok" \/ IsNotFound(r[1]) THEN Forget(a) ELSE UNCHANGED <<state, adrift>>
<1>2. PICK known \in Knows(state[a].inode, state[a].id) : \E r \in Answers(known, TRUE) : Effect(r)
  BY DEF Delete
<1>3. PICK r \in Answers(known, TRUE) : Effect(r)
  BY <1>2
<1>4. UNCHANGED <<config, urlIds, listsTags, posted>>
  BY DEF Delete
<1>5. known \in BOOLEAN /\ r[2] \in BOOLEAN
  BY <1>2, <1>3 DEF Knows, Live, Answers
<1>6. Live(state[a].id) /\ grants[state[a].id].inode = state[a].inode => known
  BY <1>2 DEF Knows
<1>7. (r[1] = "ok" => r[2]) /\ (r[1] = "404" => ~known \/ r[2])
  BY <1>3, <1>5 DEF Answers
<1>8. CASE r[2]
  BY <1>1, <1>3, <1>4, <1>8
<1>9. CASE ~r[2] /\ IsNotFound(r[1])
  <2>1. UNCHANGED <<grants, made, reported>> /\ Forget(a)
        /\ misled' = misled \cup {i \in {state[a].id} : r[1] = "bare404" /\ Live(i)}
    BY <1>3, <1>9
  <2>2. misled \subseteq misled' /\ misled' \subseteq Ids
    BY <1>1, <2>1 DEF GrantsInv, TypeOK
  <2>3. Live(state[a].id) => \/ state[a].id \in misled'
                             \/ grants[state[a].id].inode # state[a].inode
    BY <1>6, <1>7, <1>9, <2>1 DEF IsNotFound
  <2>4. QED
    BY <1>1, <1>4, <2>1, <2>2, <2>3
<1>10. CASE ~r[2] /\ ~IsNotFound(r[1])
  <2>1. r[1] # "ok" /\ r[1] # "bare404"
    BY <1>7, <1>10 DEF IsNotFound
  <2>2. QED
    BY <1>1, <1>3, <1>4, <1>10, <2>1
<1>11. QED
  BY <1>5, <1>8, <1>9, <1>10

LEMMA ReadStep ==
    ASSUME GrantsInv, NEW a \in Addresses, ReadTagged(a) \/ ReadListed(a) PROVE GrantsInv'
<1>1. UNCHANGED <<config, urlIds, listsTags, grants, posted, made, reported>>
  BY ReadOutcome
<1>2. state[a] # None /\ state[a] \in [id : Ids, tag : {None, Tag}, inode : Inodes]
  BY ReadOutcome DEF GrantsInv, TypeOK
<1>3. ASSUME NEW tag \in {None, Tag}, state' = [state EXCEPT ![a].tag = tag],
             UNCHANGED <<adrift, misled>>
      PROVE  GrantsInv'
  <2>1. \A b \in Addresses : b # a => state'[b] = state[b]
    BY <1>3 DEF GrantsInv, TypeOK
  <2>2. /\ state'[a] # None /\ state'[a] \in [id : Ids, tag : {None, Tag}, inode : Inodes]
        /\ state'[a].id = state[a].id /\ state'[a].inode = state[a].inode
    BY <1>2, <1>3, Markers DEF GrantsInv, TypeOK
  <2>3. state' \in [Addresses -> [id : Ids, tag : {None, Tag}, inode : Inodes] \cup {None}]
    BY <1>3, <2>1, <2>2 DEF GrantsInv, TypeOK
  <2> USE <1>1, <1>2, <1>3, <2>1, <2>2 DEF GrantsInv
  <2>4. TypeOK'
    BY <2>3 DEF TypeOK
  <2>5. PostedIsIts' /\ Asked'
    BY DEF PostedIsIts, Asked
  <2>6. EntryListed' /\ HoldsIts'
    BY DEF EntryListed, Live, HoldsIts
  <2>7. MadeAccounted' /\ NoSharedGrant'
    BY DEF MadeAccounted, NoSharedGrant
  <2>8. QED
    BY <2>4, <2>5, <2>6, <2>7
<1>4. CASE UNCHANGED <<state, adrift, misled>>
  BY <1>1, <1>4 DEF GrantsInv, TypeOK, Asked, PostedIsIts, EntryListed, Live, HoldsIts,
     MadeAccounted, NoSharedGrant
<1>5. CASE /\ Forget(a)
           /\ misled \subseteq misled' /\ misled' \subseteq Ids
           /\ Live(state[a].id) => state[a].id \in misled'
  BY <1>1, <1>2, <1>5, ForgetStep
<1>6. QED
  BY <1>3, <1>4, <1>5, ReadOutcome

LEMMA DeleteStep == ASSUME GrantsInv, NEW a \in Addresses, Delete(a) PROVE GrantsInv'
<1>1. CASE Revoke(state[a].id) /\ (Forget(a) \/ UNCHANGED <<state, adrift>>)
  BY <1>1, DeleteOutcome, RevokeStep
<1>2. CASE UNCHANGED <<grants, made, reported, misled, state, adrift>>
  BY <1>2, DeleteOutcome DEF GrantsInv, TypeOK, Asked, PostedIsIts, EntryListed, Live,
     HoldsIts, MadeAccounted, NoSharedGrant
<1>3. CASE /\ UNCHANGED <<grants, made, reported>> /\ Forget(a)
           /\ misled \subseteq misled' /\ misled' \subseteq Ids
           /\ Live(state[a].id) => \/ state[a].id \in misled'
                                   \/ grants[state[a].id].inode # state[a].inode
  BY <1>3, DeleteOutcome, ForgetStep
<1>4. QED
  BY <1>1, <1>2, <1>3, DeleteOutcome

LEMMA ImportStep == ASSUME GrantsInv, NEW a \in Addresses, Import(a) PROVE GrantsInv'
<1>1. PICK inode \in Inodes : \E id \in Listed(inode) :
         /\ ~Held(id)
         /\ state' = [state EXCEPT ![a] =
               [id |-> id, tag |-> ShownTag(grants[id]), inode |-> inode]]
         /\ IF grants[id] = config[a] /\ inode = config[a].inode
               THEN misled' = misled \ {id} /\ UNCHANGED adrift
               ELSE adrift' = adrift \cup {a} /\ UNCHANGED misled
  BY DEF Import
<1>2. PICK id \in Listed(inode) :
         /\ ~Held(id)
         /\ state' = [state EXCEPT ![a] =
               [id |-> id, tag |-> ShownTag(grants[id]), inode |-> inode]]
         /\ IF grants[id] = config[a] /\ inode = config[a].inode
               THEN misled' = misled \ {id} /\ UNCHANGED adrift
               ELSE adrift' = adrift \cup {a} /\ UNCHANGED misled
  BY <1>1
<1>3. state[a] = None /\ posted[a] = None /\ a \notin adrift
      /\ UNCHANGED <<config, urlIds, listsTags, grants, posted, made, reported>>
  BY DEF Import, Located, GrantsInv, TypeOK
<1>4. id \in Ids /\ grants[id] \in GrantSet /\ Live(id)
  BY DEF Listed, Live, GrantsInv, TypeOK
<1>5. ShownTag(grants[id]) \in {None, Tag}
  BY <1>4 DEF ShownTag, GrantSet
<1>6. /\ state'[a] = [id |-> id, tag |-> ShownTag(grants[id]), inode |-> inode]
      /\ state'[a] # None /\ state'[a].id = id /\ state'[a].inode = inode
      /\ \A b \in Addresses : b # a => state'[b] = state[b]
  BY <1>2, <1>4, <1>5, Markers DEF GrantsInv, TypeOK
<1>7. \A b \in Addresses : b # a /\ id \in made[b] => grants[id] # config[a]
  BY DEF GrantsInv, MadeAccounted, Asked
<1> USE <1>3, <1>4, <1>6, Markers DEF GrantsInv
<1>8. TypeOK'
  BY <1>2, <1>5 DEF TypeOK
<1>9. PostedIsIts' /\ Asked'
  BY DEF PostedIsIts, Asked
<1>10. EntryListed'
  <2>1. grants[id].inode = inode \/ inode = "lower"
    BY DEF Listed
  <2>2. QED
    BY <2>1 DEF EntryListed, Live
<1>11. HoldsIts'
  BY <1>2 DEF HoldsIts
<1>12. MadeAccounted'
  BY <1>2, <1>7 DEF MadeAccounted
<1>13. NoSharedGrant'
  BY <1>2 DEF NoSharedGrant, Held
<1>14. QED
  BY <1>8, <1>9, <1>10, <1>11, <1>12, <1>13

LEMMA SomebodyStep == ASSUME GrantsInv, Somebody PROVE GrantsInv'
<1>1. UNCHANGED <<config, urlIds, listsTags, state, posted, adrift>>
  BY DEF Somebody
<1>2. PICK id \in Ids :
         \/ /\ ~Live(id) /\ ~Held(id)
            /\ \E g \in GrantSet : grants' = [grants EXCEPT ![id] = g]
            /\ UNCHANGED <<made, reported, misled>>
         \/ Revoke(id)
  BY DEF Somebody
<1>3. CASE Revoke(id)
  BY <1>1, <1>3, RevokeStep
<1>4. CASE ~Live(id) /\ ~Held(id) /\ (\E g \in GrantSet : grants' = [grants EXCEPT ![id] = g])
           /\ UNCHANGED <<made, reported, misled>>
  <2>1. PICK g \in GrantSet : grants' = [grants EXCEPT ![id] = g]
    BY <1>4
  <2>2. \A a \in Addresses : posted[a] # id /\ (state[a] # None => state[a].id # id)
    BY <1>4 DEF Held
  <2>3. \A a \in Addresses : id \notin made[a]
    BY <1>4, Markers DEF GrantsInv, TypeOK, MadeAccounted, Live
  <2> USE <1>1, <1>4, <2>1, <2>2, <2>3, Markers DEF GrantsInv
  <2>4. TypeOK'
    BY DEF TypeOK
  <2>5. PostedIsIts' /\ Asked'
    BY DEF PostedIsIts, Asked, TypeOK
  <2>6. EntryListed'
    BY DEF EntryListed, Live, TypeOK
  <2>7. HoldsIts'
    BY DEF HoldsIts, TypeOK
  <2>8. MadeAccounted'
    BY DEF MadeAccounted, TypeOK
  <2>9. NoSharedGrant'
    BY DEF NoSharedGrant
  <2>10. QED
    BY <2>4, <2>5, <2>6, <2>7, <2>8, <2>9
<1>5. QED
  BY <1>2, <1>3, <1>4

LEMMA GrantsStep == GrantsInv /\ [Next]_vars => GrantsInv'
<1> SUFFICES ASSUME GrantsInv, [Next]_vars PROVE GrantsInv'
  OBVIOUS
<1>1. ASSUME NEW a \in Addresses, CreateTagged(a) \/ CreateListed(a) PROVE GrantsInv'
  BY <1>1, CreateStep
<1>2. ASSUME NEW a \in Addresses, Locate(a) PROVE GrantsInv'
  BY <1>2, LocateStep
<1>3. ASSUME NEW a \in Addresses, ReadTagged(a) \/ ReadListed(a) PROVE GrantsInv'
  BY <1>3, ReadStep
<1>4. ASSUME NEW a \in Addresses, Delete(a) PROVE GrantsInv'
  BY <1>4, DeleteStep
<1>5. ASSUME NEW a \in Addresses, Import(a) PROVE GrantsInv'
  BY <1>5, ImportStep
<1>6. CASE Somebody
  BY <1>6, SomebodyStep
<1>7. CASE UNCHANGED vars
  BY <1>7 DEF vars, GrantsInv, TypeOK, Asked, PostedIsIts, EntryListed, Live, HoldsIts,
     MadeAccounted, NoSharedGrant, tagged
<1>8. QED
  BY <1>1, <1>2, <1>3, <1>4, <1>5, <1>6, <1>7 DEF Next

LEMMA GrantsInit == Init => GrantsInv
<1> SUFFICES ASSUME Init PROVE GrantsInv
  OBVIOUS
<1>1. TypeOK
  BY DEF Init, TypeOK
<1>2. QED
  BY <1>1 DEF Init, GrantsInv, Asked, PostedIsIts, EntryListed, HoldsIts, MadeAccounted,
     NoSharedGrant

\* GrantsInv is an inductive invariant of any number of concurrent addresses.
THEOREM GrantsInvariant == Spec => []GrantsInv
<1>1. QED
  BY GrantsInit, GrantsStep, PTL DEF Spec

\* No two addresses take one grant for theirs, unless one was not shown its own or
\* imported another than it asks for.
THEOREM NoSharedGrantHolds == Spec => []NoSharedGrant
<1>1. GrantsInv => NoSharedGrant
  BY DEF GrantsInv
<1>2. QED
  BY GrantsInvariant, <1>1, PTL

\* A grant that was made is in the state, about to be, or was reported, or a list did
\* not show it, or a bare 404 denied it.
THEOREM NoSilentGrantHolds == Spec => []NoSilentGrant
<1>1. GrantsInv => NoSilentGrant
  BY DEF GrantsInv, MadeAccounted, NoSilentGrant, Held
<1>2. QED
  BY GrantsInvariant, <1>1, PTL

\* Only the steps of an address change its entry.
LEMMA OnlyItsOwnSteps ==
    ASSUME GrantsInv, [Next]_vars, NEW a \in Addresses, state'[a] # state[a]
    PROVE  \/ CreateTagged(a) \/ CreateListed(a) \/ Locate(a)
           \/ ReadTagged(a) \/ ReadListed(a) \/ Delete(a) \/ Import(a)
<1>1. ASSUME NEW b \in Addresses, b # a PROVE
        /\ ~CreateTagged(b) /\ ~CreateListed(b) /\ ~Locate(b)
        /\ ~ReadTagged(b) /\ ~ReadListed(b) /\ ~Delete(b) /\ ~Import(b)
  <2>1. ASSUME NEW e, state' = [state EXCEPT ![b] = e] PROVE FALSE
    BY <1>1, <2>1 DEF GrantsInv, TypeOK
  <2>2. ~Forget(b) /\ state' # state
    BY <2>1 DEF Forget
  <2>3. ~CreateTagged(b) /\ ~CreateListed(b)
    BY <2>1, <2>2 DEF CreateTagged, CreateListed, Saved, Unsaved
  <2>4. ~Locate(b) /\ ~Import(b)
    BY <2>1, <2>2 DEF Locate, Adopt, Import
  <2>5. ~ReadTagged(b) /\ ~ReadListed(b)
    <3>1. ASSUME NEW tag, state' = [state EXCEPT ![b].tag = tag] PROVE FALSE
      BY <1>1, <3>1 DEF GrantsInv, TypeOK
    <3>2. QED
      BY <2>2, <3>1, ReadOutcome
  <2>6. ~Delete(b)
    BY <2>2, DeleteOutcome
  <2>7. QED
    BY <2>3, <2>4, <2>5, <2>6
<1>2. ~Somebody /\ ~UNCHANGED vars
  BY DEF Somebody, vars
<1>3. QED
  BY <1>1, <1>2 DEF Next

LEMMA OwnStep ==
    ASSUME GrantsInv, [Next]_vars, NEW a \in Addresses
    PROVE  /\ posted[a] # None /\ state'[a] # None /\ a \notin adrift' => state'[a].id = posted[a]
           /\ state[a] # None /\ state'[a] = None =>
                 \/ grants'[state[a].id] = Gone
                 \/ state[a].id \in misled'
                 \/ grants[state[a].id].inode # state[a].inode
<1>1. posted[a] = None \/ state[a] = None
  BY DEF GrantsInv, TypeOK
<1>2. CASE state'[a] = state[a]
  BY <1>1, <1>2
<1>3. CASE CreateTagged(a) \/ CreateListed(a) \/ Import(a)
  <2>1. state[a] = None
    BY <1>3 DEF CreateTagged, CreateListed, Import
  <2>2. state'[a] # None => posted[a] = None
    <3>1. CASE CreateTagged(a)
      BY <3>1 DEF CreateTagged, GrantsInv, PostedIsIts
    <3>2. CASE CreateListed(a) \/ Import(a)
      BY <3>2 DEF CreateListed, Import, Located
    <3>3. QED
      BY <1>3, <3>1, <3>2
  <2>3. QED
    BY <2>1, <2>2
<1>4. CASE Locate(a)
  <2>1. state[a] = None /\ posted[a] # None /\ a \in DOMAIN state
    BY <1>1, <1>4 DEF Locate, Located, GrantsInv, TypeOK
  <2>2. CASE UNCHANGED state
    BY <2>1, <2>2
  <2>3. ASSUME NEW list \in Lists(config[a].inode), Adopt(a, list), a \notin adrift'
        PROVE  state'[a].id = posted[a]
    <3>1. posted[a] \in list
      BY <2>3 DEF Adopt
    <3>2. state' = [state EXCEPT ![a] = Entry(a, posted[a], None)]
      BY <2>1, <2>3, <3>1, AdoptsWhatIsShown
    <3>3. QED
      BY <2>1, <3>2 DEF Entry
  <2>4. QED
    BY <1>4, <2>1, <2>2, <2>3 DEF Locate
<1>5. CASE ReadTagged(a) \/ ReadListed(a)
  <2>1. state[a] # None /\ posted[a] = None /\ UNCHANGED grants
    BY <1>1, <1>5, ReadOutcome
  <2>2. ASSUME NEW tag \in {None, Tag}, state' = [state EXCEPT ![a].tag = tag]
        PROVE  state'[a] # None
    BY <2>1, <2>2, Markers DEF GrantsInv, TypeOK
  <2>3. QED
    BY <1>5, <2>1, <2>2, ReadOutcome DEF Live
<1>6. CASE Delete(a)
  <2>1. state[a] # None /\ state[a].id \in Ids /\ posted[a] = None
    BY <1>1, <1>6, DeleteOutcome
  <2>2. Revoke(state[a].id) => grants'[state[a].id] = Gone
    BY <2>1 DEF Revoke, GrantsInv, TypeOK
  <2>3. QED
    BY <1>6, <2>1, <2>2, DeleteOutcome DEF Live
<1>7. QED
  BY <1>2, <1>3, <1>4, <1>5, <1>6, OnlyItsOwnSteps

\* Of the grants that the list shows, Create records the one it posted and no other.
THEOREM AdoptsItsOwnHolds == Spec => AdoptsItsOwn
<1>1. GrantsInv /\ [Next]_vars =>
         [\A a \in Addresses :
            posted[a] # None /\ state'[a] # None /\ a \notin adrift' => state'[a].id = posted[a]]_vars
  BY OwnStep
<1>2. QED
  BY GrantsInvariant, <1>1, PTL DEF Spec, AdoptsItsOwn

\* A refresh or a destroy forgets a grant that still gives access only if a list did
\* not show it, a bare 404 denied it, or it is one of the inode above.
THEOREM ForgetsOnlyTheRevokedHolds == Spec => ForgetsOnlyTheRevoked
<1>1. GrantsInv /\ [Next]_vars =>
         [\A a \in Addresses :
            state[a] # None /\ state'[a] = None =>
                \/ grants'[state[a].id] = Gone
                \/ state[a].id \in misled'
                \/ grants[state[a].id].inode # state[a].inode]_vars
  BY OwnStep
<1>2. QED
  BY GrantsInvariant, <1>1, PTL DEF Spec, ForgetsOnlyTheRevoked
=============================================================================
