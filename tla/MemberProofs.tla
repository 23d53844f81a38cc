---------------------------- MODULE MemberProofs ----------------------------
(* What the member resource promises of its three-request destroy, with    *)
(* administrators and the identity provider acting between the requests.   *)
EXTENDS Member, TLAPS

\* None is neither a state entry nor a configuration, Gone is no member.
LEMMA Markers ==
    /\ None \notin Entries /\ None \notin Configs /\ None \notin BOOLEAN
    /\ Gone \notin Members
  BY MemberAssumption DEF MemberAssumption

\* A member without destroy options, as an import leaves it, has valid options.
LEMMA NoOptionsIs == NoOptions \in Options
  BY MemberAssumption DEF NoOptions, Options, MemberAssumption

\* The PATCH sends the documents to one of the places there are.
LEMMA DestinationIs ==
    ASSUME NEW options
    PROVE  /\ memberDeactivateInput(options) \in {"transferred", "archived", "default"}
           /\ memberDeactivateInput(options) \in Documents
           /\ ~memberHasDestroyOptions(options) => memberDeactivateInput(options) = "default"
<1>1. memberDeactivateInput(options) \in {"transferred", "archived", "default"}
  BY DEF memberDeactivateInput
<1>2. ~memberHasDestroyOptions(options) => memberDeactivateInput(options) = "default"
  <2>1. None # "somebody" /\ None # TRUE
    BY MemberAssumption DEF MemberAssumption
  <2>2. QED
    BY Zenon, <2>1 DEF memberDeactivateInput, memberHasDestroyOptions
<1>3. QED
  BY <1>1, <1>2 DEF Documents

\* The API keeps what it holds a member.
LEMMA ApiTypes ==
    ASSUME NEW m \in Members, NEW docs \in Documents
    PROVE  /\ Archive(m, docs) \in Members /\ Archive(m, docs).archived = TRUE
           /\ Archive(m, docs).inactive = m.inactive
           /\ Reactivate(m) \in Members /\ Reactivate(m).inactive = FALSE
  BY DEF Members, Documents, Archive, Reactivate

Sound(member) == member \in Members /\ (member.inactive => member.archived)

LEMMA ApiSound ==
    ASSUME NEW m, Sound(m), NEW docs \in Documents
    PROVE  Sound(Archive(m, docs)) /\ Sound(Reactivate(m))
  BY ApiTypes DEF Sound

\* A PATCH archives, reactivates or leaves alone, as its isArchived says.
LEMMA PatchedIs ==
    ASSUME NEW docs
    PROVE  /\ \A a \in BOOLEAN \cup {None} :
                 Patched(a, docs) \in {server, Archive(server, docs), Reactivate(server)}
           /\ Patched(TRUE, docs) = Archive(server, docs)
           /\ Patched(None, docs) = server
<1>1. ASSUME NEW a \in BOOLEAN \cup {None}
      PROVE  Patched(a, docs) \in {server, Archive(server, docs), Reactivate(server)}
  BY <1>1, Markers DEF Patched
<1>2. Patched(TRUE, docs) = Archive(server, docs)
  BY Zenon, MemberAssumption DEF Patched, MemberAssumption
<1>3. Patched(None, docs) = server
  <2>1. None # TRUE /\ None # FALSE
    BY Markers
  <2>2. QED
    BY SMT, <2>1 DEF Patched
<1>4. QED
  BY <1>1, <1>2, <1>3

\* Each step keeps the types, and what SCIM deactivated archived.
LEMMA MemberTypeStep == TypeOK /\ PatchHasOptions /\ [Next]_vars => TypeOK'
<1> SUFFICES ASSUME TypeOK, PatchHasOptions, [Next]_vars PROVE TypeOK'
  OBVIOUS
<1>0. (server # Gone => Sound(server)) /\ {"default", "elsewhere"} \subseteq Documents
  BY Markers DEF TypeOK, Sound, Documents
<1> DEFINE ServerOK == server' = Gone \/ Sound(server')
<1>01. ServerOK => server' \in Members \cup {Gone} /\ (server' # Gone /\ server'.inactive => server'.archived)
  BY Markers DEF Sound
<1> HIDE DEF ServerOK
<1> USE Markers, <1>0, <1>01 DEF TypeOK, history
<1>1. CASE Configure
  BY <1>1 DEF Configure
<1>2. CASE Create
  <2>1. Sound(Active)
    BY DEF Active, Sound, Members, Documents
  <2>2. config # None => setMember(Active, config.options) \in Entries
    BY DEF setMember, Active, Entries, Configs
  <2>3. PICK r : /\ server' = IF r[2] THEN Active ELSE server
                 /\ state' = IF r[1] = "ok" THEN setMember(Active, config.options) ELSE state
    BY <1>2 DEF Create
  <2>4. ServerOK
    BY <2>1, <2>3 DEF ServerOK
  <2>5. QED
    BY <1>2, <2>2, <2>3, <2>4 DEF Create
<1>3. CASE Read
  <2>1. PICK r \in Answers(server # Gone, FALSE) :
           state' = IF r[1] = "ok" THEN setMember(server, state.options)
                    ELSE IF IsNotFound(r[1]) THEN None ELSE state
    BY <1>3 DEF Read
  <2>2. r[1] = "ok" => server \in Members
    BY <2>1 DEF Answers, IsNotFound
  <2>3. server \in Members /\ state \in Entries => setMember(server, state.options) \in Entries
    BY DEF setMember, Entries, Members
  <2>4. QED
    BY <1>3, <2>1, <2>2, <2>3 DEF Read
<1>4. CASE Import
  <2>1. server \in Members => setMember(server, NoOptions) \in Entries
    BY NoOptionsIs DEF setMember, Entries, Members
  <2>2. QED
    BY <1>4, <2>1 DEF Import
<1>5. CASE Update
  <2>1. PICK r \in Answers(server # Gone, FALSE) :
           /\ server' = IF r[2] THEN Patched(memberUpdateInput, "default") ELSE server
           /\ state' = IF r[1] = "ok" THEN setMember(server', config.options) ELSE state
    BY <1>5 DEF Update
  <2>2. config \in Configs /\ state \in Entries
    BY <1>5 DEF Update
  <2>3. memberUpdateInput \in BOOLEAN \cup {None}
    BY <2>2 DEF memberUpdateInput, planned, Configs, Entries
  <2>4. server # Gone => Sound(Patched(memberUpdateInput, "default"))
    <3>1. Patched(memberUpdateInput, "default")
            \in {server, Archive(server, "default"), Reactivate(server)}
      BY <2>3, PatchedIs, Zenon
    <3>2. server # Gone => Sound(Archive(server, "default")) /\ Sound(Reactivate(server))
      BY ApiSound
    <3>3. QED
      BY <3>1, <3>2
  <2>5. ServerOK /\ (r[1] = "ok" => server' \in Members)
    BY <2>1, <2>4 DEF ServerOK, Sound, Answers, IsNotFound
  <2>6. server' \in Members => setMember(server', config.options) \in Entries
    BY <2>2 DEF setMember, Entries, Members, Configs
  <2>7. QED
    BY <1>5, <2>1, <2>2, <2>5, <2>6 DEF Update
<1>6. CASE Start
  <2>1. refused' \in BOOLEAN
    BY <1>6 DEF Start, Members
  <2>2. QED
    BY <1>6, <2>1 DEF Start
<1>7. CASE Look
  BY <1>7 DEF Look, GoOn, Fail, Forget, AfterLook
<1>8. CASE Deactivate
  <2>1. PICK r \in Answers(server # Gone, FALSE) :
           /\ server' = IF r[2] THEN Patched(TRUE, memberDeactivateInput(state.options)) ELSE server
           /\ IF r[1] = "ok" \/ IsNotFound(r[1]) THEN GoOn("DELETE") ELSE Fail
           /\ misled' = (IsNotFound(r[1]) /\ server # Gone)
    BY <1>8 DEF Deactivate
  <2>2. memberDeactivateInput(state.options) \in Documents
    BY DestinationIs
  <2>3. ServerOK
    <3>1. server' = server \/ (server # Gone /\ server' = Archive(server, memberDeactivateInput(state.options)))
      BY <2>1, PatchedIs DEF Answers, IsNotFound
    <3>2. server # Gone => Sound(Archive(server, memberDeactivateInput(state.options)))
      BY <2>2, ApiSound
    <3>3. QED
      BY <3>1, <3>2 DEF ServerOK
  <2>4. QED
    BY <1>8, <2>1, <2>3 DEF Deactivate, GoOn, Fail
<1>9. CASE Delete
  <2>1. PICK r \in Answers(server # Gone, TRUE) :
           /\ server' = IF r[2] THEN Archive(server, "default") ELSE server
           /\ IF r[1] = "ok" \/ IsNotFound(r[1]) THEN Forget ELSE Fail
    BY <1>9 DEF Delete
  <2>2. ServerOK
    BY <2>1, ApiSound DEF ServerOK, Answers, IsNotFound
  <2>3. QED
    BY <1>9, <2>1, <2>2 DEF Delete, Forget, Fail
<1>10. CASE Somebody
  <2>1. Sound(server)
    BY <1>10 DEF Somebody
  <2>2. Sound(Archive(server, "elsewhere")) /\ Sound(Reactivate(server))
    BY <2>1, ApiSound
  <2>3. Sound([Archive(server, "elsewhere") EXCEPT !.inactive = TRUE])
    <3>1. PICK m \in Members : m = Archive(server, "elsewhere") /\ m.archived = TRUE
      BY <2>1, ApiTypes DEF Sound
    <3>2. /\ [m EXCEPT !.inactive = TRUE] \in Members
          /\ [m EXCEPT !.inactive = TRUE].archived = m.archived
      BY DEF Members
    <3>3. QED
      BY <3>1, <3>2 DEF Sound
  <2>4. ServerOK
    BY <1>10, <2>2, <2>3 DEF Somebody, ServerOK
  <2>5. QED
    BY <1>10, <2>4 DEF Somebody
<1>11. CASE UNCHANGED vars
  BY <1>11 DEF vars
<1>12. QED
  BY <1>1, <1>2, <1>3, <1>4, <1>5, <1>6, <1>7, <1>8, <1>9, <1>10, <1>11 DEF Next

\* Each step keeps the facts about a running Delete.
LEMMA MemberStep == MemberInv /\ [Next]_vars => MemberInv'
<1> SUFFICES ASSUME MemberInv, [Next]_vars PROVE MemberInv'
  OBVIOUS
<1>0. TypeOK'
  BY MemberTypeStep DEF MemberInv
<1> USE Markers, <1>0 DEF MemberInv, TypeOK, PatchHasOptions, LookRefuses, PatchedStays,
    ScimRefused, history
<1>1. CASE Configure \/ Create \/ Read \/ Import \/ Update
  BY <1>1 DEF Configure, Create, Read, Import, Update
<1>2. CASE Start
  BY <1>2 DEF Start
<1>3. CASE Look
  <2>1. PICK r \in Answers(server # Gone, FALSE) :
          CASE IsNotFound(r[1]) -> Forget
            [] r[1] = "ok" /\ ~server.inactive /\ ~state.inactive -> GoOn(AfterLook)
            [] OTHER -> Fail
    BY <1>3 DEF Look
  <2>2. r[1] = "ok" => server # Gone
    BY <2>1 DEF Answers, IsNotFound
  <2>3. \/ op' = "idle"
        \/ r[1] = "ok" /\ ~server.inactive /\ GoOn(AfterLook)
    BY <2>1 DEF Forget, Fail
  <2>4. QED
    BY <1>3, <2>2, <2>3 DEF Look, GoOn, AfterLook
<1>4. CASE Deactivate
  <2>1. PICK r \in Answers(server # Gone, FALSE) :
           /\ server' = IF r[2] THEN Patched(TRUE, memberDeactivateInput(state.options)) ELSE server
           /\ IF r[1] = "ok" \/ IsNotFound(r[1]) THEN GoOn("DELETE") ELSE Fail
           /\ misled' = (IsNotFound(r[1]) /\ server # Gone)
    BY <1>4 DEF Deactivate
  <2>2. memberDeactivateInput(state.options) \in Documents
    BY DestinationIs
  <2>3. server # Gone => Archive(server, memberDeactivateInput(state.options)).archived = TRUE
    BY <2>2, ApiTypes
  <2>4. op' = "idle" \/ (op' = "DELETE" /\ (misled' \/ server' = Gone \/ server'.archived))
    <3>1. CASE r[1] = "ok"
      <4>1. server # Gone /\ server' = Archive(server, memberDeactivateInput(state.options))
        BY <2>1, <3>1, PatchedIs DEF Answers, IsNotFound
      <4>2. QED
        BY <2>1, <2>3, <3>1, <4>1 DEF GoOn
    <3>2. CASE IsNotFound(r[1])
      <4>1. misled' \/ (server = Gone /\ server' = Gone)
        BY <2>1, <3>2 DEF Answers, IsNotFound
      <4>2. QED
        BY <2>1, <3>2, <4>1 DEF GoOn
    <3>3. CASE ~(r[1] = "ok" \/ IsNotFound(r[1]))
      BY <2>1, <3>3 DEF Fail
    <3>4. QED
      BY <3>1, <3>2, <3>3
  <2>5. QED
    BY <1>4, <2>4 DEF Deactivate
<1>5. CASE Delete
  BY <1>5 DEF Delete, Forget, Fail
<1>6. CASE Somebody
  <2>1. server \in Members
    BY <1>6 DEF Somebody
  <2>2. /\ Archive(server, "elsewhere") \in Members
        /\ Archive(server, "elsewhere").archived = TRUE
        /\ Archive(server, "elsewhere").inactive = server.inactive
    BY <2>1, ApiTypes DEF Documents
  <2>3. meddled' = (op # "idle") \/ (meddled' = meddled /\ (server' = Gone
           \/ (server'.archived /\ (server.inactive => server'.inactive))))
    BY <1>6, <2>1, <2>2 DEF Somebody, Members
  <2>4. QED
    BY <1>6, <2>3 DEF Somebody
<1>7. CASE UNCHANGED vars
  BY <1>7 DEF vars
<1>8. QED
  BY <1>1, <1>2, <1>3, <1>4, <1>5, <1>6, <1>7 DEF Next

LEMMA MemberInit == Init => MemberInv
<1> SUFFICES ASSUME Init PROVE MemberInv
  OBVIOUS
<1>1. Sound(Active) /\ Sound([Active EXCEPT !.archived = TRUE, !.docs = "elsewhere"])
  BY DEF Active, Sound, Members, Documents
<1>2. TypeOK
  BY <1>1, Markers DEF Init, TypeOK, Sound
<1>3. QED
  BY <1>2 DEF Init, MemberInv, PatchHasOptions, LookRefuses, PatchedStays, ScimRefused

\* MemberInv is an inductive invariant of the member resource.
THEOREM MemberInvariant == Spec => []MemberInv
<1>1. QED
  BY MemberInit, MemberStep, PTL DEF Spec

\* A destroy that begins on a member deactivated through SCIM changes nothing.
THEOREM ScimRefusedHolds == Spec => []ScimRefused
<1>1. MemberInv => ScimRefused
  BY DEF MemberInv
<1>2. QED
  BY MemberInvariant, <1>1, PTL

LEMMA DocumentsStep ==
    ASSUME MemberInv, [Next]_vars, op # "idle", ~meddled, ~misled,
           server # Gone, server.docs = "kept", server' # Gone
    PROVE  server'.docs \in {"kept", "elsewhere", memberDeactivateInput(state.options)}
<1>1. server \in Members /\ state \in Entries
  BY DEF MemberInv, TypeOK
<1>2. CASE Look \/ Configure \/ Create \/ Read \/ Import \/ Update \/ Start \/ UNCHANGED vars
  BY <1>2 DEF Look, Configure, Create, Read, Import, Update, Start, vars
<1>3. CASE Deactivate
  <2>1. server' = server \/ server' = Archive(server, memberDeactivateInput(state.options))
    BY <1>3, PatchedIs DEF Deactivate
  <2>2. Archive(server, memberDeactivateInput(state.options)).docs
           \in {"kept", memberDeactivateInput(state.options)}
    BY <1>1 DEF Archive, Members
  <2>3. QED
    BY <2>1, <2>2
<1>4. CASE Delete
  <2>1. CASE memberHasDestroyOptions(state.options)
    <3>1. server.archived
      BY <1>4, <2>1 DEF Delete, MemberInv, PatchedStays
    <3>2. server' = server
      BY <1>4, <3>1 DEF Delete, Archive
    <3>3. QED
      BY <3>2
  <2>2. CASE ~memberHasDestroyOptions(state.options)
    <3>1. server' = server \/ server' = Archive(server, "default")
      BY <1>4 DEF Delete
    <3>2. Archive(server, "default").docs \in {"kept", "default"}
      BY <1>1 DEF Archive, Members
    <3>3. QED
      BY <2>2, <3>1, <3>2, DestinationIs
  <2>3. QED
    BY <2>1, <2>2
<1>5. CASE Somebody
  <2>1. Archive(server, "elsewhere").docs \in {"kept", "elsewhere"}
    BY <1>1 DEF Archive, Members
  <2>2. [Archive(server, "elsewhere") EXCEPT !.inactive = TRUE].docs \in {"kept", "elsewhere"}
    BY <1>1, <2>1, ApiTypes DEF Members, Documents
  <2>3. Reactivate(server).docs = "kept"
    BY <1>1 DEF Reactivate, Members
  <2>4. QED
    BY <1>5, <2>1, <2>2, <2>3 DEF Somebody
<1>6. QED
  BY <1>2, <1>3, <1>4, <1>5 DEF Next

\* A destroy moves the documents only where its options say, unless somebody
\* reactivates the member meanwhile or a bare 404 answers the PATCH.
THEOREM DocumentsFollowOptionsHolds == Spec => DocumentsFollowOptions
<1>1. MemberInv /\ [Next]_vars =>
         [op # "idle" /\ ~meddled /\ ~misled
          /\ server # Gone /\ server.docs = "kept" /\ server' # Gone
             => server'.docs \in {"kept", "elsewhere", memberDeactivateInput(state.options)}]_vars
  BY DocumentsStep
<1>2. QED
  BY MemberInvariant, <1>1, PTL DEF Spec, DocumentsFollowOptions

LEMMA ReactivationStep ==
    ASSUME MemberInv, Update, server # Gone, server.archived, ~server'.archived
    PROVE  state.archived /\ config.archived = FALSE
<1>1. config \in Configs /\ state \in Entries /\ server \in Members
  BY DEF MemberInv, TypeOK, Update
<1>2. server' = Patched(memberUpdateInput, "default")
  BY DEF Update
<1>3. memberUpdateInput = planned.archived /\ planned.archived # state.archived
  <2>1. memberUpdateInput # None
    BY <1>2, PatchedIs
  <2>2. QED
    BY <2>1 DEF memberUpdateInput
<1>4. memberUpdateInput # TRUE
  <2>1. Patched(TRUE, "default") = Archive(server, "default")
    BY PatchedIs
  <2>2. Archive(server, "default").archived = TRUE
    BY <1>1, ApiTypes DEF Documents
  <2>3. SUFFICES ASSUME memberUpdateInput = TRUE PROVE FALSE
    OBVIOUS
  <2>4. server' = Archive(server, "default")
    BY <1>2, <2>1, <2>3, Zenon
  <2>5. QED
    BY <2>2, <2>4
<1>5. config.archived # None /\ planned.archived = config.archived
  BY <1>3 DEF planned
<1>6. config.archived \in BOOLEAN /\ state.archived \in BOOLEAN
  BY <1>1, <1>5 DEF Configs, Entries
<1>7. QED
  BY <1>3, <1>4, <1>5, <1>6

\* An update reactivates only a member that the plan showed as archived.
THEOREM ReactivatesOnlyAsPlannedHolds == Spec => ReactivatesOnlyAsPlanned
<1>1. MemberInv /\ [Next]_vars =>
         [Update /\ server # Gone /\ server.archived /\ ~server'.archived
             => state.archived /\ config.archived = FALSE]_vars
  BY ReactivationStep
<1>2. QED
  BY MemberInvariant, <1>1, PTL DEF Spec, ReactivatesOnlyAsPlanned
=============================================================================
