---------------------- MODULE ResourceLifecycleProofs ----------------------
(* No silent orphan and no entry forgotten too early, for every set of IDs *)
(* and values and every resource whose handlers are recipes of the steps   *)
(* of ResourceLifecycle.                                                   *)
EXTENDS ResourceLifecycle, TLAPS

\* A recipe is a sequence of steps, and what is left of one is another.
LEMMA StepsLeft ==
    ASSUME NEW S, NEW s \in Seq(S), s # <<>>
    PROVE  /\ Head(s) \in S /\ Tail(s) \in Seq(S)
           /\ Len(s) \in Nat \ {0} /\ (Len(s) > 1 => Tail(s) # <<>>)
<1>1. Len(s) \in Nat /\ Len(s) # 0
  OBVIOUS
<1>2. Head(s) \in S /\ Tail(s) \in Seq(S)
  OBVIOUS
<1>3. Len(Tail(s)) = Len(s) - 1
  OBVIOUS
<1>4. Len(s) > 1 => Tail(s) # <<>>
  <2>0. Len(<<>>) = 0
    OBVIOUS
  <2>1. Tail(s) = <<>> => Len(Tail(s)) = 0
    BY <2>0, Zenon
  <2>2. QED
    BY <1>1, <1>3, <2>1
<1>5. QED
  BY <1>1, <1>2, <1>4

LEMMA WiderSteps ==
    ASSUME NEW S, NEW T, S \subseteq T, NEW s \in Seq(S)
    PROVE  s \in Seq(T)
  OBVIOUS

\* Which handlers a step belongs to.
LEMMA StepOf ==
    ASSUME LifecycleInv, NEW s, Doing(s)
    PROVE  /\ op \in {"create", "read", "update", "delete"} /\ steps # <<>>
           /\ s = "add" => \/ op = "create" /\ answer = None
                           \/ op = "update" /\ kind.identity = "config"
           /\ s = "change" => op \in {"create", "update"}
           /\ s = "try" => op \in {"create", "update"} /\ kind.find # "name"
           /\ s = "also" => op = "read"
           /\ s \in {"delete", "remove"} <=> op = "delete"
           /\ s = "get" => op = "read" \/ kind.find # "name"
           /\ s # "add" => answer # None
<1>1. TypeOK /\ InHandler /\ SameObject
  BY DEF LifecycleInv
<1>2. op \in {"create", "read", "update", "delete"} /\ steps # <<>> /\ s = Head(steps)
  BY <1>1 DEF Doing, TypeOK
<1>3. CASE op = "create" /\ answer = None
  BY <1>1, <1>2, <1>3 DEF InHandler
<1>4. CASE op = "create" /\ answer # None
  <2>1. s \in CreateSteps(kind)
    BY <1>1, <1>2, <1>4, StepsLeft DEF InHandler
  <2>2. QED
    BY <2>1, <1>2, <1>4 DEF CreateSteps, LookSteps
<1>5. CASE op = "read"
  <2>1. s \in ReadSteps
    BY <1>1, <1>2, <1>5, StepsLeft DEF InHandler
  <2>2. QED
    BY <2>1, <1>1, <1>2, <1>5 DEF InHandler, ReadSteps
<1>6. CASE op = "update"
  <2>1. s \in UpdateSteps(kind) /\ state # None
    BY <1>1, <1>2, <1>6, StepsLeft DEF InHandler
  <2>2. answer # None
    BY <2>1, <1>1, <1>6 DEF SameObject
  <2>3. \/ s \in {"change", "check"}
        \/ s \in {"get", "try"} /\ kind.find # "name"
        \/ s = "add" /\ kind.identity = "config"
    BY <2>1 DEF UpdateSteps, LookSteps
  <2>4. QED
    BY <2>2, <2>3, <1>2, <1>6
<1>7. CASE op = "delete"
  <2>1. s \in EraseSteps /\ state # None
    BY <1>1, <1>2, <1>7, StepsLeft DEF InHandler
  <2>2. answer # None
    BY <2>1, <1>1, <1>7 DEF SameObject
  <2>3. QED
    BY <2>1, <2>2, <1>2, <1>7 DEF EraseSteps
<1>8. QED
  BY <1>2, <1>3, <1>4, <1>5, <1>6, <1>7

\* Entries have an ID and a value; None is not one of them.
LEMMA EntryFacts ==
    /\ None \notin Entries
    /\ \A e \in Entries : e.id \in All /\ e.value \in Values
    /\ \A id \in All, v \in Values : [id |-> id, value |-> v] \in Entries
  BY LifecycleAssumption DEF LifecycleAssumption, Entries, All

LEMMA InvInit == Init => LifecycleInv
<1> SUFFICES ASSUME Init PROVE LifecycleInv
  OBVIOUS
<1>1. steps = <<>> /\ <<>> \in Seq(Steps)
  BY DEF Init
<1>2. TypeOK
  BY <1>1 DEF Init, TypeOK
<1>3. InHandler /\ SameObject /\ Accounted
  BY <1>1 DEF Init, InHandler, SameObject, Accounted
<1>4. QED
  BY <1>2, <1>3 DEF LifecycleInv

\* A handler that ends with an error leaves nothing behind that is not reported.
LEMMA AfterFail ==
    ASSUME LifecycleInv, op # "idle", NEW unsaved \in SUBSET All, Fail(unsaved),
           UNCHANGED <<kind, config>>,
           objects' \in [All -> Values \cup {Gone}], ours' \in SUBSET All,
           kind.find # "name" => \A id \in ours' : objects'[id] # Gone =>
               Tracked(id) \/ (state = None /\ id \in unsaved) \/ id \in reported \cup misled
    PROVE  LifecycleInv'
<1>1. TypeOK /\ InHandler /\ SameObject
  BY DEF LifecycleInv
<1>2. /\ state' = state /\ op' = "idle" /\ steps' = <<>> /\ answer' = None
      /\ failed' = TRUE /\ misled' = misled
      /\ reported' = reported \cup (IF state = None THEN unsaved ELSE {})
  BY DEF Fail, End
<1>3. TypeOK'
  <2>1. <<>> \in Seq(Steps)
    OBVIOUS
  <2>2. QED
    BY <1>1, <1>2, <2>1 DEF TypeOK
<1>4. InHandler' /\ SameObject'
  BY <1>1, <1>2 DEF InHandler, SameObject
<1>5. Accounted'
  BY <1>2 DEF Accounted, Live, Tracked, Worked
<1>6. QED
  BY <1>3, <1>4, <1>5 DEF LifecycleInv

\* A handler that drops the entry may do so if all that exists was reported, or
\* was denied by the answer.
LEMMA AfterDrop ==
    ASSUME LifecycleInv, op # "idle", NEW denied \in SUBSET All, Drop(denied),
           UNCHANGED <<kind, config>>,
           objects' \in [All -> Values \cup {Gone}], ours' \in SUBSET All,
           kind.find # "name" => \A id \in ours' : objects'[id] # Gone =>
               id \in reported \cup misled \cup denied
    PROVE  LifecycleInv'
<1>1. TypeOK /\ InHandler /\ SameObject
  BY DEF LifecycleInv
<1>2. /\ state' = None /\ op' = "idle" /\ steps' = <<>> /\ answer' = None
      /\ failed' = FALSE /\ reported' = reported
      /\ misled' = misled \cup {id \in denied : objects'[id] # Gone}
  BY DEF Drop, End
<1>3. TypeOK'
  <2>1. <<>> \in Seq(Steps)
    OBVIOUS
  <2>2. QED
    BY <1>1, <1>2, <2>1 DEF TypeOK
<1>4. InHandler' /\ SameObject'
  BY <1>1, <1>2 DEF InHandler, SameObject
<1>5. Accounted'
  BY <1>2 DEF Accounted, Live
<1>6. QED
  BY <1>3, <1>4, <1>5 DEF LifecycleInv

\* A step that succeeds goes on with the entry it answers, or records it.
LEMMA AfterProceed ==
    ASSUME LifecycleInv, op # "idle", op # "delete", NEW e \in Entries, Proceed(e),
           UNCHANGED <<kind, config>>,
           objects' \in [All -> Values \cup {Gone}], ours' \in SUBSET All,
           state # None /\ ~(op = "read" /\ kind.find = "name") => e.id = state.id,
           kind.identity = "config" => e.id = Key,
           kind.find # "name" => \A id \in ours' : objects'[id] # Gone =>
               Tracked(id) \/ id = e.id \/ id \in reported \cup misled
    PROVE  LifecycleInv'
<1>1. TypeOK /\ InHandler /\ SameObject
  BY DEF LifecycleInv
<1>2. e # None /\ e.id \in All
  BY EntryFacts
<1>3. /\ steps # <<>> /\ steps \in Seq(Steps)
      /\ Tail(steps) \in Seq(Steps) /\ (Len(steps) > 1 => Tail(steps) # <<>>)
  BY <1>1, StepsLeft DEF InHandler, TypeOK
<1>4. CASE /\ Len(steps) = 1 /\ End(e) /\ failed' = (op # "read" /\ e.value # config)
           /\ reported' = reported \ {e.id} /\ misled' = misled \ {e.id}
  <2>1. /\ state' = e /\ op' = "idle" /\ steps' = <<>> /\ answer' = None
        /\ failed' \in BOOLEAN /\ reported' = reported \ {e.id} /\ misled' = misled \ {e.id}
    BY <1>4 DEF End
  <2>2. TypeOK'
    <3>1. <<>> \in Seq(Steps)
      OBVIOUS
    <3>2. QED
      BY <1>1, <2>1, <3>1 DEF TypeOK
  <2>3. InHandler' /\ SameObject'
    BY <1>1, <2>1 DEF InHandler, SameObject
  <2>4. Accounted'
    <3> SUFFICES ASSUME kind.find # "name", NEW id \in ours', objects'[id] # Gone
                 PROVE  id = e.id \/ id \in (reported \cup misled) \ {e.id}
      BY <1>2, <2>1 DEF Accounted, Live, Tracked
    <3>1. Tracked(id) => id = e.id
      BY DEF Tracked
    <3>2. QED
      BY <3>1
  <2>5. QED
    BY <2>2, <2>3, <2>4 DEF LifecycleInv
<1>5. CASE Len(steps) > 1 /\ steps' = Tail(steps) /\ answer' = e
           /\ UNCHANGED <<state, op, failed, reported, misled>>
  <2>1. TypeOK'
    BY <1>1, <1>3, <1>5 DEF TypeOK
  <2>2. InHandler'
    <3>1. steps' # <<>> /\ answer' # None
      BY <1>2, <1>3, <1>5
    <3>2. op = "create" => steps' \in Seq(CreateSteps(kind))
      BY <1>1, <1>3, <1>5, StepsLeft DEF InHandler
    <3>3. op = "read" => steps' \in Seq(ReadSteps)
      BY <1>1, <1>3, <1>5, StepsLeft DEF InHandler
    <3>4. op = "update" => steps' \in Seq(UpdateSteps(kind))
      BY <1>1, <1>3, <1>5, StepsLeft DEF InHandler
    <3>5. CreateSteps(kind)' = CreateSteps(kind) /\ UpdateSteps(kind)' = UpdateSteps(kind)
      BY DEF CreateSteps, UpdateSteps, LookSteps
    <3>6. QED
      BY <1>1, <1>5, <3>1, <3>2, <3>3, <3>4, <3>5 DEF InHandler
  <2>3. SameObject'
    BY <1>1, <1>2, <1>5 DEF SameObject
  <2>4. Accounted'
    BY <1>2, <1>5 DEF Accounted, Live, Tracked, Worked
  <2>5. QED
    BY <2>1, <2>2, <2>3, <2>4 DEF LifecycleInv
<1>6. QED
  BY <1>4, <1>5 DEF Proceed

----------------------------------------------------------------------------
(* One lemma per action that can disturb something.                        *)

\* Terraform starts a handler of a resource with its recipe.
LEMMA StartKeeps ==
    ASSUME LifecycleInv, StartCreate \/ StartRead \/ StartUpdate \/ StartDelete
    PROVE  LifecycleInv'
<1>1. /\ TypeOK /\ InHandler /\ SameObject /\ Accounted
      /\ op = "idle" /\ answer = None /\ WellFormed(kind)
  BY KindsAssumption
     DEF LifecycleInv, InHandler, TypeOK, StartCreate, StartRead, StartUpdate, StartDelete, Start
<1>2. /\ UNCHANGED <<kind, config, state, objects, failed, ours, reported, misled>>
  BY DEF StartCreate, StartRead, StartUpdate, StartDelete, Start
<1>3. CASE StartCreate
  <2>1. state = None /\ config # None /\ op' = "create" /\ steps' = kind.create /\ answer' = None
    BY <1>3 DEF StartCreate, Start
  <2>2. TypeOK'
    BY <1>1, <1>2, <2>1 DEF TypeOK, WellFormed
  <2>3. InHandler'
    BY <1>1, <1>2, <2>1 DEF InHandler, WellFormed
  <2>4. SameObject' /\ Accounted'
    BY <1>1, <1>2, <2>1 DEF SameObject, Accounted, Live, Tracked, Worked
  <2>5. QED
    BY <2>2, <2>3, <2>4 DEF LifecycleInv
<1>4. ASSUME state # None, answer' = state
      PROVE  SameObject' /\ Accounted'
  BY <1>1, <1>2, <1>4 DEF SameObject, Accounted, Live, Tracked, Worked
<1>5. CASE StartRead
  <2>1. state # None /\ op' = "read" /\ steps' = kind.read /\ answer' = state
    BY <1>5 DEF StartRead, Start
  <2>2. kind.read \in Seq(ReadSteps) /\ kind.read # <<>>
    BY <1>1 DEF WellFormed
  <2>3. kind.read \in Seq(Steps)
    BY <2>2, WiderSteps DEF Steps, ReadSteps
  <2>4. TypeOK' /\ InHandler'
    BY <1>1, <1>2, <2>1, <2>2, <2>3 DEF TypeOK, InHandler
  <2>5. QED
    BY <1>4, <2>1, <2>4 DEF LifecycleInv
<1>6. CASE StartUpdate
  <2>1. /\ state # None /\ op' = "update" /\ steps' = kind.update /\ answer' = state
        /\ kind.update # <<>> /\ config # None
    BY <1>6 DEF StartUpdate, Start, Replace
  <2>2. kind.update \in Seq(UpdateSteps(kind)) /\ UpdateSteps(kind)' = UpdateSteps(kind)
    BY <1>1, <1>2 DEF WellFormed, UpdateSteps, LookSteps
  <2>3. kind.update \in Seq(Steps)
    BY <2>2, WiderSteps DEF Steps, ReadSteps, LookSteps, UpdateSteps
  <2>4. TypeOK' /\ InHandler'
    BY <1>1, <1>2, <2>1, <2>2, <2>3 DEF TypeOK, InHandler
  <2>5. QED
    BY <1>4, <2>1, <2>4 DEF LifecycleInv
<1>7. CASE StartDelete
  <2>1. state # None /\ op' = "delete" /\ steps' = kind.delete /\ answer' = state
    BY <1>7 DEF StartDelete, Start
  <2>2. kind.delete \in Seq(EraseSteps) /\ kind.delete # <<>>
    <3>1. PICK s \in EraseSteps : kind.delete = <<s>>
      BY <1>1 DEF WellFormed
    <3>2. <<s>> \in Seq(EraseSteps) /\ <<s>> # <<>>
      OBVIOUS
    <3>3. QED
      BY <3>1, <3>2
  <2>3. kind.delete \in Seq(Steps)
    BY <2>2, WiderSteps DEF Steps
  <2>4. TypeOK' /\ InHandler'
    BY <1>1, <1>2, <2>1, <2>2, <2>3 DEF TypeOK, InHandler
  <2>5. QED
    BY <1>4, <2>1, <2>4 DEF LifecycleInv
<1>8. QED
  BY <1>3, <1>5, <1>6, <1>7

\* An imported object is worked on by the Read that follows.
LEMMA ImportKeeps == LifecycleInv /\ Import => LifecycleInv'
<1> SUFFICES ASSUME LifecycleInv, Import PROVE LifecycleInv'
  OBVIOUS
<1>1. /\ TypeOK /\ InHandler /\ SameObject /\ Accounted
      /\ op = "idle" /\ answer = None /\ state = None /\ WellFormed(kind)
  BY KindsAssumption DEF LifecycleInv, InHandler, TypeOK, Import
<1>2. PICK id \in IF kind.identity = "config" THEN {Key} ELSE Ids :
        /\ Live(id)
        /\ answer' = [id |-> id, value |-> IF kind.find = "name" THEN objects[id] ELSE Bare]
        /\ ours' = ours \cup {id}
  BY DEF Import
<1>3. op' = "read" /\ steps' = kind.read
      /\ UNCHANGED <<kind, config, state, objects, failed, reported, misled>>
  BY DEF Import
<1>4. id \in All /\ objects[id] \in Values
  BY <1>1, <1>2 DEF All, Live, TypeOK
<1>5. answer' \in Entries /\ answer' # None /\ answer'.id = id
  BY <1>2, <1>4, EntryFacts, LifecycleAssumption DEF LifecycleAssumption
<1>6. kind.read \in Seq(ReadSteps) /\ kind.read # <<>>
  BY <1>1 DEF WellFormed
<1>7. kind.read \in Seq(Steps)
  BY <1>6, WiderSteps DEF Steps, ReadSteps
<1>8. TypeOK'
  BY <1>1, <1>2, <1>3, <1>4, <1>5, <1>7 DEF TypeOK
<1>9. InHandler' /\ SameObject'
  BY <1>1, <1>2, <1>3, <1>5, <1>6 DEF InHandler, SameObject
<1>10. Accounted'
  BY <1>1, <1>2, <1>3, <1>5 DEF Accounted, Live, Tracked, Worked
<1>11. QED
  BY <1>8, <1>9, <1>10 DEF LifecycleInv

\* What other people make is not ours, and what they delete is no orphan.
LEMMA SomebodyKeeps == LifecycleInv /\ Somebody => LifecycleInv'
<1> SUFFICES ASSUME LifecycleInv, Somebody PROVE LifecycleInv'
  OBVIOUS
<1>1. TypeOK /\ InHandler /\ SameObject /\ Accounted
  BY DEF LifecycleInv
<1>2. PICK id \in All, v \in Values \cup {Gone} :
        /\ objects' = [objects EXCEPT ![id] = v]
        /\ ours' = IF Live(id) THEN ours ELSE ours \ {id}
        /\ reported' = IF Live(id) THEN reported ELSE reported \ {id}
        /\ misled' = IF v = Gone THEN misled \ {id} ELSE misled
  BY DEF Somebody
<1>3. UNCHANGED <<kind, config, state, op, steps, answer, failed>>
  BY DEF Somebody
<1>4. TypeOK'
  BY <1>1, <1>2, <1>3 DEF TypeOK
<1>5. InHandler'
  <2>1. CreateSteps(kind)' = CreateSteps(kind) /\ UpdateSteps(kind)' = UpdateSteps(kind)
    BY <1>3 DEF CreateSteps, UpdateSteps, LookSteps
  <2>2. QED
    BY <1>1, <1>3, <2>1 DEF InHandler
<1>6. SameObject'
  BY <1>1, <1>3 DEF SameObject
<1>7. Accounted'
  <2> SUFFICES ASSUME kind.find # "name", NEW i \in ours', objects'[i] # Gone
               PROVE  Tracked(i) \/ i \in Worked \cup reported' \cup misled'
    BY <1>3 DEF Accounted, Live, Tracked, Worked
  <2>1. i \in All /\ i \in ours
    BY <1>1, <1>2 DEF TypeOK
  <2>2. CASE i = id
    <3>1. v # Gone
      BY <1>1, <1>2, <2>1, <2>2 DEF TypeOK
    <3>2. Live(i)
      BY <1>2, <2>2
    <3>3. QED
      BY <1>1, <1>2, <2>1, <2>2, <3>1, <3>2 DEF Accounted
  <2>3. CASE i # id
    <3>1. objects'[i] = objects[i]
      BY <1>1, <1>2, <2>1, <2>3 DEF TypeOK
    <3>2. QED
      BY <1>1, <1>2, <2>1, <2>3, <3>1 DEF Accounted, Live
  <2>4. QED
    BY <2>2, <2>3
<1>8. QED
  BY <1>4, <1>5, <1>6, <1>7 DEF LifecycleInv

\* The object that a handler makes is recorded, or reported if the answer is lost.
LEMMA AddKeeps == LifecycleInv /\ Add => LifecycleInv'
<1> SUFFICES ASSUME LifecycleInv, Add PROVE LifecycleInv'
  OBVIOUS
<1>1. TypeOK /\ InHandler /\ SameObject /\ Accounted
  BY DEF LifecycleInv
<1>2. PICK id \in Fresh, a \in Answers(TRUE, FALSE) :
        /\ IF a[2] THEN objects' = [objects EXCEPT ![id] = config] /\ ours' = ours \cup {id}
                   ELSE UNCHANGED <<objects, ours>>
        /\ IF a[1] = "ok" THEN Proceed([id |-> id, value |-> config])
                          ELSE Fail(IF a[2] THEN {id} ELSE {})
  BY DEF Add
<1>3. UNCHANGED <<kind, config>> /\ Doing("add")
  BY DEF Add
<1>4. \/ op = "create" /\ answer = None /\ state = None
      \/ op = "update" /\ kind.identity = "config" /\ state # None
  BY <1>1, <1>3, StepOf DEF InHandler
<1>5. op # "idle" /\ op # "delete" /\ config \in Values
  BY <1>1, <1>4 DEF InHandler, TypeOK
<1>6. id \in All /\ (kind.identity = "config" => id = Key)
  BY <1>2 DEF Fresh, All
<1>7. state # None => state.id = id /\ (answer # None => answer.id = id)
  BY <1>1, <1>4, <1>6 DEF SameObject
<1>8. objects' \in [All -> Values \cup {Gone}] /\ ours' \in SUBSET All
  BY <1>1, <1>2, <1>5, <1>6 DEF TypeOK
<1>9. ASSUME kind.find # "name", NEW i \in ours', objects'[i] # Gone
      PROVE  Tracked(i) \/ (i = id /\ a[2]) \/ i \in reported \cup misled
  <2>1. Worked \subseteq {id} /\ (state # None => Tracked(id))
    BY <1>4, <1>7 DEF Worked, Tracked
  <2>2. answer # None => state # None
    BY <1>4
  <2>3. CASE a[2] /\ i # id
    <3>1. objects'[i] = objects[i] /\ i \in ours
      BY <1>1, <1>2, <2>3 DEF TypeOK
    <3>2. QED
      BY <1>1, <1>9, <2>1, <2>3, <3>1 DEF Accounted, Live
  <2>4. CASE ~a[2]
    <3>1. Worked = {} \/ Tracked(id)
      BY <2>1, <2>2 DEF Worked
    <3>2. QED
      BY <1>1, <1>2, <1>9, <2>1, <2>4, <3>1 DEF Accounted, Live
  <2>5. QED
    BY <2>3, <2>4
<1>10. a[2] \in BOOLEAN /\ (a[1] = "ok" => a[2])
  BY <1>2 DEF Answers, IsNotFound
<1>11. CASE a[1] = "ok"
  <2>1. /\ Proceed([id |-> id, value |-> config])
        /\ [id |-> id, value |-> config] \in Entries
    BY <1>2, <1>5, <1>6, <1>11, EntryFacts
  <2>2. QED
    BY <1>3, <1>5, <1>6, <1>7, <1>8, <1>9, <2>1, AfterProceed
<1>12. CASE a[1] # "ok"
  <2> DEFINE unsaved == IF a[2] THEN {id} ELSE {}
  <2>1. Fail(unsaved) /\ unsaved \in SUBSET All
    BY <1>2, <1>6, <1>12
  <2>2. ASSUME kind.find # "name", NEW i \in ours', objects'[i] # Gone
        PROVE  Tracked(i) \/ (state = None /\ i \in unsaved) \/ i \in reported \cup misled
    BY <1>7, <1>9, <2>2 DEF Tracked
  <2> HIDE DEF unsaved
  <2>3. QED
    BY <1>3, <1>5, <1>8, <2>1, <2>2, AfterFail
<1>13. QED
  BY <1>11, <1>12

\* The steps that make nothing: what exists and is ours is tracked, worked on or
\* reported before, and is so after.
LEMMA StillAccounted ==
    ASSUME LifecycleInv, answer # None, UNCHANGED ours,
           \A i \in All : objects'[i] # Gone => Live(i),
           kind.find # "name", NEW i \in ours', objects'[i] # Gone
    PROVE  Tracked(i) \/ i = answer.id \/ i \in reported \cup misled
  BY DEF LifecycleInv, TypeOK, Accounted, Worked

\* An error diagnostic of a handler that has an object in hand.
LEMMA FailKeeps ==
    ASSUME LifecycleInv, op # "idle", answer # None, Fail(Worked), UNCHANGED <<kind, config, ours>>,
           objects' \in [All -> Values \cup {Gone}],
           \A i \in All : objects'[i] # Gone => Live(i)
    PROVE  LifecycleInv'
<1>1. TypeOK /\ SameObject
  BY DEF LifecycleInv
<1>2. Worked = {answer.id} /\ Worked \in SUBSET All /\ ours' \in SUBSET All
  BY <1>1, EntryFacts DEF Worked, TypeOK
<1>3. ASSUME kind.find # "name", NEW i \in ours', objects'[i] # Gone
      PROVE  Tracked(i) \/ (state = None /\ i \in Worked) \/ i \in reported \cup misled
  <2>1. Tracked(i) \/ i = answer.id \/ i \in reported \cup misled
    BY <1>3, StillAccounted
  <2>2. state # None => answer.id = state.id
    BY <1>1, <1>3 DEF SameObject
  <2>3. QED
    BY <1>2, <2>1, <2>2 DEF Tracked
<1>4. QED
  BY <1>2, <1>3, AfterFail

\* A step that succeeds on the object in hand.
LEMMA ProceedKeeps ==
    ASSUME LifecycleInv, op # "idle", op # "delete", answer # None, NEW e \in Entries, Proceed(e),
           UNCHANGED <<kind, config, ours>>,
           objects' \in [All -> Values \cup {Gone}],
           \A i \in All : objects'[i] # Gone => Live(i),
           e.id = answer.id \/ (op = "read" /\ kind.find = "name")
    PROVE  LifecycleInv'
<1>1. TypeOK /\ SameObject /\ WellFormed(kind)
  BY KindsAssumption DEF LifecycleInv, TypeOK
<1>2. ours' \in SUBSET All
  BY <1>1 DEF TypeOK
<1>3. state # None /\ ~(op = "read" /\ kind.find = "name") => e.id = state.id
  BY <1>1 DEF SameObject
<1>4. kind.identity = "config" => e.id = Key
  BY <1>1 DEF SameObject, WellFormed
<1>5. ASSUME kind.find # "name", NEW i \in ours', objects'[i] # Gone
      PROVE  Tracked(i) \/ i = e.id \/ i \in reported \cup misled
  BY <1>5, StillAccounted
<1>6. QED
  BY <1>2, <1>3, <1>4, <1>5, AfterProceed

\* What a lookup finds exists; unless it goes by names, it is the object that was
\* asked for.  What a handler sees of it is an entry.
LEMMA FoundFacts ==
    ASSUME TypeOK, answer # None, NEW found \in Found(answer), WellFormed(kind)
    PROVE  /\ \A id \in found : /\ id \in All /\ Seen(id) \in Entries /\ Seen(id).id = id
                                /\ kind.find # "name" => id = answer.id
           /\ kind.find # "name" /\ Live(answer.id) => \/ answer.id \in found
                                                      \/ found # Matches(answer)
<1>1. answer.id \in All /\ answer.value \in Values
  BY EntryFacts DEF TypeOK
<1>2. found \subseteq Matches(answer)
  BY DEF Found
<1>3. ASSUME NEW id \in Matches(answer)
      PROVE  id \in All /\ objects[id] \in Values /\ (kind.find # "name" => id = answer.id)
  <2>1. CASE kind.find # "name"
    BY <1>1, <1>3, <2>1 DEF Matches, Live, TypeOK
  <2>2. CASE kind.find = "name"
    BY <1>1, <1>3, <2>2 DEF Matches, All
  <2>3. QED
    BY <2>1, <2>2
<1>4. ASSUME NEW id \in Matches(answer) PROVE Seen(id) \in Entries /\ Seen(id).id = id
  BY <1>1, <1>3, <1>4, EntryFacts DEF Seen
<1>5. kind.find # "name" /\ Live(answer.id) => answer.id \in Matches(answer)
  BY <1>1 DEF Matches
<1>6. QED
  BY <1>2, <1>3, <1>4, <1>5

LEMMA ChangeFacts ==
    ASSUME LifecycleInv, Change
    PROVE  /\ op \in {"create", "update"} /\ answer # None /\ UNCHANGED <<kind, config, ours>>
           /\ objects' \in [All -> Values \cup {Gone}]
           /\ \A i \in All : objects'[i] # Gone => Live(i)
           /\ \/ Fail(Worked)
              \/ \E e \in Entries : e.id = answer.id /\ Proceed(e)
<1>1. TypeOK /\ InHandler
  BY DEF LifecycleInv
<1>2. PICK a \in Answers(Live(answer.id), FALSE) :
        /\ objects' = IF a[2] THEN [objects EXCEPT ![answer.id] = Updated] ELSE objects
        /\ IF a[1] = "ok" THEN Proceed([answer EXCEPT !.value = Updated]) ELSE Fail(Worked)
  BY DEF Change
<1>3. UNCHANGED <<kind, config, ours>> /\ Doing("change")
  BY DEF Change
<1>4. op \in {"create", "update"} /\ answer # None
  BY <1>3, StepOf
<1>5. answer \in Entries /\ answer.id \in All /\ config \in Values
  BY <1>1, <1>4, EntryFacts DEF InHandler, TypeOK
<1>6. Live(answer.id) \in BOOLEAN
  BY DEF Live
<1>7. a[2] \in BOOLEAN /\ (a[2] => Live(answer.id)) /\ (a[1] = "ok" => a[2])
  BY <1>2, <1>6 DEF Answers, IsNotFound
<1>8. a[2] => Updated \in Values
  BY <1>1, <1>5, <1>7 DEF Updated, Live, TypeOK
<1>9. objects' \in [All -> Values \cup {Gone}]
  BY <1>1, <1>2, <1>5, <1>8 DEF TypeOK
<1>10. ASSUME NEW i \in All, objects'[i] # Gone PROVE Live(i)
  BY <1>1, <1>2, <1>5, <1>7, <1>10 DEF TypeOK, Live
<1>11. CASE a[1] = "ok"
  <2> DEFINE e == [answer EXCEPT !.value = Updated]
  <2>1. e \in Entries /\ e.id = answer.id /\ Proceed(e)
    BY <1>2, <1>5, <1>7, <1>8, <1>11 DEF Entries
  <2> HIDE DEF e
  <2>2. QED
    BY <1>3, <1>4, <1>9, <1>10, <2>1
<1>12. CASE a[1] # "ok"
  BY <1>2, <1>3, <1>4, <1>9, <1>10, <1>12
<1>13. QED
  BY <1>11, <1>12

LEMMA ChangeKeeps == LifecycleInv /\ Change => LifecycleInv'
<1> SUFFICES ASSUME LifecycleInv, Change PROVE LifecycleInv'
  OBVIOUS
<1>1. /\ op \in {"create", "update"} /\ answer # None /\ UNCHANGED <<kind, config, ours>>
      /\ objects' \in [All -> Values \cup {Gone}]
      /\ \A i \in All : objects'[i] # Gone => Live(i)
      /\ Fail(Worked) \/ \E e \in Entries : e.id = answer.id /\ Proceed(e)
  BY ChangeFacts
<1>2. CASE Fail(Worked)
  BY <1>1, <1>2, FailKeeps
<1>3. ASSUME NEW e \in Entries, e.id = answer.id, Proceed(e) PROVE LifecycleInv'
  BY <1>1, <1>3, ProceedKeeps
<1>4. QED
  BY <1>1, <1>2, <1>3

\* A Read drops the entry only if there is no such object or an answer denies it.
LEMMA GetFacts ==
    ASSUME LifecycleInv, Get
    PROVE  /\ op # "idle" /\ op # "delete" /\ answer # None
           /\ UNCHANGED <<kind, config, objects, ours>>
           /\ \/ Fail(Worked)
              \/ \E e \in Entries : /\ Proceed(e)
                                    /\ e.id = answer.id \/ (op = "read" /\ kind.find = "name")
              \/ /\ op = "read" /\ state # None
                 /\ \E denied \in SUBSET {answer.id} :
                       /\ Drop(denied)
                       /\ kind.find # "name" /\ Live(answer.id) => answer.id \in denied
<1>1. TypeOK /\ WellFormed(kind)
  BY KindsAssumption DEF LifecycleInv, TypeOK
<1>2. PICK found \in Found(answer) : \E a \in Answers(found # {}, FALSE) :
        \/ \E id \in found : Proceed(Seen(id))
        \/ /\ op = "read" /\ state # None /\ IsNotFound(a[1])
           /\ Drop(Denied(answer, found, a[1]))
        \/ Fail(Worked)
  BY DEF Get
<1>3. PICK a \in Answers(found # {}, FALSE) :
        \/ \E id \in found : Proceed(Seen(id))
        \/ /\ op = "read" /\ state # None /\ IsNotFound(a[1])
           /\ Drop(Denied(answer, found, a[1]))
        \/ Fail(Worked)
  BY <1>2
<1>4. UNCHANGED <<kind, config, objects, ours>> /\ Doing("get")
  BY DEF Get
<1>5. /\ op # "idle" /\ op # "delete" /\ answer # None
      /\ op = "read" \/ kind.find # "name"
  BY <1>4, StepOf
<1>6. CASE \E id \in found : Proceed(Seen(id))
  <2>1. PICK id \in found : Proceed(Seen(id))
    BY <1>6
  <2>2. Seen(id) \in Entries /\ Seen(id).id = id /\ (kind.find # "name" => id = answer.id)
    BY <1>1, <1>5, FoundFacts
  <2>3. QED
    BY <1>4, <1>5, <2>1, <2>2
<1>7. CASE /\ op = "read" /\ state # None /\ IsNotFound(a[1])
           /\ Drop(Denied(answer, found, a[1]))
  <2> DEFINE denied == Denied(answer, found, a[1])
  <2>1. denied \in SUBSET {answer.id} /\ Drop(denied)
    BY <1>7 DEF Denied
  <2>2. ASSUME kind.find # "name", Live(answer.id) PROVE answer.id \in denied
    <3>1. a[1] = "404" => found = {}
      BY <1>3 DEF Answers
    <3>2. a[1] = "404" => found # Matches(answer)
      BY <1>1, <1>5, <2>2, <3>1, FoundFacts
    <3>3. QED
      BY <1>7, <3>2 DEF Denied, IsNotFound
  <2> HIDE DEF denied
  <2>3. QED
    BY <1>4, <1>5, <1>7, <2>1, <2>2
<1>8. QED
  BY <1>3, <1>4, <1>5, <1>6, <1>7

LEMMA GetKeeps == LifecycleInv /\ Get => LifecycleInv'
<1> SUFFICES ASSUME LifecycleInv, Get PROVE LifecycleInv'
  OBVIOUS
<1>1. TypeOK /\ SameObject
  BY DEF LifecycleInv
<1>2. /\ op # "idle" /\ op # "delete" /\ answer # None
      /\ UNCHANGED <<kind, config, objects, ours>>
      /\ \/ Fail(Worked)
         \/ \E e \in Entries : /\ Proceed(e)
                               /\ e.id = answer.id \/ (op = "read" /\ kind.find = "name")
         \/ /\ op = "read" /\ state # None
            /\ \E denied \in SUBSET {answer.id} :
                  /\ Drop(denied)
                  /\ kind.find # "name" /\ Live(answer.id) => answer.id \in denied
  BY GetFacts
<1>3. /\ objects' \in [All -> Values \cup {Gone}] /\ ours' \in SUBSET All
      /\ \A i \in All : objects'[i] # Gone => Live(i)
  BY <1>1, <1>2 DEF TypeOK, Live
<1>4. CASE Fail(Worked)
  BY <1>2, <1>3, <1>4, FailKeeps
<1>5. ASSUME NEW e \in Entries, Proceed(e),
             e.id = answer.id \/ (op = "read" /\ kind.find = "name")
      PROVE  LifecycleInv'
  BY <1>2, <1>3, <1>5, ProceedKeeps
<1>6. ASSUME state # None, NEW denied \in SUBSET {answer.id}, Drop(denied),
             kind.find # "name" /\ Live(answer.id) => answer.id \in denied
      PROVE  LifecycleInv'
  <2>1. denied \in SUBSET All
    BY <1>1, <1>2, EntryFacts DEF TypeOK
  <2>2. ASSUME kind.find # "name", NEW i \in ours', objects'[i] # Gone
        PROVE  i \in reported \cup misled \cup denied
    <3>1. Tracked(i) \/ i = answer.id \/ i \in reported \cup misled
      BY <1>2, <1>3, <2>2, StillAccounted
    <3>2. answer.id = state.id
      BY <1>1, <1>2, <1>6, <2>2 DEF SameObject
    <3>3. Live(i)
      BY <1>2, <2>2 DEF Live
    <3>4. QED
      BY <1>6, <2>2, <3>1, <3>2, <3>3 DEF Tracked
  <2>3. QED
    BY <1>2, <1>3, <1>6, <2>1, <2>2, AfterDrop
<1>7. QED
  BY <1>2, <1>4, <1>5, <1>6

\* The steps that only look.
LEMMA LookFacts ==
    ASSUME LifecycleInv, TryGet \/ AlsoGet \/ Check
    PROVE  /\ op # "idle" /\ op # "delete" /\ answer # None
           /\ UNCHANGED <<kind, config, objects, ours>>
           /\ \/ Fail(Worked)
              \/ \E e \in Entries : e.id = answer.id /\ Proceed(e)
<1>1. TypeOK /\ WellFormed(kind)
  BY KindsAssumption DEF LifecycleInv, TypeOK
<1>2. UNCHANGED <<kind, config, objects, ours>>
  BY DEF TryGet, AlsoGet, Check
<1>3. /\ op # "idle" /\ op # "delete" /\ answer # None
      /\ TryGet => kind.find # "name"
  <2>1. PICK s \in {"try", "also", "check"} : Doing(s) /\ (TryGet => Doing("try"))
    BY DEF TryGet, AlsoGet, Check
  <2>2. QED
    BY <2>1, StepOf
<1>4. answer \in Entries
  BY <1>1, <1>3 DEF TypeOK
<1>5. CASE TryGet
  <2>0. PICK found \in Found(answer) : \E a \in Answers(found # {}, FALSE) :
          Proceed(IF a[1] = "ok" THEN Seen(answer.id) ELSE answer)
    BY <1>5 DEF TryGet
  <2>1. PICK a \in Answers(found # {}, FALSE) :
          Proceed(IF a[1] = "ok" THEN Seen(answer.id) ELSE answer)
    BY <2>0
  <2>2. a[1] = "ok" => answer.id \in found
    <3>1. a[1] = "ok" => found # {}
      BY <2>1 DEF Answers
    <3>2. \A id \in found : id = answer.id
      BY <1>1, <1>3, <1>5, FoundFacts
    <3>3. QED
      BY <3>1, <3>2
  <2> DEFINE e == IF a[1] = "ok" THEN Seen(answer.id) ELSE answer
  <2>3. e \in Entries /\ e.id = answer.id
    BY <1>1, <1>3, <1>4, <2>2, FoundFacts
  <2>4. Proceed(e)
    BY <2>1
  <2> HIDE DEF e
  <2>5. QED
    BY <1>2, <1>3, <2>3, <2>4
<1>6. CASE AlsoGet \/ Check
  <2>1. Proceed(answer) \/ Fail(Worked)
    BY <1>6 DEF AlsoGet, Check
  <2>2. QED
    BY <1>2, <1>3, <1>4, <2>1
<1>7. QED
  BY <1>5, <1>6

LEMMA LookKeeps == LifecycleInv /\ (TryGet \/ AlsoGet \/ Check) => LifecycleInv'
<1> SUFFICES ASSUME LifecycleInv, TryGet \/ AlsoGet \/ Check PROVE LifecycleInv'
  OBVIOUS
<1>1. /\ op # "idle" /\ op # "delete" /\ answer # None
      /\ UNCHANGED <<kind, config, objects, ours>>
      /\ Fail(Worked) \/ \E e \in Entries : e.id = answer.id /\ Proceed(e)
  BY LookFacts
<1>2. objects' \in [All -> Values \cup {Gone}] /\ \A i \in All : objects'[i] # Gone => Live(i)
  BY <1>1 DEF LifecycleInv, TypeOK, Live
<1>3. CASE Fail(Worked)
  BY <1>1, <1>2, <1>3, FailKeeps
<1>4. ASSUME NEW e \in Entries, e.id = answer.id, Proceed(e) PROVE LifecycleInv'
  BY <1>1, <1>2, <1>4, ProceedKeeps
<1>5. QED
  BY <1>1, <1>3, <1>4

\* A Delete that drops the entry has deleted the object or found it missing, or an
\* answer denied it.
LEMMA EraseFacts ==
    ASSUME LifecycleInv, Erase
    PROVE  /\ op = "delete" /\ state # None /\ answer # None /\ answer.id = state.id
           /\ UNCHANGED <<kind, config, ours>>
           /\ objects' \in [All -> Values \cup {Gone}]
           /\ \A i \in All : objects'[i] # Gone => Live(i)
           /\ \/ Fail({})
              \/ \E denied \in SUBSET {state.id} :
                    Drop(denied) /\ (objects'[state.id] = Gone \/ state.id \in denied)
<1>1. TypeOK /\ InHandler /\ SameObject
  BY DEF LifecycleInv
<1>2. PICK a \in Answers(Live(answer.id), Doing("delete")) :
        /\ objects' = IF a[2] THEN [objects EXCEPT ![answer.id] = Gone] ELSE objects
        /\ IF a[1] = "ok" \/ IsNotFound(a[1])
              THEN Drop(IF a[1] = "bare404" THEN Worked ELSE {})
              ELSE Fail({})
  BY DEF Erase
<1>3. op = "delete" /\ answer # None /\ UNCHANGED <<kind, config, ours>>
  BY StepOf DEF Erase
<1>4. state # None /\ answer.id = state.id /\ answer.id \in All /\ Worked = {state.id}
  BY <1>1, <1>3, EntryFacts DEF InHandler, SameObject, TypeOK, Worked
<1>5. Live(answer.id) \in BOOLEAN /\ Doing("delete") \in BOOLEAN
  BY DEF Live, Doing
<1>6. /\ a[2] \in BOOLEAN /\ (a[2] => Live(answer.id))
      /\ a[1] = "ok" => a[2]
      /\ a[1] = "404" /\ Live(answer.id) => a[2]
  BY <1>2, <1>5 DEF Answers
<1>7. objects' \in [All -> Values \cup {Gone}]
  BY <1>1, <1>2, <1>4 DEF TypeOK
<1>8. \A i \in All : objects'[i] # Gone => Live(i)
  BY <1>1, <1>2, <1>4 DEF TypeOK, Live
<1>9. a[1] \in {"ok", "404"} => objects'[state.id] = Gone
  BY <1>1, <1>2, <1>4, <1>6 DEF TypeOK, Live
<1>10. CASE a[1] = "ok" \/ IsNotFound(a[1])
  <2> DEFINE denied == IF a[1] = "bare404" THEN Worked ELSE {}
  <2>1. Drop(denied) /\ denied \in SUBSET {state.id}
    BY <1>2, <1>4, <1>10
  <2>2. objects'[state.id] = Gone \/ state.id \in denied
    BY <1>4, <1>9, <1>10 DEF IsNotFound
  <2> HIDE DEF denied
  <2>3. QED
    BY <1>3, <1>4, <1>7, <1>8, <2>1, <2>2
<1>11. QED
  BY <1>2, <1>3, <1>4, <1>7, <1>8, <1>10

LEMMA EraseKeeps == LifecycleInv /\ Erase => LifecycleInv'
<1> SUFFICES ASSUME LifecycleInv, Erase PROVE LifecycleInv'
  OBVIOUS
<1>1. /\ op = "delete" /\ state # None /\ answer # None /\ answer.id = state.id
      /\ UNCHANGED <<kind, config, ours>>
      /\ objects' \in [All -> Values \cup {Gone}]
      /\ \A i \in All : objects'[i] # Gone => Live(i)
      /\ \/ Fail({})
         \/ \E denied \in SUBSET {state.id} :
               Drop(denied) /\ (objects'[state.id] = Gone \/ state.id \in denied)
  BY EraseFacts
<1>2. ours' \in SUBSET All /\ state.id \in All
  BY <1>1, EntryFacts DEF LifecycleInv, TypeOK
<1>3. ASSUME kind.find # "name", NEW i \in ours', objects'[i] # Gone
      PROVE  i = state.id \/ i \in reported \cup misled
  <2>1. Tracked(i) \/ i = answer.id \/ i \in reported \cup misled
    BY <1>1, <1>3, StillAccounted
  <2>2. QED
    BY <1>1, <2>1 DEF Tracked
<1>4. ASSUME NEW denied \in SUBSET {state.id}, Drop(denied),
             objects'[state.id] = Gone \/ state.id \in denied
      PROVE  LifecycleInv'
  <2>1. denied \in SUBSET All
    BY <1>2
  <2>2. kind.find # "name" => \A i \in ours' : objects'[i] # Gone =>
            i \in reported \cup misled \cup denied
    BY <1>3, <1>4
  <2>3. QED
    BY <1>1, <1>2, <1>4, <2>1, <2>2, AfterDrop
<1>5. CASE Fail({})
  <2>1. {} \in SUBSET All /\ op # "idle"
    BY <1>1
  <2>2. kind.find # "name" => \A i \in ours' : objects'[i] # Gone =>
            Tracked(i) \/ (state = None /\ i \in {}) \/ i \in reported \cup misled
    BY <1>1, <1>3 DEF Tracked
  <2>3. QED
    BY <1>1, <1>2, <1>5, <2>1, <2>2, AfterFail
<1>6. QED
  BY <1>1, <1>4, <1>5

----------------------------------------------------------------------------
(* Theorems.                                                               *)

LEMMA InvStep == LifecycleInv /\ [Next]_vars => LifecycleInv'
<1> SUFFICES ASSUME LifecycleInv, [Next]_vars PROVE LifecycleInv'
  OBVIOUS
<1>1. CASE SetConfig
  <2>1. /\ op = "idle" /\ config' \in Values \cup {None}
        /\ UNCHANGED <<kind, state, objects, op, steps, answer, failed, ours, reported, misled>>
    BY <1>1 DEF SetConfig
  <2>2. TypeOK' /\ SameObject' /\ Accounted'
    BY <2>1 DEF LifecycleInv, TypeOK, SameObject, Accounted, Live, Tracked, Worked
  <2>3. InHandler'
    BY <2>1 DEF LifecycleInv, InHandler
  <2>4. QED
    BY <2>2, <2>3 DEF LifecycleInv
<1>2. CASE StartCreate \/ StartRead \/ StartUpdate \/ StartDelete
  BY <1>2, StartKeeps
<1>3. CASE Import
  BY <1>3, ImportKeeps
<1>4. CASE Add
  BY <1>4, AddKeeps
<1>5. CASE Change
  BY <1>5, ChangeKeeps
<1>6. CASE Get
  BY <1>6, GetKeeps
<1>7. CASE TryGet \/ AlsoGet \/ Check
  BY <1>7, LookKeeps
<1>8. CASE Erase
  BY <1>8, EraseKeeps
<1>9. CASE Somebody
  BY <1>9, SomebodyKeeps
<1>10. CASE UNCHANGED vars
  <2>1. CreateSteps(kind)' = CreateSteps(kind) /\ UpdateSteps(kind)' = UpdateSteps(kind)
    BY <1>10 DEF vars, CreateSteps, UpdateSteps, LookSteps
  <2>2. TypeOK' /\ SameObject' /\ Accounted'
    BY <1>10 DEF vars, LifecycleInv, TypeOK, SameObject, Accounted, Live, Tracked, Worked
  <2>3. InHandler'
    BY <1>10, <2>1 DEF vars, LifecycleInv, InHandler
  <2>4. QED
    BY <2>2, <2>3 DEF LifecycleInv
<1>11. QED
  BY <1>1, <1>2, <1>3, <1>4, <1>5, <1>6, <1>7, <1>8, <1>9, <1>10 DEF Next, Handler

\* LifecycleInv is an inductive invariant of every resource with well-formed recipes.
THEOREM LifecycleInvariant == Spec => []LifecycleInv
<1>1. QED
  BY InvInit, InvStep, PTL DEF Spec

\* The variables of a resource's address have their types.
THEOREM TypeOKHolds == Spec => []TypeOK
<1>1. LifecycleInv => TypeOK
  BY DEF LifecycleInv
<1>2. QED
  BY <1>1, LifecycleInvariant, PTL

\* However the calls of the handlers fail, what an address made and still exists
\* is in its state, or an error was reported when it was left behind, or a bare 404
\* or an incomplete list denied it.
THEOREM NoSilentOrphanHolds == Spec => []NoSilentOrphan
<1>1. LifecycleInv => NoSilentOrphan
  BY DEF LifecycleInv, InHandler, Accounted, Worked, NoSilentOrphan
<1>2. QED
  BY <1>1, LifecycleInvariant, PTL

\* The state loses an object only if the server has it no more, if the answer just
\* taken for a missing object was a bare 404 or an incomplete list, or in a Read
\* that goes by names.
THEOREM ForgetsOnlyTheGoneHolds == Spec => ForgetsOnlyTheGone
<1>1. ASSUME LifecycleInv, [Next]_vars, state # None, state' = None,
             ~(op = "read" /\ kind.find = "name")
      PROVE  objects'[state.id] = Gone \/ state.id \in misled'
  <2>1. TypeOK /\ InHandler /\ SameObject
    BY <1>1 DEF LifecycleInv
  <2>2. ASSUME NEW e \in Entries, Proceed(e) PROVE FALSE
    BY <1>1, <2>2, EntryFacts DEF Proceed, End
  <2>3. ASSUME NEW unsaved, Fail(unsaved) PROVE FALSE
    BY <1>1, <2>3 DEF Fail, End
  <2>4. CASE Add
    <3>1. PICK id \in Fresh : \/ Proceed([id |-> id, value |-> config])
                              \/ \E unsaved : Fail(unsaved)
      BY <2>4 DEF Add
    <3>2. id \in All
      BY DEF Fresh, All
    <3>3. config \in Values
      <4>1. op \in {"create", "update"}
        BY <1>1, <2>4, StepOf DEF Add
      <4>2. QED
        BY <2>1, <4>1 DEF InHandler, TypeOK
    <3>4. QED
      BY <2>2, <2>3, <3>1, <3>2, <3>3, EntryFacts
  <2>5. CASE Change
    BY <1>1, <2>2, <2>3, <2>5, ChangeFacts
  <2>6. CASE Get
    <3>1. PICK denied \in SUBSET {answer.id} :
            /\ Drop(denied)
            /\ kind.find # "name" /\ Live(answer.id) => answer.id \in denied
      BY <1>1, <2>2, <2>3, <2>6, GetFacts
    <3>2. op = "read" /\ UNCHANGED objects
      BY <1>1, <2>2, <2>3, <2>6, GetFacts
    <3>3. kind.find # "name" /\ answer.id = state.id
      BY <1>1, <2>1, <3>2 DEF SameObject
    <3>4. QED
      BY <3>1, <3>2, <3>3 DEF Drop, Live
  <2>7. CASE TryGet \/ AlsoGet \/ Check
    BY <1>1, <2>2, <2>3, <2>7, LookFacts
  <2>8. CASE Erase
    <3>1. PICK denied \in SUBSET {state.id} :
            Drop(denied) /\ (objects'[state.id] = Gone \/ state.id \in denied)
      BY <1>1, <2>3, <2>8, EraseFacts
    <3>2. QED
      BY <3>1 DEF Drop
  <2>9. CASE SetConfig \/ StartCreate \/ StartRead \/ StartUpdate \/ StartDelete
              \/ Import \/ Somebody \/ UNCHANGED vars
    BY <1>1, <2>9
       DEF SetConfig, StartCreate, StartRead, StartUpdate, StartDelete, Start, Import, Somebody, vars
  <2>10. QED
    BY <1>1, <2>4, <2>5, <2>6, <2>7, <2>8, <2>9 DEF Next, Handler
<1>2. LifecycleInv /\ [Next]_vars =>
        [state # None /\ state' = None
           => \/ objects'[state.id] = Gone \/ state.id \in misled'
              \/ op = "read" /\ kind.find = "name"]_vars
  BY <1>1
<1>3. QED
  BY <1>2, LifecycleInvariant, PTL DEF Spec, ForgetsOnlyTheGone
=============================================================================
