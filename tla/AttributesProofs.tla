-------------------------- MODULE AttributesProofs --------------------------
(* Proofs about Attributes, for every attribute that is WellFormed and every *)
(* set of words.                                                             *)
EXTENDS Attributes, TLAPS

----------------------------------------------------------------------------
(* Values.                                                                 *)

LEMMA Distinct ==
    /\ Null # Blank /\ Null # Unknown /\ Null # Unsent
    /\ Blank # Unknown /\ Blank # Unsent /\ Unknown # Unsent
    /\ \A w \in Words : w \notin {Null, Blank, Unknown, Unsent, None}
    /\ None \notin {Null, Blank, Unknown, Unsent}
  BY AttributesAssumption DEF AttributesAssumption, Null, Blank, Unknown, Unsent

LEMMA Kind ==
    ASSUME TypeOK
    PROVE  /\ WellFormed(kind)
           /\ kind.text \in BOOLEAN
           /\ style.unset \in {Null, Blank} /\ style.blank \in {Null, Blank}
           /\ Initial \in Held /\ Held \subseteq Wanted /\ Wanted \subseteq Values
           /\ Wanted \subseteq Held \cup {Null} /\ Words \subseteq Held
<1>1. WellFormed(kind)
  BY KindsAssumption DEF TypeOK
<1>2. kind.text \in BOOLEAN
  BY <1>1 DEF WellFormed
<1>3. style.unset \in {Null, Blank} /\ style.blank \in {Null, Blank}
  BY DEF TypeOK, Styles
<1>4. QED
  BY <1>1, <1>2, <1>3, AttributesAssumption
     DEF AttributesAssumption, Initial, Held, Wanted, Values

CreateSteps == {"post", "get", "try", "suspend"}

\* The recipes of a create, and what is left of them after the POST.
LEMMA Recipes ==
    ASSUME TypeOK
    PROVE  /\ kind.create \in Seq(CreateSteps)
           /\ Head(kind.create) = "post"
           /\ Len(kind.create) = 1 \/ Len(kind.create) = 2
           /\ kind.create # Tail(kind.create)
           /\ Len(kind.create) = 1 => Tail(kind.create) = <<>> /\ kind.record # "asPlanned"
           /\ Len(kind.create) = 2 =>
                 \E s \in {"get", "try", "suspend"} :
                    kind.create = <<"post", s>> /\ Tail(kind.create) = <<s>>
<1>1. kind.create \in {<<"post">>, <<"post", "get">>, <<"post", "try">>, <<"post", "suspend">>}
  BY Kind DEF WellFormed
<1>2. CASE kind.create = <<"post">>
  <2>1. <<"post">> # <<"post", "suspend">> /\ <<"post">> # <<>>
    OBVIOUS
  <2>2. kind.record # "asPlanned"
    BY <1>2, <2>1, Kind DEF WellFormed
  <2>3. Len(<<"post">>) = 1 /\ Head(<<"post">>) = "post" /\ Tail(<<"post">>) = <<>>
        /\ <<"post">> \in Seq(CreateSteps)
    BY DEF CreateSteps
  <2>4. QED
    BY <1>2, <2>1, <2>2, <2>3
<1>3. ASSUME NEW s \in {"get", "try", "suspend"}, kind.create = <<"post", s>>
      PROVE  /\ kind.create \in Seq(CreateSteps)
             /\ Head(kind.create) = "post" /\ Len(kind.create) = 2
             /\ Tail(kind.create) = <<s>> /\ kind.create # <<s>>
  <2>1. s \in CreateSteps /\ "post" \in CreateSteps
    BY DEF CreateSteps
  <2>2. QED
    BY <1>3, <2>1
<1>4. QED
  BY <1>1, <1>2, <1>3

\* A plan is what is configured, or of what is not: null if the schema leaves it
\* at that, otherwise unknown or, if the schema preserves it, as it was.
LEMMA PlannedFacts ==
    ASSUME TypeOK
    PROVE  /\ Planned \in Wanted \cup {Unknown}
           /\ Planned = Unknown => kind.schema # "optional"
           /\ Planned = Null => kind.schema = "optional"
           /\ Planned \notin {config, Unknown} => kind.schema = "preserved" /\ Planned = state
  BY Distinct DEF TypeOK, Planned, Wanted, Values

----------------------------------------------------------------------------
(* What is recorded of an answer.                                          *)

\* A value of the attribute is recorded, never an unknown one.
LEMMA RecordedType ==
    ASSUME TypeOK, NEW prior \in Wanted \cup {Unknown}, NEW api \in Held,
           prior = Unknown => kind.schema # "optional"
    PROVE  Recorded(prior, api) \in Wanted
<1> USE Kind, Distinct DEF Recorded
<1>1. Text(api) \in Wanted
  BY DEF Text, Wanted, Held, Values
<1>2. prior # Unknown => prior \in Wanted
  OBVIOUS
<1>3. CASE kind.record = "mirror"
  BY <1>3
<1>4. CASE kind.record = "string"
  BY <1>1, <1>4
<1>5. CASE kind.record = "blankIsNull"
  BY <1>1, <1>5 DEF optionalAPIString, Wanted, Values
<1>6. CASE kind.record = "keep"
  BY <1>2, <1>6 DEF KeepPrior, Wanted, Values
<1>7. CASE kind.record = "overlay"
  BY <1>2, <1>7 DEF overlayConfiguredJSON, WellFormed
<1>8. CASE kind.record = "asPlanned"
  BY <1>2, <1>8 DEF scheduleIsSuspended, Unset
<1>9. CASE kind.record = "planned"
  BY <1>2, <1>9 DEF WellFormed
<1>10. QED
  BY <1>3, <1>4, <1>5, <1>6, <1>7, <1>8, <1>9 DEF WellFormed

\* What is recorded of an answer says what the answer says; a handler that
\* records what was planned must have it from the answer.
LEMMA RecordedTrue ==
    ASSUME TypeOK, NEW prior \in Wanted \cup {Unknown}, NEW api \in Held,
           kind.record = "asPlanned" /\ prior \in Words => Says(prior, api)
    PROVE  Says(Recorded(prior, api), api)
<1> USE Kind, Distinct DEF Recorded, Says
<1>1. CASE kind.record = "mirror"
  BY <1>1
<1>2. CASE kind.record = "string"
  BY <1>2 DEF Text
<1>3. CASE kind.record = "blankIsNull"
  BY <1>3 DEF optionalAPIString, Text
<1>4. CASE kind.record = "keep"
  BY <1>4 DEF KeepPrior
<1>5. CASE kind.record = "overlay"
  BY <1>5 DEF overlayConfiguredJSON
<1>6. CASE kind.record = "asPlanned"
  <2>1. prior \in Words \cup {Null, Unknown} /\ api \in Words
    BY <1>6 DEF Wanted, Held, WellFormed
  <2>2. QED
    BY <1>6, <2>1 DEF scheduleIsSuspended, Unset
<1>7. CASE kind.record = "planned"
  BY <1>7
<1>8. QED
  BY <1>1, <1>2, <1>3, <1>4, <1>5, <1>6, <1>7 DEF WellFormed

LEMMA RereadTrue ==
    ASSUME TypeOK, NEW prior \in Wanted, NEW api \in Held
    PROVE  Reread(prior, api) \in Wanted /\ Says(Reread(prior, api), api)
<1>1. CASE kind.record = "asPlanned"
  BY <1>1, Kind DEF Reread, Says
<1>2. CASE kind.record # "asPlanned"
  <2>1. prior # Unknown
    BY Kind, Distinct DEF Values
  <2>2. QED
    BY <1>2, <2>1, RecordedType, RecordedTrue DEF Reread
<1>3. QED
  BY <1>1, <1>2

\* A known plan that the server carried out is recorded as planned.
LEMMA RecordedAsPlanned ==
    ASSUME TypeOK, NEW prior \in Wanted, NEW api \in Held,
           prior = Null => kind.schema = "optional",
           prior \in Words => Says(prior, api),
           Feasible(prior, api)
    PROVE  Recorded(prior, api) = prior
<1> USE Kind, Distinct DEF Recorded, Says, Feasible
<1>0. prior \in Words \cup {Null, Blank}
  BY DEF Values
<1>1. CASE kind.record = "mirror"
  BY <1>0, <1>1
<1>2. CASE kind.record = "string"
  BY <1>0, <1>2 DEF Text, WellFormed
<1>3. CASE kind.record = "blankIsNull"
  BY <1>0, <1>3 DEF optionalAPIString, Text, Unset
<1>4. CASE kind.record = "keep"
  BY <1>0, <1>4 DEF KeepPrior
<1>5. CASE kind.record = "overlay"
  BY <1>0, <1>5 DEF overlayConfiguredJSON
<1>6. CASE kind.record = "asPlanned"
  <2>1. prior \in Words \cup {Null} /\ api \in Words
    BY <1>6 DEF Wanted, Held, WellFormed
  <2>2. QED
    BY <1>6, <2>1 DEF scheduleIsSuspended, Unset
<1>7. CASE kind.record = "planned"
  BY <1>7
<1>8. QED
  BY <1>1, <1>2, <1>3, <1>4, <1>5, <1>6, <1>7 DEF WellFormed

----------------------------------------------------------------------------
(* What a request does.                                                    *)

\* What the server holds is a value of the attribute, whatever is sent.
LEMMA StoredType ==
    ASSUME TypeOK, NEW before \in Held, NEW value \in Wanted \cup {Unknown}, NEW old,
           NEW rule \in {"never", "known", "nonempty", "changed"}
    PROVE  Stored(Carried(rule, value, old), before) \in Held
<1>1. Carried(rule, value, old) \in {Unsent, value}
  BY DEF Carried, optionalStringPtr, OmitEmpty, changedStringPtr
<1>2. Carried(rule, value, old) = value => value \notin {Null, Unknown} \/ value = Unsent
  BY Distinct DEF Carried, optionalStringPtr, OmitEmpty, changedStringPtr, Unset
<1>3. QED
  BY <1>1, <1>2, Kind, Distinct DEF Stored, Held, Wanted, Values

\* A POST that carries the attribute makes an object with the word it carries.
LEMMA PostCarriesWords ==
    ASSUME TypeOK, NEW word \in Words, kind.post # "never"
    PROVE  Stored(Carried(kind.post, word, Null), Initial) = word
<1>1. kind.post \in {"known", "nonempty"}
  BY Kind DEF WellFormed
<1>2. QED
  BY <1>1, Distinct DEF Carried, optionalStringPtr, OmitEmpty, Unset, Stored

\* After a POST the server holds what is planned, but for the form of a text
\* without content.
LEMMA PostCarriesTexts ==
    ASSUME TypeOK, NEW value \in Values \ {Null}, kind.post # "never", value = Blank => kind.text
    PROVE  Says(value, Stored(Carried(kind.post, value, Null), Initial))
<1>1. CASE value \in Words
  BY <1>1, PostCarriesWords DEF Says
<1>2. CASE value = Blank
  <2>1. kind.post \in {"known", "nonempty"}
    BY Kind DEF WellFormed
  <2>2. Carried(kind.post, value, Null) \in {Blank, Unsent}
    BY <1>2, <2>1 DEF Carried, optionalStringPtr, OmitEmpty
  <2>3. Stored(Carried(kind.post, value, Null), Initial) \in {Null, Blank}
    BY <1>2, <2>2, Kind, Distinct DEF Stored, Initial
  <2>4. QED
    BY <1>2, <2>3 DEF Says
<1>3. QED
  BY <1>1, <1>2 DEF Values

\* After a PATCH the server holds the word that is planned: it was sent, or is
\* what the state has and the object as well.
LEMMA PatchCarriesWords ==
    ASSUME TypeOK, NEW word \in Words, server # None, state # None, Says(state, server),
           kind.replace => word = state
    PROVE  Says(word, Stored(Carried(kind.patch, word, state), server))
<1>1. CASE Carried(kind.patch, word, state) = word
  BY <1>1, Distinct DEF Stored, Says
<1>2. CASE Carried(kind.patch, word, state) # word
  <2>1. Carried(kind.patch, word, state) = Unsent /\ word = state
    BY <1>2, Kind, Distinct
       DEF WellFormed, Carried, optionalStringPtr, OmitEmpty, changedStringPtr, Unset
  <2>2. QED
    BY <2>1 DEF Stored
<1>3. QED
  BY <1>1, <1>2

----------------------------------------------------------------------------
(* What a step of a handler comes to: after the POST the create goes on with *)
(* what the server made of the plan; otherwise the handler ends, and what it *)
(* records came from the server or, of a plan that was carried out, from it. *)

GoesOn ==
    /\ op = "create" /\ steps = kind.create
    /\ steps' = Tail(kind.create) /\ steps' # <<>>
    /\ answer' = server'
    /\ server' = Stored(Carried(kind.post, plan, Null), Initial)
    /\ UNCHANGED <<kind, style, config, plan, state, op, verdict, drifted>>

Ended(api) ==
    /\ op' = "idle" /\ steps' = <<>> /\ plan' = Null /\ answer' = Null
    /\ state' = Recorded(plan, api)
    /\ verdict' = Verdict(state')
    /\ UNCHANGED <<kind, style, config, drifted>>

Faithful(api) ==
    /\ plan \in Words => Says(plan, server')
    /\ \/ api = server'
       \/ api = plan /\ plan \in Values \ {Null} /\ Says(plan, server')

LEMMA PostOutcome ==
    ASSUME AttributesInv, Post
    PROVE  /\ server' \in Held
           /\ \/ GoesOn
              \/ \E api \in Held : Ended(api) /\ (~drifted => Faithful(api))
<1> DEFINE made == Stored(Carried(kind.post, plan, Null), Initial)
<1>1. TypeOK /\ op = "create" /\ steps = kind.create
  BY Recipes, Kind DEF AttributesInv, InHandler, Post, Request, Doing, TypeOK
<1>2. made \in Held
  BY <1>1, Kind, StoredType DEF TypeOK, WellFormed
<1>3. server' = made /\ Proceed(made)
  BY DEF Post, Request, Effect
<1>4. UNCHANGED <<kind, style, config, drifted>>
  BY DEF Post, Request
<1> HIDE DEF made
<1>5. Len(kind.create) = 1 \/ Len(kind.create) = 2
  BY <1>1, Recipes, Zenon
<1>6. CASE Len(kind.create) = 2
  <2>1. PICK s \in {"get", "try", "suspend"} : Tail(kind.create) = <<s>>
    BY <1>1, <1>6, Recipes, Zenon
  <2>2. Len(steps) # 1
    BY <1>1, <1>6
  <2>3. steps' = Tail(kind.create) /\ answer' = made /\ UNCHANGED <<plan, state, op, verdict>>
    BY <1>1, <1>3, <2>2, Zenon DEF Proceed
  <2>4. steps' # <<>>
    BY <2>1, <2>3
  <2>5. GoesOn
    BY <1>1, <1>3, <1>4, <2>3, <2>4 DEF GoesOn, made
  <2>6. QED
    BY <1>2, <1>3, <2>5
<1>7. CASE Len(kind.create) = 1
  <2>1. Ended(made)
    BY <1>1, <1>3, <1>4, <1>7 DEF Proceed, Ended
  <2>2. kind.post # "never"
    BY <1>1, <1>7, Kind, Recipes DEF WellFormed
  <2>3. plan \in Words => Says(plan, made)
    BY <1>1, <2>2, PostCarriesWords DEF made, Says
  <2>4. QED
    BY <1>2, <1>3, <2>1, <2>3 DEF Faithful
<1>8. QED
  BY <1>5, <1>6, <1>7

LEMMA PatchOutcome ==
    ASSUME AttributesInv, Patch
    PROVE  /\ server' \in Held
           /\ \E api \in Held : Ended(api) /\ (~drifted => Faithful(api))
<1> DEFINE held == Stored(Carried(kind.patch, plan, state), server)
<1>1. TypeOK /\ op = "update" /\ state # None /\ server # None /\ steps = <<"patch">>
      /\ (kind.replace => plan = state)
  BY Recipes DEF AttributesInv, InHandler, Patch, Request, Doing, TypeOK
<1>2. held \in Held
  BY <1>1, Kind, StoredType DEF TypeOK, WellFormed
<1>3. server' = held /\ Proceed(held)
  BY DEF Patch, Request, Effect
<1>4. UNCHANGED <<kind, style, config, drifted>>
  BY DEF Patch, Request
<1>5. ~drifted /\ plan \in Words => Says(plan, held)
  BY <1>1, PatchCarriesWords DEF AttributesInv, TrueUntilPatched
<1> HIDE DEF held
<1>6. Ended(held)
  BY <1>1, <1>3, <1>4 DEF Proceed, Ended
<1>7. QED
  BY <1>2, <1>3, <1>5, <1>6 DEF Faithful

LEMMA AfterPost ==
    ASSUME AttributesInv, NEW s \in {"get", "try", "suspend"}, Doing(s)
    PROVE  /\ TypeOK /\ op = "create" /\ state = None /\ steps = Tail(kind.create)
           /\ Len(steps) = 1 /\ kind.create = <<"post", s>> /\ steps # kind.create
           /\ server \in Held /\ answer \in Held
           /\ ~drifted =>
                 answer = server /\ server = Stored(Carried(kind.post, plan, Null), Initial)
<1>1. TypeOK /\ steps # <<>> /\ Head(steps) = s
  BY DEF AttributesInv, Doing
<1>2. op = "create" /\ steps = Tail(kind.create) /\ state = None
  BY <1>1, Recipes DEF AttributesInv, InHandler, TypeOK
<1>3. Len(kind.create) = 2
  BY <1>1, <1>2, Recipes
<1>4. PICK t \in {"get", "try", "suspend"} : kind.create = <<"post", t>> /\ Tail(kind.create) = <<t>>
  BY <1>1, <1>3, Recipes
<1>5. t = s /\ Len(steps) = 1
  BY <1>1, <1>2, <1>4
<1>6. steps # kind.create
  BY <1>1, <1>2, Recipes
<1>7. QED
  BY <1>1, <1>2, <1>4, <1>5, <1>6 DEF AttributesInv, InHandler, AnswerIsTrue, TypeOK

LEMMA GetOutcome ==
    ASSUME AttributesInv, Get
    PROVE  /\ server' \in Held
           /\ \E api \in Held : Ended(api) /\ (~drifted => Faithful(api))
<1>1. Doing("get") /\ server' = server /\ Proceed(server) /\ UNCHANGED <<kind, style, config, drifted>>
  BY DEF Get, Request, Effect
<1>2. Ended(server)
  BY <1>1, AfterPost DEF Proceed, Ended
<1>3. ~drifted /\ plan \in Words => Says(plan, server')
  BY <1>1, AfterPost, PostCarriesWords, Kind DEF WellFormed, Says
<1>4. QED
  BY <1>1, <1>2, <1>3, AfterPost DEF Faithful

LEMMA TryGetOutcome ==
    ASSUME AttributesInv, TryGet
    PROVE  /\ server' \in Held
           /\ \E api \in Held : Ended(api) /\ (~drifted => Faithful(api))
<1>1. Doing("try") /\ UNCHANGED <<kind, style, config, server, drifted>>
  BY DEF TryGet
<1>2. kind.post # "never" /\ TypeOK
  BY <1>1, AfterPost, Kind DEF WellFormed
<1>3. ~drifted /\ plan \in Words => Says(plan, server')
  BY <1>1, <1>2, AfterPost, PostCarriesWords DEF Says
<1>4. CASE Proceed(server)
  <2>1. Ended(server)
    BY <1>1, <1>4, AfterPost DEF Proceed, Ended
  <2>2. QED
    BY <1>1, <1>3, <2>1, AfterPost DEF Faithful
<1>5. CASE Proceed(IF Unset(plan) THEN answer ELSE plan)
  <2> DEFINE api == IF Unset(plan) THEN answer ELSE plan
  <2>0. Proceed(api)
    BY <1>5
  <2> HIDE DEF api
  <2>1. Ended(api)
    BY <1>1, <2>0, AfterPost DEF Proceed, Ended
  <2>2. CASE ~Unset(plan)
    <3>1. plan \in Held /\ plan \in Values \ {Null} /\ (plan = Blank => kind.text)
      BY <1>2, <2>2, Kind, Distinct DEF TypeOK, Unset, Wanted, Held, Values
    <3>2. ~drifted => Says(plan, server')
      BY <1>1, <1>2, <3>1, AfterPost, PostCarriesTexts
    <3>3. QED
      BY <1>1, <2>1, <2>2, <3>1, <3>2, AfterPost DEF Faithful, api
  <2>3. CASE Unset(plan)
    <3>1. Ended(answer)
      BY <2>1, <2>3 DEF api
    <3>2. plan \notin Words
      BY <2>3, Distinct DEF Unset
    <3>3. QED
      BY <1>1, <3>1, <3>2, AfterPost DEF Faithful
  <2>4. QED
    BY <2>2, <2>3
<1>6. QED
  BY <1>4, <1>5 DEF TryGet

LEMMA SuspendOutcome ==
    ASSUME AttributesInv, Suspend
    PROVE  /\ server' \in Held
           /\ \E api \in Held : Ended(api) /\ (~drifted => Faithful(api))
<1>1. CASE Unset(plan) \/ plan = answer
  <2>1. Doing("suspend") /\ Proceed(answer) /\ UNCHANGED <<kind, style, config, server, drifted>>
    BY <1>1 DEF Suspend
  <2>2. Ended(answer)
    <3>1. Len(steps) = 1
      BY <2>1, AfterPost, Zenon
    <3>2. ~(Len(steps) > 1)
      BY <3>1
    <3>3. QED
      BY <2>1, <3>2, Zenon DEF Proceed, Ended
  <2>3. plan \in Words => plan = answer
    BY <1>1, Distinct DEF Unset
  <2>4. ~drifted => Faithful(answer)
    BY <2>1, <2>3, AfterPost DEF Faithful, Says
  <2>5. QED
    BY <2>1, <2>2, <2>4, AfterPost
<1>2. CASE ~(Unset(plan) \/ plan = answer)
  <2>1. Doing("suspend") /\ server' = plan /\ Proceed(plan)
        /\ UNCHANGED <<kind, style, config, drifted>>
    BY <1>2 DEF Suspend, Request, Effect
  <2>2. plan \in Held
    BY <1>2, <2>1, AfterPost, Kind DEF TypeOK, Unset
  <2>3. Ended(plan)
    <3>1. Len(steps) = 1
      BY <2>1, AfterPost, Zenon
    <3>2. ~(Len(steps) > 1)
      BY <3>1
    <3>3. QED
      BY <2>1, <3>2, Zenon DEF Proceed, Ended
  <2>4. QED
    BY <2>1, <2>2, <2>3 DEF Faithful, Says
<1>3. QED
  BY <1>1, <1>2

LEMMA HandlerOutcome ==
    ASSUME AttributesInv, Handler
    PROVE  /\ server' \in Held
           /\ \/ GoesOn
              \/ \E api \in Held : Ended(api) /\ (~drifted => Faithful(api))
  BY PostOutcome, PatchOutcome, GetOutcome, TryGetOutcome, SuspendOutcome DEF Handler

----------------------------------------------------------------------------
(* The inductive invariant.                                                *)

\* A handler that ends well leaves in the state what is true of the server, and
\* what was planned if the server could carry it out.
LEMMA EndKeeps ==
    ASSUME AttributesInv, op # "idle", server' \in Held,
           NEW api \in Held, Ended(api), ~drifted => Faithful(api)
    PROVE  /\ AttributesInv'
           /\ ~drifted /\ Feasible(plan, server') => verdict' = "ok"
<1>1. TypeOK /\ plan \in Wanted \cup {Unknown}
      /\ (plan = Unknown => kind.schema # "optional") /\ (plan = Null => kind.schema = "optional")
  BY PlannedFacts DEF AttributesInv, InHandler
<1>2. state' = Recorded(plan, api) /\ state' \in Wanted
  BY <1>1, RecordedType DEF Ended
<1>3. ~drifted => Says(state', server')
  <2>1. CASE api = server'
    <3>1. ~drifted /\ plan \in Words => Says(plan, api)
      BY <2>1 DEF Faithful
    <3>2. QED
      BY <1>1, <1>2, <2>1, <3>1, RecordedTrue
  <2>2. CASE ~drifted /\ api = plan /\ plan \in Values \ {Null} /\ Says(plan, server')
    <3>1. plan \in Wanted /\ Says(plan, api) /\ Feasible(plan, api)
      BY <1>1, <2>2, Distinct DEF Says, Feasible, Values
    <3>2. state' = plan
      BY <1>1, <1>2, <3>1, RecordedAsPlanned
    <3>3. QED
      BY <2>2, <3>2
  <2>3. QED
    BY <2>1, <2>2 DEF Faithful
<1>4. ~drifted /\ Feasible(plan, server') => verdict' = "ok"
  <2>1. CASE plan = Unknown
    <3>1. state' # Unknown
      BY <1>1, <1>2, Kind, Distinct DEF Values
    <3>2. QED
      BY <2>1, <3>1 DEF Ended, Verdict
  <2>2. CASE plan \in Wanted /\ ~drifted /\ Feasible(plan, server')
    <3>1. CASE api = server'
      <4>1. plan \in Words => Says(plan, api)
        BY <2>2, <3>1 DEF Faithful
      <4>2. state' = plan
        BY <1>1, <1>2, <2>2, <3>1, <4>1, RecordedAsPlanned
      <4>3. QED
        BY <4>2 DEF Ended, Verdict
    <3>2. CASE api = plan
      <4>1. Says(plan, api) /\ Feasible(plan, api)
        BY <3>2 DEF Says, Feasible
      <4>2. state' = plan
        BY <1>1, <1>2, <2>2, <4>1, RecordedAsPlanned
      <4>3. QED
        BY <4>2 DEF Ended, Verdict
    <3>3. QED
      BY <2>2, <3>1, <3>2 DEF Faithful
  <2>3. QED
    BY <1>1, <2>1, <2>2
<1>5. UNCHANGED <<Wanted, Held>>
  BY DEF Ended, Wanted, Held
<1>6. TypeOK'
  <2>1. Null \in Wanted /\ Null \in Values
    BY DEF Wanted, Values
  <2>2. verdict' \in {"ok", "inconsistent", "tainted"}
    BY DEF Ended, Verdict
  <2>3. QED
    BY <1>1, <1>2, <1>5, <2>1, <2>2 DEF TypeOK, Ended
<1>7. InHandler'
  <2>1. state' # None /\ server' # None
    BY <1>1, <1>2, Kind, Distinct DEF Values
  <2>2. QED
    BY <2>1 DEF InHandler, Ended
<1>8. TrueUntilPatched' /\ AnswerIsTrue'
  BY <1>3 DEF TrueUntilPatched, AnswerIsTrue, Ended, Says
<1>9. QED
  BY <1>4, <1>6, <1>7, <1>8 DEF AttributesInv

LEMMA GoesOnKeeps ==
    ASSUME AttributesInv, server' \in Held, GoesOn
    PROVE  AttributesInv'
<1>1. TypeOK /\ state = None /\ plan = Planned
  BY DEF AttributesInv, InHandler, GoesOn
<1>2. UNCHANGED <<Wanted, Held, Planned, Initial>>
  BY DEF GoesOn, Wanted, Held, Planned, Initial
<1>3. Held \subseteq Values
  BY <1>1, Kind
<1>4. TypeOK'
  BY <1>1, <1>2, <1>3 DEF TypeOK, GoesOn
<1>5. InHandler'
  <2>1. server' # None
    BY <1>3, Distinct DEF Values
  <2>2. steps' # kind'.create
    BY <1>1, Recipes DEF GoesOn
  <2>3. QED
    BY <1>1, <1>2, <2>1, <2>2 DEF InHandler, GoesOn
<1>6. TrueUntilPatched'
  BY DEF TrueUntilPatched, GoesOn
<1>7. AnswerIsTrue'
  <2>1. UNCHANGED Carried(kind.post, plan, Null)
    BY DEF GoesOn
  <2>2. UNCHANGED Stored(Carried(kind.post, plan, Null), Initial)
    BY <1>2, <2>1 DEF GoesOn, Stored
  <2>3. answer' \in Held' /\ answer' = server'
    BY <1>2 DEF GoesOn
  <2>4. server' = Stored(Carried(kind.post, plan, Null), Initial)'
    BY <2>2 DEF GoesOn
  <2>5. QED
    BY <2>3, <2>4 DEF AnswerIsTrue
<1>8. QED
  BY <1>4, <1>5, <1>6, <1>7 DEF AttributesInv

\* A handler that fails leaves the state alone, and owns up to an update that
\* took effect all the same.
LEMMA FailKeeps ==
    ASSUME AttributesInv, op # "idle", NEW held, state # None => held \in Held,
           Fail(held), UNCHANGED <<kind, style, config>>
    PROVE  AttributesInv'
<1>1. TypeOK
  BY DEF AttributesInv
<1>2. UNCHANGED <<Wanted, Held>>
  BY DEF Wanted, Held
<1>3. TypeOK'
  <2>1. Null \in Wanted /\ Null \in Values
    BY DEF Wanted, Values
  <2>2. QED
    BY <1>1, <1>2, <2>1 DEF TypeOK, Fail
<1>4. InHandler'
  <2>1. state # None => held # None
    BY <1>1, Kind, Distinct DEF Values
  <2>2. QED
    BY <2>1 DEF InHandler, Fail
<1>5. TrueUntilPatched'
  <2>1. state # None => op # "create"
    BY DEF AttributesInv, InHandler
  <2>2. QED
    BY <2>1 DEF AttributesInv, TrueUntilPatched, Fail, Says
<1>6. AnswerIsTrue'
  BY DEF AnswerIsTrue, Fail
<1>7. QED
  BY <1>3, <1>4, <1>5, <1>6 DEF AttributesInv

\* What Error may leave on the server of an update.
LEMMA ErrorOutcome ==
    ASSUME AttributesInv, Error
    PROVE  /\ op # "idle"
           /\ \E held : /\ Fail(held) /\ UNCHANGED <<kind, style, config>>
                        /\ state # None => held \in Held
                        /\ state # None => held \in {server, Effect("patch")}
<1>0. PICK step \in {"post", "patch", "get", "suspend"} :
         Doing(step) /\ \E held \in {server, Effect(step)} : Fail(held)
  BY DEF Error
<1>1. PICK held \in {server, Effect(step)} : Doing(step) /\ Fail(held)
  BY <1>0
<1>2. UNCHANGED <<kind, style, config>>
  BY DEF Error
<1>3. op # "idle"
  BY <1>1 DEF AttributesInv, InHandler, Doing
<1>4. ASSUME state # None
      PROVE  held \in Held /\ held \in {server, Effect("patch")}
  <2>1. TypeOK /\ op = "update" /\ steps = <<"patch">> /\ server \in Held
    BY <1>3, <1>4 DEF AttributesInv, InHandler, TypeOK
  <2>2. step = "patch"
    BY <1>1, <2>1 DEF Doing
  <2>3. Effect("patch") \in Held
    BY <2>1, Kind, StoredType DEF Effect, TypeOK, WellFormed
  <2>4. QED
    BY <1>1, <2>1, <2>2, <2>3
<1>5. QED
  BY <1>1, <1>2, <1>3, <1>4

LEMMA InitInv == Init => AttributesInv
<1> SUFFICES ASSUME Init PROVE AttributesInv
  OBVIOUS
<1>1. TypeOK
  BY DEF TypeOK, Init, Wanted, Values
<1>2. InHandler /\ TrueUntilPatched /\ AnswerIsTrue
  BY DEF Init, InHandler, TrueUntilPatched, AnswerIsTrue
<1>3. QED
  BY <1>1, <1>2 DEF AttributesInv

\* Between handlers Terraform plans, refreshes, imports and replaces.
LEMMA StartKeeps ==
    ASSUME AttributesInv, StartCreate \/ StartUpdate
    PROVE  AttributesInv'
<1>1. TypeOK /\ op = "idle" /\ UNCHANGED <<kind, style, config, state, server, answer, verdict>>
  BY DEF AttributesInv, StartCreate, StartUpdate, Start
<1>2. UNCHANGED <<Wanted, Held, Planned, Initial>> /\ plan' = Planned
  BY <1>1 DEF StartCreate, StartUpdate, Start, Wanted, Held, Planned, Initial
<1>3. (state = None <=> server = None) /\ (state # None /\ ~drifted => Says(state, server))
  BY <1>1 DEF AttributesInv, InHandler, TrueUntilPatched
<1>4. CASE StartCreate
  <2>1. state = None /\ op' = "create" /\ steps' = kind'.create /\ drifted' = FALSE
    BY <1>4 DEF StartCreate, Start
  <2>2. TypeOK'
    BY <1>1, <1>2, <2>1, PlannedFacts DEF TypeOK
  <2>3. steps' # <<>>
    BY <1>1, <2>1, Recipes
  <2>4. InHandler'
    BY <1>1, <1>2, <1>3, <2>1, <2>3 DEF InHandler
  <2>5. TrueUntilPatched' /\ AnswerIsTrue'
    BY <2>1 DEF TrueUntilPatched, AnswerIsTrue
  <2>6. QED
    BY <2>2, <2>4, <2>5 DEF AttributesInv
<1>5. CASE StartUpdate
  <2>1. state # None /\ op' = "update" /\ steps' = <<"patch">> /\ drifted' = drifted
    BY <1>5 DEF StartUpdate, Start
  <2>2. kind'.replace => plan' = state'
    BY <1>1, <1>2, <1>5 DEF StartUpdate, Unusable
  <2>3. TypeOK'
    BY <1>1, <1>2, <2>1, PlannedFacts DEF TypeOK
  <2>4. InHandler'
    BY <1>1, <1>2, <1>3, <2>1, <2>2 DEF InHandler
  <2>5. TrueUntilPatched' /\ AnswerIsTrue'
    BY <1>1, <1>3, <2>1 DEF TrueUntilPatched, AnswerIsTrue, Says
  <2>6. QED
    BY <2>3, <2>4, <2>5 DEF AttributesInv
<1>6. QED
  BY <1>4, <1>5

LEMMA SetConfigKeeps ==
    ASSUME AttributesInv, SetConfig
    PROVE  AttributesInv'
<1>1. op = "idle" /\ config' \in Wanted /\ Wanted' = Wanted /\ Held' = Held
      /\ UNCHANGED <<kind, style, plan, state, server, op, steps, answer, verdict, drifted>>
  BY DEF SetConfig, Wanted, Held
<1>2. TypeOK'
  BY <1>1 DEF AttributesInv, TypeOK
<1>3. InHandler' /\ TrueUntilPatched' /\ AnswerIsTrue'
  BY <1>1 DEF AttributesInv, InHandler, TrueUntilPatched, AnswerIsTrue, Says
<1>4. QED
  BY <1>2, <1>3 DEF AttributesInv

LEMMA ReplaceKeeps ==
    ASSUME AttributesInv, Replace
    PROVE  AttributesInv'
<1>1. op = "idle" /\ state' = None /\ server' = None /\ verdict' = "ok"
      /\ Wanted' = Wanted /\ Held' = Held
      /\ UNCHANGED <<kind, style, config, plan, op, steps, answer, drifted>>
  BY DEF Replace, Wanted, Held
<1>2. TypeOK'
  BY <1>1 DEF AttributesInv, TypeOK
<1>3. InHandler' /\ TrueUntilPatched' /\ AnswerIsTrue'
  BY <1>1 DEF AttributesInv, InHandler, TrueUntilPatched, AnswerIsTrue
<1>4. QED
  BY <1>2, <1>3 DEF AttributesInv

\* A Read takes from the server what is true of it.
LEMMA ReadKeeps ==
    ASSUME AttributesInv, Refresh \/ Import
    PROVE  AttributesInv'
<1>1. TypeOK /\ op = "idle" /\ drifted' = FALSE /\ Wanted' = Wanted /\ Held' = Held
      /\ UNCHANGED <<kind, style, config, plan, op, steps, answer, verdict>>
  BY DEF AttributesInv, Refresh, Import, Wanted, Held
<1>2. /\ server' \in Held
      /\ \E prior \in Wanted : state' = Reread(prior, server')
  <2>1. CASE Refresh
    BY <1>1, <2>1 DEF Refresh, AttributesInv, InHandler, TypeOK
  <2>2. CASE Import
    <3>1. Null \in Wanted
      BY DEF Wanted, Values
    <3>2. QED
      BY <2>2, <3>1 DEF Import
  <2>3. QED
    BY <2>1, <2>2
<1>3. state' \in Wanted /\ Says(state', server')
  BY <1>1, <1>2, RereadTrue
<1>4. TypeOK'
  BY <1>1, <1>2, <1>3 DEF TypeOK
<1>5. InHandler'
  <2>1. state' # None /\ server' # None
    BY <1>1, <1>2, <1>3, Kind, Distinct DEF Values
  <2>2. QED
    BY <1>1, <2>1 DEF AttributesInv, InHandler
<1>6. TrueUntilPatched' /\ AnswerIsTrue'
  BY <1>1, <1>3 DEF TrueUntilPatched, AnswerIsTrue, Says
<1>7. QED
  BY <1>4, <1>5, <1>6 DEF AttributesInv

LEMMA SomebodyKeeps ==
    ASSUME AttributesInv, Somebody
    PROVE  AttributesInv'
<1>1. server # None /\ server' \in Held /\ drifted' = TRUE /\ Wanted' = Wanted /\ Held' = Held
      /\ UNCHANGED <<kind, style, config, plan, state, op, steps, answer, verdict, Planned>>
  BY DEF Somebody, Wanted, Held, Planned
<1>2. TypeOK'
  BY <1>1 DEF AttributesInv, TypeOK
<1>3. server' # None
  BY <1>1, Kind, Distinct DEF AttributesInv, Values
<1>4. InHandler'
  BY <1>1, <1>3 DEF AttributesInv, InHandler
<1>5. TrueUntilPatched' /\ AnswerIsTrue'
  BY <1>1 DEF AttributesInv, TrueUntilPatched, AnswerIsTrue
<1>6. QED
  BY <1>2, <1>4, <1>5 DEF AttributesInv

LEMMA HandlerKeeps ==
    ASSUME AttributesInv, Handler
    PROVE  /\ AttributesInv' /\ op # "idle" /\ UNCHANGED drifted
           /\ op' = "idle" /\ ~drifted /\ Feasible(plan, server') => verdict' = "ok"
<1>1. op # "idle"
  BY DEF AttributesInv, InHandler, Handler, Post, Patch, Get, TryGet, Suspend, Request, Doing
<1>2. PICK ended \in BOOLEAN :
         server' \in Held /\ IF ended THEN \E api \in Held : Ended(api) /\ (~drifted => Faithful(api))
                             ELSE GoesOn
  BY HandlerOutcome
<1>3. CASE ~ended
  BY <1>1, <1>2, <1>3, GoesOnKeeps DEF GoesOn
<1>4. CASE ended
  <2>1. PICK api \in Held : Ended(api) /\ (~drifted => Faithful(api))
    BY <1>2, <1>4
  <2>2. QED
    BY <1>1, <1>2, <2>1, EndKeeps DEF Ended
<1>5. QED
  BY <1>3, <1>4

LEMMA NextKeeps ==
    ASSUME AttributesInv, [Next]_vars
    PROVE  AttributesInv'
<1>1. CASE Error
  <2>1. PICK held : Fail(held) /\ UNCHANGED <<kind, style, config>> /\ (state # None => held \in Held)
    BY <1>1, ErrorOutcome
  <2>2. QED
    BY <1>1, <2>1, ErrorOutcome, FailKeeps
<1>2. CASE UNCHANGED vars
  <2>1. UNCHANGED <<Wanted, Held, Planned, Initial, Carried(kind.post, plan, Null)>>
    BY <1>2 DEF vars, Wanted, Held, Planned, Initial
  <2>2. TypeOK'
    BY <1>2, <2>1 DEF vars, AttributesInv, TypeOK
  <2>3. InHandler' /\ TrueUntilPatched'
    BY <1>2, <2>1 DEF vars, AttributesInv, InHandler, TrueUntilPatched, Says
  <2>4. AnswerIsTrue'
    <3>1. UNCHANGED Stored(Carried(kind.post, plan, Null), Initial)
      BY <1>2, <2>1 DEF vars, Stored
    <3>2. QED
      BY <1>2, <2>1, <3>1 DEF vars, AttributesInv, AnswerIsTrue
  <2>5. QED
    BY <2>2, <2>3, <2>4 DEF AttributesInv
<1>3. QED
  BY <1>1, <1>2, SetConfigKeeps, StartKeeps, ReplaceKeeps, ReadKeeps, SomebodyKeeps, HandlerKeeps
     DEF Next

----------------------------------------------------------------------------
(* The theorems.                                                           *)

\* Of every attribute that is declared like WellFormed says, whatever the server
\* makes of texts, the handlers keep the invariant.
THEOREM AttributesInvariant == Spec => []AttributesInv
  BY InitInv, NextKeeps, PTL DEF Spec

\* Attribute values have their types: nothing unknown is ever recorded.
THEOREM TypeOKHolds == Spec => []TypeOK
<1>1. AttributesInv => TypeOK
  BY DEF AttributesInv
<1>2. QED
  BY <1>1, AttributesInvariant, PTL

\* Recorded: unless others edit the object or an answer is lost, the state says
\* of it what is true.
THEOREM StateIsTrueHolds == Spec => []StateIsTrue
<1>1. AttributesInv => StateIsTrue
  BY DEF AttributesInv, TrueUntilPatched, StateIsTrue
<1>2. QED
  BY <1>1, AttributesInvariant, PTL

\* Create, Update: an apply that nobody interferes with leaves what was planned.
THEOREM AppliedAsPlannedHolds == Spec => AppliedAsPlanned
<1>1. ASSUME AttributesInv, [Next]_vars
      PROVE  [op # "idle" /\ op' = "idle" /\ verdict' \in {"inconsistent", "tainted"} /\ verdict' # verdict
                => drifted \/ ~Feasible(plan, server')]_vars
  <2> SUFFICES ASSUME op # "idle", op' = "idle", verdict' # verdict, verdict' # "ok"
               PROVE  drifted \/ ~Feasible(plan, server')
    OBVIOUS
  <2>1. CASE Handler
    BY <1>1, <2>1, HandlerKeeps
  <2>2. CASE Error
    BY <2>2, <1>1, ErrorOutcome DEF Fail
  <2>3. QED
    BY <1>1, <2>1, <2>2
       DEF Next, vars, SetConfig, StartCreate, StartUpdate, Start, Replace, Import, Refresh, Somebody
<1>2. QED
  BY <1>1, AttributesInvariant, PTL DEF Spec, AppliedAsPlanned

\* What the configuration leaves to others an update either does not carry, or
\* repeats as the state has it.
LEMMA UnmanagedEffect ==
    ASSUME AttributesInv, op = "update", plan \notin {config, Unknown}, Effect("patch") # server
    PROVE  drifted /\ kind.patch = "known"
<1>1. TypeOK /\ plan = Planned /\ state # None /\ server # None
  BY DEF AttributesInv, InHandler
<1>2. kind.schema = "preserved" /\ plan = state /\ plan \notin {Null, Unknown}
  BY <1>1, PlannedFacts
<1>3. kind.patch \in {"never", "known", "changed"} /\ (kind.patch = "known" => ~kind.text)
  BY <1>1, <1>2, Kind DEF WellFormed
<1>4. Effect("patch") = Stored(Carried(kind.patch, plan, state), server)
  BY DEF Effect
<1>5. kind.patch = "known"
  BY <1>2, <1>3, <1>4 DEF Carried, changedStringPtr, Stored, Unsent
<1>6. plan \in Words
  BY <1>1, <1>2, <1>3, <1>5, Distinct DEF TypeOK, Wanted
<1>7. Effect("patch") = plan
  BY <1>2, <1>4, <1>5, <1>6, Distinct DEF Carried, optionalStringPtr, Unset, Stored
<1>8. plan # server => drifted
  <2>1. ~drifted => Says(plan, server)
    BY <1>1, <1>2 DEF AttributesInv, TrueUntilPatched
  <2>2. kind.record \notin {"overlay", "planned"} /\ server \in Words
    BY <1>1, <1>2, <1>3, <1>5, Kind DEF WellFormed, TypeOK, Held
  <2>3. QED
    BY <1>6, <2>1, <2>2, Distinct DEF Says
<1>9. QED
  BY <1>5, <1>7, <1>8

\* Update: an apply does not touch what the configuration leaves to others.
THEOREM UnmanagedUntouchedHolds == Spec => UnmanagedUntouched
<1>1. ASSUME AttributesInv, [Next]_vars
      PROVE  [op = "update" /\ plan \notin {config, Unknown} /\ server' # server /\ op' = "idle"
                => drifted /\ kind.patch = "known"]_vars
  <2> SUFFICES ASSUME op = "update", plan \notin {config, Unknown}, server' # server, op' = "idle"
               PROVE  drifted /\ kind.patch = "known"
    OBVIOUS
  <2>0. steps = <<"patch">> /\ state # None
    BY <1>1 DEF AttributesInv, InHandler
  <2>1. CASE Handler
    <3>1. Patch
      BY <2>0, <2>1 DEF Handler, Post, Get, TryGet, Suspend, Request, Doing
    <3>2. QED
      BY <1>1, <3>1, UnmanagedEffect DEF Patch, Request
  <2>2. CASE Error
    <3>1. server' \in {server, Effect("patch")}
      BY <1>1, <2>0, <2>2, ErrorOutcome DEF Fail
    <3>2. QED
      BY <1>1, <3>1, UnmanagedEffect
  <2>3. QED
    BY <1>1, <2>1, <2>2
       DEF Next, vars, SetConfig, StartCreate, StartUpdate, Start, Replace, Import, Refresh, Somebody
<1>2. QED
  BY <1>1, AttributesInvariant, PTL DEF Spec, UnmanagedUntouched
=============================================================================
