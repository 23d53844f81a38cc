----------------------------- MODULE Attributes -----------------------------
(***************************************************************************)
(* One attribute of one resource on its way from the configuration through *)
(* the plan and the request to the server, and with the answer back into   *)
(* the state (the input, changed* and set* functions of                    *)
(* internal/provider/*_resource.go, terraform_values.go and schedule.go).  *)
(*                                                                         *)
(* A text may be null or blank; a choice (an enumeration, a bool, a JSON   *)
(* object) always has a value on the server.  A record per attribute says  *)
(* how it is declared, when POST and PATCH carry it, and what becomes of   *)
(* the answer.  ResourceLifecycle has the calls of the handlers and their  *)
(* errors; here they matter as far as they leave state and server apart.   *)
(***************************************************************************)
EXTENDS Naturals, Sequences

CONSTANTS
    Words,     \* values with a content
    Default,   \* the one of them the server takes for a choice nobody made
    None,      \* no resource in the state, no object on the server
    Kinds      \* the attributes under consideration

Null    == "null"      \* unset, in Terraform and in JSON
Blank   == ""
Unknown == "unknown"   \* known after apply
Unsent  == "unsent"    \* left out of the request

ASSUME AttributesAssumption ==
    /\ Default \in Words
    /\ Words \cap {Null, Blank, Unknown, Unsent} = {}
    /\ None \notin Words \cup {Null, Blank, Unknown, Unsent}

----------------------------------------------------------------------------
(* The attributes.                                                         *)

Optional(text, post, patch, record) ==
    [schema |-> "optional", replace |-> FALSE, import |-> TRUE, text |-> text,
     create |-> <<"post">>, post |-> post, patch |-> patch, record |-> record]
Preserved(text, post, patch, record) ==   \* Optional and Computed, UseStateForUnknown
    [Optional(text, post, patch, record) EXCEPT !.schema = "preserved"]
Computed(text, post, patch, record) ==    \* Optional and Computed
    [Optional(text, post, patch, record) EXCEPT !.schema = "computed"]
Replacing(text, post, record) ==          \* RequiresReplace
    [Optional(text, post, "never", record) EXCEPT !.replace = TRUE]

teamDescription       == Optional(TRUE, "nonempty", "changed", "mirror")
teamVisibility        == Preserved(FALSE, "nonempty", "changed", "string")
folderDescription     == Preserved(TRUE, "nonempty", "changed", "string")
memberType            == Preserved(FALSE, "nonempty", "changed", "string")
tagDescription        == [Optional(TRUE, "known", "changed", "keep")
                            EXCEPT !.create = <<"post", "try">>]
userAttributeText     == Replacing(TRUE, "nonempty", "mirror")   \* description
userAttributeDefault  == Replacing(TRUE, "known", "mirror")
connectorDescription  == Optional(TRUE, "nonempty", "nonempty", "blankIsNull")
credentialDescription == Optional(TRUE, "nonempty", "nonempty", "blankIsNull")
connectorAuth         == Computed(TRUE, "known", "known", "mirror")
connectionPoolSizes   == Preserved(FALSE, "known", "known", "keep")
connectionFriendly    == Preserved(FALSE, "known", "known", "string")
policyNameInTenant    == [Computed(FALSE, "known", "known", "string")
                            EXCEPT !.create = <<"post", "get">>]
tenantCloudProvider   == Replacing(FALSE, "known", "planned")
embedSource           == [Replacing(TRUE, "nonempty", "overlay")
                            EXCEPT !.create = <<"post", "try">>]
scheduleKey           == [Optional(FALSE, "known", "known", "overlay")
                            EXCEPT !.import = FALSE]
scheduleSuspended     == [Preserved(FALSE, "never", "changed", "asPlanned")
                            EXCEPT !.create = <<"post", "suspend">>, !.import = FALSE]

\* What the declarations of all attributes have in common.  What the answer may
\* leave unknown is never unknown in the plan; a plain Go string, which cannot be
\* null, is never planned as null; what PATCH never carries cannot be updated,
\* and what POST never carries has a request of its own; what an update repeats
\* in full is no text, of which the server may keep another form.
WellFormed(k) ==
    /\ k \in [schema : {"optional", "preserved", "computed"},
               replace : BOOLEAN, import : BOOLEAN, text : BOOLEAN,
               create : {<<"post">>, <<"post", "get">>, <<"post", "try">>, <<"post", "suspend">>},
               post : {"never", "known", "nonempty"},
               patch : {"never", "known", "nonempty", "changed"},
               record : {"mirror", "string", "blankIsNull", "keep", "overlay", "asPlanned", "planned"}]
    /\ k.record \in {"overlay", "planned"} => k.schema = "optional"
    /\ k.record = "string" => k.schema # "optional"
    /\ k.record = "asPlanned" => ~k.text /\ k.create = <<"post", "suspend">>
    /\ k.post = "never" => k.record = "asPlanned"
    /\ k.patch = "never" => k.replace
    /\ k.schema = "preserved" => k.patch # "nonempty" /\ (k.patch = "known" => ~k.text)

ASSUME KindsAssumption == \A k \in Kinds : WellFormed(k)

----------------------------------------------------------------------------
VARIABLES
    kind,      \* the attribute
    style,     \* what this server makes of a text that is not set, or is blank
    config,    \* the value in the configuration, Null without one
    plan,      \* the planned value of the handler that runs
    state,     \* the value in the Terraform state, None without a resource
    server,    \* the value of the object, None without one
    op,        \* the handler that runs
    steps,     \* the requests it has still to make
    answer,    \* the value in the last answer
    verdict,   \* how the last apply ended
    drifted    \* history: edited by others, or an answer lost, since the last refresh

vars == <<kind, style, config, plan, state, server, op, steps, answer, verdict, drifted>>

Values == {Null, Blank} \cup Words
Held   == IF kind.text THEN Values ELSE Words              \* by the server
Wanted == IF kind.text THEN Values ELSE Words \cup {Null}  \* by the user

Styles == {[unset |-> Null,  blank |-> Blank], [unset |-> Blank, blank |-> Blank],
           [unset |-> Null,  blank |-> Null]}

Init ==
    /\ kind \in Kinds
    /\ style \in Styles
    /\ config \in Wanted
    /\ plan = Null
    /\ state = None
    /\ server = None
    /\ op = "idle"
    /\ steps = <<>>
    /\ answer = Null
    /\ verdict = "ok"
    /\ drifted = FALSE

----------------------------------------------------------------------------
(* Terraform (external).                                                   *)

Planned ==
    IF config # Null THEN config
    ELSE IF kind.schema = "optional" THEN Null
    ELSE IF kind.schema = "preserved" /\ state \notin {None, Null} THEN state
    ELSE Unknown

SetConfig ==
    /\ op = "idle"
    /\ config' \in Wanted \ {config}
    /\ UNCHANGED <<kind, style, plan, state, server, op, steps, answer, verdict, drifted>>

Start(handler, recipe) ==
    /\ op = "idle"
    /\ op' = handler
    /\ steps' = recipe
    /\ plan' = Planned
    /\ UNCHANGED <<kind, style, config, state, server, answer, verdict>>

StartCreate == state = None /\ Start("create", kind.create) /\ drifted' = FALSE

\* A tainted object is replaced, and so is one whose attribute cannot change.
Unusable == verdict = "tainted" \/ (kind.replace /\ Planned # state)

\* Because of this attribute or of another one of the resource.
StartUpdate ==
    /\ state # None /\ ~Unusable /\ Start("update", <<"patch">>)
    /\ UNCHANGED drifted

Replace ==
    /\ op = "idle" /\ state # None /\ Unusable
    /\ state' = None
    /\ server' = None
    /\ verdict' = "ok"
    /\ UNCHANGED <<kind, style, config, plan, op, steps, answer, drifted>>

\* Other people edit the object.
Somebody ==
    /\ server # None
    /\ server' \in Held \ {server}
    /\ drifted' = TRUE
    /\ UNCHANGED <<kind, style, config, plan, state, op, steps, answer, verdict>>

----------------------------------------------------------------------------
(* What a request carries.                                                  *)

Unset(value) == value \in {Null, Unknown}

optionalStringPtr(value) == IF Unset(value) THEN Unsent ELSE value
OmitEmpty(value) == IF Unset(value) \/ value = Blank THEN Unsent ELSE value

\* Variant: what is known is sent, whether or not it changed.
changedStringPtrAnyway(value, old) == IF Unset(value) THEN Unsent ELSE value
changedStringPtr(value, old) == IF Unset(value) \/ value = old THEN Unsent ELSE value

Carried(rule, value, old) ==
    CASE rule = "never"    -> Unsent
      [] rule = "known"    -> optionalStringPtr(value)
      [] rule = "nonempty" -> OmitEmpty(value)
      [] rule = "changed"  -> changedStringPtr(value, old)

\* What the server (external) holds after a request with this value.
Stored(sent, before) ==
    IF sent = Unsent THEN before ELSE IF sent = Blank THEN style.blank ELSE sent
Initial == IF kind.text THEN style.unset ELSE Default

(* What a handler records of an answer: prior is the plan or, in Read, the   *)
(* state.                                                                   *)

\* A text that is null in JSON is blank in a Go string.
Text(api) == IF api = Null THEN Blank ELSE api

\* Variant: a blank text is recorded as such.
optionalAPIStringBlank(prior, api) == Text(api)
optionalAPIString(prior, api) ==
    IF Text(api) = Blank /\ Unset(prior) THEN Null ELSE Text(api)

\* A pointer of the answer: without a value the attribute stays as it is.
KeepPrior(prior, api) ==
    IF api # Null THEN api ELSE IF prior = Unknown THEN Null ELSE prior

\* Variant: what is configured is kept, whatever the answer says.
overlayConfiguredJSONKeeps(prior, api) == prior
overlayConfiguredJSON(prior, api) ==
    IF prior = Null \/ api \in {Null, Blank} THEN prior ELSE api

scheduleIsSuspended(prior, api) == IF Unset(prior) THEN api ELSE prior

Recorded(prior, api) ==
    CASE kind.record = "mirror"      -> api
      [] kind.record = "string"      -> Text(api)
      [] kind.record = "blankIsNull" -> optionalAPIString(prior, api)
      [] kind.record = "keep"        -> KeepPrior(prior, api)
      [] kind.record = "overlay"     -> overlayConfiguredJSON(prior, api)
      [] kind.record = "asPlanned"   -> scheduleIsSuspended(prior, api)
      [] kind.record = "planned"     -> prior

\* A Read of a schedule takes what the API says.
Reread(prior, api) == IF kind.record = "asPlanned" THEN api ELSE Recorded(prior, api)

----------------------------------------------------------------------------
(* The handlers.                                                           *)

\* Terraform's check that what was known of the plan has come true, and nothing
\* is unknown any more (external).
Verdict(recorded) ==
    IF recorded = plan \/ (plan = Unknown /\ recorded # Unknown) THEN "ok"
    ELSE IF op = "create" THEN "tainted" ELSE "inconsistent"

\* The next request or, after the last one, State.Set.
Proceed(api) ==
    \/ /\ Len(steps) > 1
       /\ steps' = Tail(steps)
       /\ answer' = api
       /\ UNCHANGED <<plan, state, op, verdict>>
    \/ /\ Len(steps) = 1
       /\ op' = "idle" /\ steps' = <<>> /\ plan' = Null /\ answer' = Null
       /\ state' = Recorded(plan, api)
       /\ verdict' = Verdict(state')

\* An error ends the handler; an object made meanwhile is no longer this one's.
Fail(held) ==
    /\ op' = "idle" /\ steps' = <<>> /\ plan' = Null /\ answer' = Null
    /\ server' = IF state = None THEN None ELSE held
    /\ verdict' = IF state = None THEN "ok" ELSE verdict
    /\ drifted' = (drifted \/ (state # None /\ held # server))
    /\ UNCHANGED state

Doing(step) == steps # <<>> /\ Head(steps) = step

\* What the object holds after a request.
Effect(step) ==
    CASE step = "post"    -> Stored(Carried(kind.post, plan, Null), Initial)
      [] step = "patch"   -> Stored(Carried(kind.patch, plan, state), server)
      [] step = "suspend" -> plan
      [] step = "get"     -> server

Request(step) ==
    /\ Doing(step)
    /\ server' = Effect(step)
    /\ Proceed(Effect(step))
    /\ UNCHANGED <<kind, style, config, drifted>>

Post  == Request("post")
Patch == Request("patch")
Get   == Request("get")     \* the GET after a create

\* The GET after a create whose failure is ignored: what is recorded is then
\* what was asked for or, without that, the answer of the POST.
TryGet ==
    /\ Doing("try")
    /\ Proceed(server) \/ Proceed(IF Unset(plan) THEN answer ELSE plan)
    /\ UNCHANGED <<kind, style, config, server, drifted>>

\* Variant: a schedule is not paused (or resumed) after it is made.
SuspendSkipped ==
    /\ Doing("suspend")
    /\ Proceed(answer)
    /\ UNCHANGED <<kind, style, config, server, drifted>>

\* applyScheduleCreateSuspension: a PATCH if the answer differs from the plan.
Suspend ==
    IF Unset(plan) \/ plan = answer
    THEN /\ Doing("suspend")
         /\ Proceed(answer)
         /\ UNCHANGED <<kind, style, config, server, drifted>>
    ELSE Request("suspend")

\* An error: the request was refused, or carried out and its answer lost.
Error ==
    /\ \E step \in {"post", "patch", "get", "suspend"} :
          /\ Doing(step)
          /\ step = "suspend" => ~Unset(plan) /\ plan # answer
          /\ \E held \in {server, Effect(step)} : Fail(held)
    /\ UNCHANGED <<kind, style, config>>

\* Read.
Refresh ==
    /\ op = "idle" /\ state # None
    /\ state' = Reread(state, server)
    /\ drifted' = FALSE
    /\ UNCHANGED <<kind, style, config, plan, server, op, steps, answer, verdict>>

\* terraform import of an object somebody made, and the Read that follows.
Import ==
    /\ op = "idle" /\ state = None /\ kind.import
    /\ server' \in Held
    /\ state' = Reread(Null, server')
    /\ drifted' = FALSE
    /\ UNCHANGED <<kind, style, config, plan, op, steps, answer, verdict>>

Handler == Post \/ Patch \/ Get \/ TryGet \/ Suspend

Next ==
    \/ SetConfig \/ StartCreate \/ StartUpdate \/ Replace \/ Import
    \/ Handler \/ Error \/ Refresh
    \/ Somebody

Spec == Init /\ [][Next]_vars

\* The user refreshes and applies again and again, and no error is for ever.
Fairness ==
    /\ WF_vars(Handler \/ Error)
    /\ SF_vars(Post) /\ SF_vars(Patch) /\ SF_vars(Get) /\ SF_vars(Suspend)
    /\ SF_vars(StartCreate) /\ SF_vars(StartUpdate /\ Planned # state)
    /\ SF_vars(Refresh) /\ SF_vars(Replace)
FairSpec == Spec /\ Fairness

----------------------------------------------------------------------------
(* Properties.                                                             *)

TypeOK ==
    /\ kind \in Kinds /\ style \in Styles
    /\ config \in Wanted
    /\ plan \in Wanted \cup {Unknown}
    /\ state \in Wanted \cup {None}
    /\ server \in Held \cup {None}
    /\ op \in {"idle", "create", "update"}
    /\ answer \in Values
    /\ verdict \in {"ok", "inconsistent", "tainted"}
    /\ drifted \in BOOLEAN

\* What the state says of the object agrees with it: to the letter, except that
\* null and blank are one, or it says nothing of the attribute.
Says(value, held) ==
    \/ value = held \/ {value, held} \subseteq {Null, Blank}
    \/ kind.record = "planned"                               \* never read back
    \/ kind.record = "overlay" /\ (value = Null \/ held \in {Null, Blank})
    \/ kind.record = "keep" /\ held = Null                   \* taken for omitted

\* Unless others edit the object or an answer is lost, the state says of it
\* what is true: nothing is recorded that was not sent, or sent and not stored.
StateIsTrue ==
    op = "idle" /\ state # None /\ ~drifted => Says(state, server)

\* A plan the server can carry out: it has a value or, of an absent or blank
\* text, the server holds just that.
Feasible(wanted, held) ==
    \/ wanted \notin {Null, Blank} \/ wanted = held
    \/ kind.record = "blankIsNull" /\ held \in {Null, Blank}

\* An apply that nobody interferes with leaves no known value of the plan
\* unfulfilled and no unknown one unknown: Terraform never complains of an
\* inconsistent result.
AppliedAsPlanned ==
    [][op # "idle" /\ op' = "idle" /\ verdict' \in {"inconsistent", "tainted"} /\ verdict' # verdict
         => drifted \/ ~Feasible(plan, server')]_vars

\* An apply does not touch what the configuration leaves to others: only a
\* resource that repeats all it knows (a connection) can undo an edit, and only
\* one made since the refresh.
UnmanagedUntouched ==
    [][op = "update" /\ plan \notin {config, Unknown} /\ server' # server /\ op' = "idle"
         => drifted /\ kind.patch = "known"]_vars

\* Once configuration and other people settle, repeated applies bring state and
\* server to the configured value, whatever went wrong before.
Settles ==
    \A v \in Words :
        <>[](config = v) /\ <>[][~Somebody]_vars =>
            []<>(op = "idle" /\ state = v /\ Says(v, server))

----------------------------------------------------------------------------
(* Why they hold of every attribute that is declared like this: an          *)
(* inductive invariant, proved in AttributesProofs.                         *)

\* Where in its recipe a handler is, what it has in hand, and that it carries out
\* the plan for this configuration and state.
InHandler ==
    /\ op = "idle" <=> steps = <<>>
    /\ op = "idle" => (state = None <=> server = None)
    /\ op = "create" =>
          /\ state = None
          /\ steps \in {kind.create, Tail(kind.create)}
          /\ server = None <=> steps = kind.create
    /\ op = "update" =>
          /\ state # None /\ server # None
          /\ steps = <<"patch">>
          /\ kind.replace => plan = state
    /\ op # "idle" => plan = Planned

\* Until its PATCH an update finds the object as the state has it.
TrueUntilPatched == op # "create" /\ state # None /\ ~drifted => Says(state, server)

\* After its POST a create has in hand what the server made of the plan.
AnswerIsTrue ==
    op = "create" /\ steps # kind.create =>
        /\ answer \in Held
        /\ ~drifted =>
              answer = server /\ server = Stored(Carried(kind.post, plan, Null), Initial)

AttributesInv == TypeOK /\ InHandler /\ TrueUntilPatched /\ AnswerIsTrue
=============================================================================
