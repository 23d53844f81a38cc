------------------------- MODULE ResourceLifecycle -------------------------
(***************************************************************************)
(* One Terraform address of an object or association resource              *)
(* (internal/provider/*_resource.go): its handlers Create, Read, Update    *)
(* and Delete, run by Terraform one at a time, against a server that may   *)
(* lose answers, refuse, or hide behind a proxy that answers 404 itself,   *)
(* and whose objects other people change, also while a list is paged.      *)
(*                                                                         *)
(* The handlers of the resources differ in the calls they make and in what *)
(* they do when one fails; a record per resource says which.  The steps of *)
(* a handler: "add" (POST or PATCH that makes the object), "change", "get",*)
(* "try" (a GET whose failure is ignored), "also" (a second GET that must  *)
(* not fail), "check" (the answer is of the managed type), and "delete"    *)
(* (DELETE, which Do repeats) or "remove" (POST or PATCH, sent once).      *)
(***************************************************************************)
EXTENDS Naturals, Sequences, FiniteSets, SigmaReplies

CONSTANTS
    Ids,      \* object IDs the server can issue
    Key,      \* the identity of an association, known from the configuration
    Values,   \* what configuration, state and server can say of an object
    Bare,     \* the one of them that leaves the optional attribute out
    None,
    Kinds     \* the resources under consideration

Gone == "gone"    \* no such object on the server, or none any more

ASSUME LifecycleAssumption ==
    /\ Key \notin Ids /\ None \notin Ids \cup {Key} \cup Values
    /\ Gone \notin Values /\ IsFiniteSet(Ids) /\ Bare \in Values
    /\ None \notin [id : Ids \cup {Key}, value : Values]

----------------------------------------------------------------------------
(* The resources.                                                          *)

\* The fields besides the recipes: how an object is identified and found, whether
\* an update can take the optional attribute away, and whether a Read notices
\* that somebody did.
Object(create, read, update) ==
    [identity |-> "issued", find |-> "id", create |-> create, read |-> read,
     update |-> update, delete |-> <<"delete">>, importable |-> TRUE,
     clears |-> TRUE, notices |-> TRUE]
Association(create, update, delete) ==
    [Object(create, <<"get">>, update) EXCEPT
        !.identity = "config", !.find = "list", !.delete = delete]
Replace == <<>>   \* every attribute forces replacement

folder           == Object(<<"add", "check">>, <<"get", "check">>, <<"change", "check">>)
workspace        == Object(<<"add">>, <<"get">>, <<"change">>)
team             == [Object(<<"add">>, <<"get">>, <<"change">>) EXCEPT !.clears = FALSE]
tag              == [Object(<<"add", "try">>, <<"get">>, <<"change">>) EXCEPT
                        !.find = "list", !.clears = FALSE, !.notices = FALSE]
userAttribute    == Object(<<"add">>, <<"get">>, Replace)
tenant           == Object(<<"add">>, <<"get">>, <<"change">>)
sourceSwapPolicy == Object(<<"add", "get">>, <<"get">>, <<"change", "get">>)
deploymentPolicy == Object(<<"add", "get">>, <<"get">>, <<"change">>)
workbookEmbed    == [Object(<<"add", "try", "check">>, <<"get", "check">>, Replace) EXCEPT
                        !.find = "list"]
accountType      == [Object(<<"add">>, <<"get", "also">>, Replace) EXCEPT !.find = "name"]

\* Schedules, as the API makes them or to be paused (or resumed) by a PATCH.
schedule         == [Object(<<"add">>, <<"get">>, <<"change">>) EXCEPT
                        !.find = "list", !.importable = FALSE]
pausedSchedule   == [schedule EXCEPT !.create = <<"add", "change">>]

teamMember               == Association(<<"add">>, Replace, <<"remove">>)
teamAttribute            == Association(<<"add">>, <<"add">>, <<"delete">>)
userAttributeAssignment  == Association(<<"add">>, <<"add">>, <<"delete">>)
tenantAttribute          == Association(<<"add">>, <<"add">>, <<"delete">>)
deploymentCapability     == Association(<<"add">>, Replace, <<"remove">>)
deploymentPolicyDocument == Association(<<"add">>, Replace, <<"delete">>)
deploymentPolicyTenant   == Association(<<"add">>, Replace, <<"delete">>)
translation              == [Association(<<"add", "get">>, <<"change", "get">>, <<"delete">>)
                                EXCEPT !.find = "id"]

\* What the handlers of every resource have in common: a create begins with the
\* request that makes the object, only an association is made again by an update,
\* only a Read looks for a name, and a delete is one request.
ReadSteps == {"get", "also", "check"}
LookSteps(k) == IF k.find = "name" THEN {"check"} ELSE {"get", "try", "check"}
CreateSteps(k) == LookSteps(k) \cup {"change"}
UpdateSteps(k) == LookSteps(k) \cup {"change"} \cup (IF k.identity = "config" THEN {"add"} ELSE {})
EraseSteps == {"delete", "remove"}
Steps == ReadSteps \cup EraseSteps \cup {"add", "change", "try"}
WellFormed(k) ==
    /\ k.identity \in {"issued", "config"} /\ k.find \in {"id", "list", "name"}
    /\ k.identity = "config" => k.find # "name"
    /\ k.clears \in BOOLEAN /\ k.notices \in BOOLEAN
    /\ k.create \in Seq(Steps) /\ k.create # <<>>
    /\ Head(k.create) = "add" /\ Tail(k.create) \in Seq(CreateSteps(k))
    /\ k.read # <<>> /\ k.read \in Seq(ReadSteps)
    /\ k.update \in Seq(UpdateSteps(k))
    /\ k.delete \in {<<s>> : s \in EraseSteps}

ASSUME KindsAssumption == \A k \in Kinds : WellFormed(k)

----------------------------------------------------------------------------
VARIABLES
    kind,      \* the resource at this address
    config,    \* the value its configuration asks for, None without one
    state,     \* its entry of the Terraform state: None or [id, value]
    objects,   \* the server: the value of each live object, or Gone
    op,        \* the handler that runs
    steps,     \* the steps it has still to make
    answer,    \* its local variable: the object it works on, as last seen
    failed,    \* the last handler ended with an error diagnostic
    ours,      \* history: objects this address made or imported
    reported,  \* history: those whose making or import ended in an error
    misled     \* history: live objects that a bare 404 denied or a list passed over

vars == <<kind, config, state, objects, op, steps, answer, failed, ours, reported, misled>>

All == Ids \cup {Key}
Entries == [id : All, value : Values]
Live(id) == objects[id] # Gone

\* IDs the server may issue next: IDs are not reused while anything holds them.
Held == {e.id : e \in {state, answer} \ {None}}
Fresh == IF kind.identity = "config" THEN {Key}
         ELSE {id \in Ids : ~Live(id) /\ id \notin Held}

Init ==
    /\ kind \in Kinds
    /\ config = None
    /\ state = None
    /\ objects = [id \in All |-> Gone]
    /\ op = "idle"
    /\ steps = <<>>
    /\ answer = None
    /\ failed = FALSE
    /\ ours = {}
    /\ reported = {}
    /\ misled = {}

----------------------------------------------------------------------------
(* Terraform (external) runs a handler at a time.                          *)

Start(handler, recipe, entry) ==
    /\ op = "idle"
    /\ op' = handler
    /\ steps' = recipe
    /\ answer' = entry
    /\ UNCHANGED <<kind, config, state, objects, failed, ours, reported, misled>>

SetConfig ==
    /\ op = "idle"
    /\ config' \in Values \cup {None} /\ config' # config
    /\ UNCHANGED <<kind, state, objects, op, steps, answer, failed, ours, reported, misled>>

StartCreate == state = None /\ config # None /\ Start("create", kind.create, None)
StartRead   == state # None /\ Start("read", kind.read, state)
\* Variant: an entry without configuration is updated as well.
StartUpdateOfRemoved ==
    /\ state # None /\ config # state.value /\ kind.update # Replace
    /\ Start("update", kind.update, state)

StartUpdate ==
    /\ state # None /\ config \notin {None, state.value} /\ kind.update # Replace
    /\ Start("update", kind.update, state)
\* No configuration left, or the object is to be replaced.
StartDelete == state # None /\ Start("delete", kind.delete, state)

\* terraform import, then the Read that Terraform makes of the imported ID, with no
\* attributes but those that find the object.
Import ==
    /\ op = "idle" /\ state = None /\ kind.importable
    /\ \E id \in IF kind.identity = "config" THEN {Key} ELSE Ids :
          /\ Live(id)
          /\ answer' = [id |-> id, value |-> IF kind.find = "name" THEN objects[id] ELSE Bare]
          /\ ours' = ours \cup {id}
    /\ op' = "read"
    /\ steps' = kind.read
    /\ UNCHANGED <<kind, config, state, objects, failed, reported, misled>>

\* Bound: lost creates and other people leave the server an ID to issue.
Spare(id) == id = Key \/ Cardinality(Fresh) > 1

\* Other people make, change and delete objects at any time.
Somebody ==
    /\ \E id \in All, v \in Values \cup {Gone} :
          /\ id = Key <=> kind.identity = "config"
          /\ v # objects[id]
          /\ Live(id) \/ (id \in Fresh /\ Spare(id))
          /\ objects' = [objects EXCEPT ![id] = v]
          /\ ours' = IF Live(id) THEN ours ELSE ours \ {id}
          /\ reported' = IF Live(id) THEN reported ELSE reported \ {id}
          /\ misled' = IF v = Gone THEN misled \ {id} ELSE misled
    /\ UNCHANGED <<kind, config, state, op, steps, answer, failed>>

----------------------------------------------------------------------------
(* How a handler goes on and how it ends.                                  *)

Doing(s) == op # "idle" /\ steps # <<>> /\ Head(steps) = s

End(entry) ==
    /\ state' = entry
    /\ op' = "idle"
    /\ steps' = <<>>
    /\ answer' = None

\* RemoveResource in a Read, or a Delete that ends without error; because of an
\* answer that denies a live object, or not.
Drop(denied) ==
    /\ End(None)
    /\ failed' = FALSE
    /\ misled' = misled \cup {id \in denied : objects'[id] # Gone}
    /\ UNCHANGED reported

Worked == IF answer = None THEN {} ELSE {answer.id}

\* An error diagnostic: the state entry stays what it was.
Fail(unsaved) ==
    /\ End(state)
    /\ failed' = TRUE
    /\ reported' = reported \cup (IF state = None THEN unsaved ELSE {})
    /\ UNCHANGED misled

\* The next step, or State.Set after the last one; for Terraform an answer that
\* is not what it planned is an error.
Proceed(entry) ==
    \/ /\ Len(steps) = 1
       /\ End(entry)
       /\ failed' = (op # "read" /\ entry.value # config)
       /\ reported' = reported \ {entry.id}
       /\ misled' = misled \ {entry.id}
    \/ /\ Len(steps) > 1
       /\ steps' = Tail(steps)
       /\ answer' = entry
       /\ UNCHANGED <<state, op, failed, reported, misled>>

----------------------------------------------------------------------------
(* The steps.                                                              *)

\* The object is made with the planned value; its ID is new or, of an
\* association, given, in which case the server may refuse a second one.
Add ==
    /\ Doing("add")
    /\ \E id \in Fresh, a \in Answers(TRUE, FALSE) :
          /\ a = <<"error", TRUE>> => Spare(id)
          /\ IF a[2] THEN /\ objects' = [objects EXCEPT ![id] = config]
                          /\ ours' = ours \cup {id}
                     ELSE UNCHANGED <<objects, ours>>
          /\ IF a[1] = "ok"
                THEN Proceed([id |-> id, value |-> config])
                ELSE Fail(IF a[2] THEN {id} ELSE {})
    /\ UNCHANGED <<kind, config>>

\* Bound: what a handler lets go of must not be the last ID of the server.
Losable(e) == Live(e.id) => Fresh # {}

\* What an update makes of the object: an attribute that is no longer configured
\* (changedStringPtr) is not sent, and keeps its value.
Updated == IF config = Bare /\ ~kind.clears THEN objects[answer.id] ELSE config

Change ==
    /\ Doing("change")
    /\ \E a \in Answers(Live(answer.id), FALSE) :
          /\ objects' = IF a[2] THEN [objects EXCEPT ![answer.id] = Updated] ELSE objects
          /\ IF a[1] = "ok"
                THEN Proceed([answer EXCEPT !.value = Updated])
                ELSE (op = "create" => Losable(answer)) /\ Fail(Worked)
    /\ UNCHANGED <<kind, config, ours>>

\* What a lookup is after: the object with this ID or, of account types, the
\* first one listed that has this name.
Matches(e) ==
    IF kind.find = "name" THEN {id \in Ids : objects[id] = e.value}
    ELSE {e.id} \cap {id \in All : Live(id)}

\* What it may find.  A list is read page by page, while anybody adds and removes
\* entries: it may pass over the one looked for.
Found(e) == IF kind.find = "id" THEN {Matches(e)} ELSE {Matches(e), {}}

\* The object on this answer that denies it although the lookup was after it.
Denied(e, found, reply) ==
    IF reply = "bare404" \/ found # Matches(e) THEN {e.id} ELSE {}

\* What of the object gets into the state: setTag ignores a missing description.
Seen(id) ==
    [id |-> id,
     value |-> IF objects[id] = Bare /\ ~kind.notices THEN answer.value ELSE objects[id]]


\* A lookup that must not fail, except that a Read of a missing object removes it
\* from the state; without a state entry, in an import, Terraform calls that an error.
Get ==
    /\ Doing("get")
    /\ UNCHANGED <<kind, config, objects, ours>>
    /\ \E found \in Found(answer) : \E a \in Answers(found # {}, FALSE) :
          \/ /\ a[1] = "ok"
             /\ \E id \in found : Proceed(Seen(id))
          \/ /\ op = "read" /\ state # None /\ IsNotFound(a[1]) /\ Losable(answer)
             /\ Drop(Denied(answer, found, a[1]))
          \/ /\ a[1] # "ok" /\ ~(op = "read" /\ state # None /\ IsNotFound(a[1]))
             /\ op = "create" => Losable(answer)
             /\ Fail(Worked)

TryGet ==
    /\ Doing("try")
    /\ \E found \in Found(answer) : \E a \in Answers(found # {}, FALSE) :
          Proceed(IF a[1] = "ok" THEN Seen(answer.id) ELSE answer)
    /\ UNCHANGED <<kind, config, objects, ours>>

\* The second request of an account type's Read, for its permissions.
AlsoGet ==
    /\ Doing("also")
    /\ \E a \in Answers(Live(answer.id), FALSE) :
          IF a[1] = "ok" THEN Proceed(answer) ELSE Fail(Worked)
    /\ UNCHANGED <<kind, config, objects, ours>>

\* Variant: an object of another type is taken for a missing one.
CheckRemoves ==
    /\ Doing("check")
    /\ Proceed(answer) \/ Drop({})
    /\ UNCHANGED <<kind, config, objects, ours>>

\* requireFolder, applyPublicWorkbookEmbed: the server may answer with an object
\* of another type.
Check ==
    /\ Doing("check")
    /\ Proceed(answer) \/ ((op = "create" => Losable(answer)) /\ Fail(Worked))
    /\ UNCHANGED <<kind, config, objects, ours>>

\* Variant: a missing object is an error.
EraseStrict ==
    /\ Doing("delete") \/ Doing("remove")
    /\ \E a \in Answers(Live(answer.id), Doing("delete")) :
          /\ objects' = IF a[2] THEN [objects EXCEPT ![answer.id] = Gone] ELSE objects
          /\ IF a[1] = "ok" THEN Drop({}) ELSE Fail({})
    /\ UNCHANGED <<kind, config, ours>>

\* Delete: success and a missing object both end the handler without error,
\* upon which Terraform drops the entry.
Erase ==
    /\ Doing("delete") \/ Doing("remove")
    /\ \E a \in Answers(Live(answer.id), Doing("delete")) :
          /\ objects' = IF a[2] THEN [objects EXCEPT ![answer.id] = Gone] ELSE objects
          /\ IF a[1] = "ok" \/ IsNotFound(a[1])
                THEN /\ a[2] \/ Losable(answer)
                     /\ Drop(IF a[1] = "bare404" THEN Worked ELSE {})
                ELSE Fail({})
    /\ UNCHANGED <<kind, config, ours>>

Handler == Add \/ Change \/ Get \/ TryGet \/ AlsoGet \/ Check \/ Erase

Next ==
    \/ SetConfig \/ StartCreate \/ StartRead \/ StartUpdate \/ StartDelete \/ Import
    \/ Handler
    \/ Somebody

Spec == Init /\ [][Next]_vars

\* The user applies again and again, no error is for ever, and every handler
\* comes to its end (SigmaTransport, Pagination).
Succeeding(step) == step /\ (op' # "idle" \/ ~failed')
Unwanted == config = None \/ (kind.update = Replace /\ state.value # config)
Fairness ==
    /\ WF_vars(Handler)
    /\ SF_vars(StartCreate) /\ SF_vars(StartRead) /\ SF_vars(StartUpdate)
    /\ SF_vars(StartDelete /\ Unwanted)
    /\ SF_vars(Succeeding(Add)) /\ SF_vars(Succeeding(Change)) /\ SF_vars(Succeeding(Get))
    /\ SF_vars(Succeeding(AlsoGet)) /\ SF_vars(Succeeding(Check)) /\ SF_vars(Succeeding(Erase))
FairSpec == Spec /\ Fairness

----------------------------------------------------------------------------
(* Properties.                                                             *)

TypeOK ==
    /\ kind \in Kinds
    /\ config \in Values \cup {None}
    /\ state \in Entries \cup {None}
    /\ objects \in [All -> Values \cup {Gone}]
    /\ op \in {"idle", "create", "read", "update", "delete"}
    /\ steps \in Seq(Steps)
    /\ answer \in Entries \cup {None}
    /\ failed \in BOOLEAN
    /\ ours \subseteq All
    /\ reported \subseteq All
    /\ misled \subseteq All

Tracked(id) == state # None /\ state.id = id

\* An object that this address made and that still exists is either in the
\* state or was the subject of an error: nobody pays for an object that neither
\* Terraform nor its user knows of.  Unless Terraform was misled: by a 404 without
\* a code, which the comment of IsNotFound accepts ("inherent to the API"), or by
\* a list that passed it over.  Account types are looked up by name, see
\* AccountTypeTracked.
NoSilentOrphan ==
    op = "idle" /\ kind.find # "name" =>
        \A id \in ours : Live(id) /\ ~Tracked(id) => id \in reported \cup misled

\* A Read does not drop an account type that exists.  It does: once somebody
\* renames it, Read looks for the name in the state, FindAccountType makes up a
\* 404 (or finds another account type of that name), and the state lets go of it,
\* against the comment of IsNotFound: "reports whether err indicates a missing
\* Sigma resource" (errors.go:35).
AccountTypeTracked ==
    [][kind.find = "name" /\ state # None /\ state' = None
         => objects'[state.id] = Gone \/ state.id \in misled']_vars

\* The state loses an object, in a Read or a destroy, only if the server has it no
\* more, whatever page or code of its own a proxy answers 404 with, and even if
\* the DELETE was carried out by an attempt whose answer was lost; or if a bare
\* 404 denied it just now, or the list it is looked up in passed it over, the two
\* limits of the code (errors.go:39-41, pagination.go:47).  A Read by name forgets
\* more: AccountTypeTracked.
ForgetsOnlyTheGone ==
    [][state # None /\ state' = None
         => \/ objects'[state.id] = Gone \/ state.id \in misled'
            \/ op = "read" /\ kind.find = "name"]_vars

\* A user who wants the object gone and applies often enough is rid of it, even
\* if a DELETE took effect without an answer and all later ones answer 404.
DestroyConverges == <>[](config = None) => []<>(state = None)

\* Once the configuration and other people's edits settle, repeated applies
\* repair every half-finished create, update or replacement, and every drift that
\* a request can express and a Read notices: not the description taken out of the
\* configuration of a team or a tag, nor the one that others take from a tag.
Expressible(v) == v # Bare \/ kind.clears

----------------------------------------------------------------------------
(* Why they hold, whatever the recipes of a resource: an inductive          *)
(* invariant, proved in ResourceLifecycleProofs.                            *)

\* Which steps a running handler may still have before it, and what it works on:
\* a create on nothing until the object is made, the others on what the state has.
InHandler ==
    /\ op = "idle" <=> steps = <<>>
    /\ op = "idle" => answer = None
    /\ op = "create" =>
          /\ state = None
          /\ IF answer = None THEN Head(steps) = "add" /\ Tail(steps) \in Seq(CreateSteps(kind))
             ELSE steps \in Seq(CreateSteps(kind))
    /\ op = "read" => answer # None /\ steps \in Seq(ReadSteps)
    /\ op = "update" => state # None /\ steps \in Seq(UpdateSteps(kind))
    /\ op = "delete" => state # None /\ steps \in Seq(EraseSteps)
    /\ op \in {"create", "update"} => config # None

\* A handler works on the object of the state; only a Read by name may meet another.
SameObject ==
    /\ state # None /\ op # "idle" /\ ~(op = "read" /\ kind.find = "name") =>
          answer # None /\ answer.id = state.id
    /\ kind.identity = "config" =>
          \A e \in {state, answer} \ {None} : e.id = Key

\* What exists of this address is recorded, worked on, or was reported.
Accounted ==
    kind.find # "name" =>
        \A id \in ours : Live(id) => Tracked(id) \/ id \in Worked \cup reported \cup misled

LifecycleInv == TypeOK /\ InHandler /\ SameObject /\ Accounted
=============================================================================
