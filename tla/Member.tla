------------------------------- MODULE Member -------------------------------
(***************************************************************************)
(* The member resource (internal/provider/member_resource.go).             *)
(*                                                                         *)
(* Sigma does not remove members: destroy deactivates one, after a look    *)
(* whether an identity provider (SCIM) has done so, and after a PATCH that *)
(* says what becomes of the member's documents, for DELETE gives them to   *)
(* the owner of the API credential.  Administrators and the identity       *)
(* provider act on the member at any time, also between those requests.    *)
(***************************************************************************)
EXTENDS SigmaReplies

CONSTANTS None, Gone

\* Destroy options: new_owner_id, which may be a blank text, archive_documents, and
\* whether there is an archive_scheduled_exports, whose value moves no documents.  An
\* owner and archived documents together are refused (validateMemberDestroyPolicy).
Options ==
    {o \in [owner : {None, "blank", "somebody"}, documents : BOOLEAN \cup {None},
            exports : BOOLEAN] :
        ~(o.owner = "somebody" /\ o.documents = TRUE)}
NoOptions == [owner |-> None, documents |-> None, exports |-> FALSE]

\* Where the documents are: with the member, with the owner of the credential,
\* with new_owner_id, archived, or where somebody else has put them.
Documents == {"kept", "default", "transferred", "archived", "elsewhere"}

Members == [archived : BOOLEAN, inactive : BOOLEAN, docs : Documents]
Configs == [archived : BOOLEAN \cup {None}, options : Options]
Entries == [archived : BOOLEAN, inactive : BOOLEAN, options : Options]

ASSUME MemberAssumption ==
    /\ None \notin BOOLEAN /\ None \notin {"blank", "somebody"} /\ None \notin Configs \cup Entries
    /\ Gone \notin Members

VARIABLES
    config,    \* is_archived and the destroy options, or None without a block
    state,     \* the Terraform state entry, or None
    server,    \* the member, or Gone
    op,        \* the request that a running Delete makes next, or "idle"
    refused,   \* history: the member was inactive when this Delete began
    meddled,   \* history: somebody reactivated it while Delete was running
    misled     \* history: a bare 404 answered its PATCH while the member was there

vars == <<config, state, server, op, refused, meddled, misled>>
history == <<refused, meddled, misled>>

Active == [archived |-> FALSE, inactive |-> FALSE, docs |-> "kept"]

Init ==
    /\ config = None /\ state = None
    /\ server \in {Active, [Active EXCEPT !.archived = TRUE, !.docs = "elsewhere"], Gone}
    /\ op = "idle"
    /\ refused = FALSE /\ meddled = FALSE /\ misled = FALSE

----------------------------------------------------------------------------
(* The API (external): what archiving and reactivating do.  Documents go   *)
(* to the owner of the credential unless the request says otherwise.       *)

Archive(member, docs) ==
    IF member.archived THEN member ELSE [member EXCEPT !.archived = TRUE, !.docs = docs]
Reactivate(member) ==
    [member EXCEPT !.archived = FALSE, !.inactive = FALSE, !.docs = "kept"]

\* The effect of a PATCH whose body may have isArchived (else None).
Patched(archived, docs) ==
    CASE archived = TRUE  -> Archive(server, docs)
      [] archived = FALSE -> IF server.archived THEN Reactivate(server) ELSE server
      [] archived = None  -> server

----------------------------------------------------------------------------
(* Create, Read, Update and import: one request each.                      *)

Configure ==
    /\ op = "idle"
    /\ config' \in Configs \cup {None}
    /\ UNCHANGED <<state, server, op, history>>

setMember(member, options) ==
    [archived |-> member.archived, inactive |-> member.inactive, options |-> options]

\* A member cannot be created archived, nor, with this e-mail address, twice.
Create ==
    /\ op = "idle" /\ state = None
    /\ config # None /\ config.archived # TRUE
    /\ \E r \in IF server = Gone THEN Answers(TRUE, FALSE) ELSE {<<"error", FALSE>>} :
          /\ server' = IF r[2] THEN Active ELSE server
          /\ state' = IF r[1] = "ok" THEN setMember(Active, config.options) ELSE state
    /\ UNCHANGED <<config, op, history>>

Read ==
    /\ op = "idle" /\ state # None
    /\ \E r \in Answers(server # Gone, FALSE) :
          state' = IF r[1] = "ok" THEN setMember(server, state.options)
                   ELSE IF IsNotFound(r[1]) THEN None ELSE state
    /\ UNCHANGED <<config, server, op, history>>

Import ==
    /\ op = "idle" /\ state = None /\ server # Gone
    /\ state' = setMember(server, NoOptions)
    /\ UNCHANGED <<config, server, op, history>>

\* An is_archived that is not configured is planned as the state has it.
planned == [archived |-> IF config.archived = None THEN state.archived ELSE config.archived,
            options  |-> config.options]

\* Variant: is_archived is sent whether or not it changes.
memberUpdateInputWhole == planned.archived

\* isArchived of the PATCH: sent only if the plan changes it.
memberUpdateInput == IF planned.archived = state.archived THEN None ELSE planned.archived

\* The PATCH has none of the destroy options.
Update ==
    /\ op = "idle" /\ state # None /\ config # None
    /\ planned # [archived |-> state.archived, options |-> state.options]
    /\ \E r \in Answers(server # Gone, FALSE) :
          /\ server' = IF r[2] THEN Patched(memberUpdateInput, "default") ELSE server
          /\ state' = IF r[1] = "ok" THEN setMember(server', config.options) ELSE state
    /\ UNCHANGED <<config, op, history>>

----------------------------------------------------------------------------
(* Delete: GET, PATCH if there are destroy options, DELETE.                *)

Start ==
    /\ op = "idle" /\ state # None /\ config = None
    /\ op' = "GET"
    /\ refused' = (server # Gone /\ server.inactive)
    /\ meddled' = FALSE /\ misled' = FALSE
    /\ UNCHANGED <<config, state, server>>

GoOn(next) == op' = next /\ UNCHANGED state
Fail       == op' = "idle" /\ UNCHANGED state
Forget     == op' = "idle" /\ state' = None

\* Any option that is not null counts, a flag that is false and a blank owner too.
memberHasDestroyOptions(options) ==
    options.owner # None \/ options.documents # None \/ options.exports

\* Where the PATCH sends the documents: a blank owner is sent, and names nobody.
memberDeactivateInput(options) ==
    CASE options.owner = "somebody" -> "transferred"
      [] options.documents = TRUE   -> "archived"
      [] OTHER                      -> "default"

AfterLook == IF memberHasDestroyOptions(state.options) THEN "PATCH" ELSE "DELETE"

\* Variant: is_inactive is taken from the state only.
LookAtState ==
    /\ op = "GET"
    /\ \E r \in Answers(server # Gone, FALSE) :
          CASE IsNotFound(r[1]) -> Forget
            [] r[1] = "ok" /\ ~state.inactive -> GoOn(AfterLook)
            [] OTHER -> Fail
    /\ UNCHANGED <<config, server, history>>

Look ==
    /\ op = "GET"
    /\ \E r \in Answers(server # Gone, FALSE) :
          CASE IsNotFound(r[1]) -> Forget
            [] r[1] = "ok" /\ ~server.inactive /\ ~state.inactive -> GoOn(AfterLook)
            [] OTHER -> Fail
    /\ UNCHANGED <<config, server, history>>

\* Variant: the options are applied if possible.
DeactivateLeniently ==
    /\ op = "PATCH"
    /\ \E r \in Answers(server # Gone, FALSE) :
          /\ server' = IF r[2] THEN Patched(TRUE, memberDeactivateInput(state.options)) ELSE server
          /\ GoOn("DELETE")
          /\ misled' = (IsNotFound(r[1]) /\ server # Gone)
    /\ UNCHANGED <<config, refused, meddled>>

\* The PATCH with the destroy options; an error other than 404 ends Delete.
Deactivate ==
    /\ op = "PATCH"
    /\ \E r \in Answers(server # Gone, FALSE) :
          /\ server' = IF r[2] THEN Patched(TRUE, memberDeactivateInput(state.options)) ELSE server
          /\ IF r[1] = "ok" \/ IsNotFound(r[1]) THEN GoOn("DELETE") ELSE Fail
          /\ misled' = (IsNotFound(r[1]) /\ server # Gone)
    /\ UNCHANGED <<config, refused, meddled>>

Delete ==
    /\ op = "DELETE"
    /\ \E r \in Answers(server # Gone, TRUE) :
          /\ server' = IF r[2] THEN Archive(server, "default") ELSE server
          /\ IF r[1] = "ok" \/ IsNotFound(r[1]) THEN Forget ELSE Fail
    /\ UNCHANGED <<config, history>>

----------------------------------------------------------------------------
(* Administrators and the identity provider (external).                    *)

Somebody ==
    /\ server # Gone
    /\ \/ /\ server' \in {Archive(server, "elsewhere"), Gone,
                          [Archive(server, "elsewhere") EXCEPT !.inactive = TRUE]}
          /\ UNCHANGED meddled
       \/ server.archived /\ server' = Reactivate(server) /\ meddled' = (op # "idle")
    /\ UNCHANGED <<config, state, op, refused, misled>>

Next ==
    \/ Configure \/ Create \/ Read \/ Import \/ Update
    \/ Start \/ Look \/ Deactivate \/ Delete
    \/ Somebody

Spec == Init /\ [][Next]_vars

----------------------------------------------------------------------------
(* Properties.                                                             *)

\* A Delete runs on a state entry; SCIM archives the members it deactivates.
TypeOK ==
    /\ config \in Configs \cup {None}
    /\ state \in Entries \cup {None}
    /\ server \in Members \cup {Gone}
    /\ server # Gone /\ server.inactive => server.archived
    /\ op \in {"idle", "GET", "PATCH", "DELETE"}
    /\ op # "idle" => state # None
    /\ refused \in BOOLEAN /\ meddled \in BOOLEAN /\ misled \in BOOLEAN

\* A running Delete lets the documents of a member go nowhere but where the
\* destroy options say: to new_owner_id, to the archive, or without such an option
\* to the owner of the API credential.  Excused: somebody reactivates the member
\* between the PATCH and the DELETE, or a bare 404, which IsNotFound believes,
\* answers the PATCH.
DocumentsFollowOptions ==
    [][op # "idle" /\ ~meddled /\ ~misled
       /\ server # Gone /\ server.docs = "kept" /\ server' # Gone
          => server'.docs \in {"kept", "elsewhere", memberDeactivateInput(state.options)}]_vars

\* "Destroy refuses members marked inactive through SCIM": a Delete that begins
\* on such a member, whatever the state says of it, never sends a PATCH or DELETE,
\* unless the member is reactivated before the look.
ScimRefused == refused /\ ~meddled => op \notin {"PATCH", "DELETE"}

\* An update reactivates a member only if the plan showed it: the state has it
\* archived and the configuration wants it active.  A member that somebody
\* deactivates after the refresh stays deactivated, whatever else is changed.
ReactivatesOnlyAsPlanned ==
    [][Update /\ server # Gone /\ server.archived /\ ~server'.archived
          => state.archived /\ config.archived = FALSE]_vars

\* The strengthening of the invariants above that every step preserves.
\* Only a Delete with destroy options gets to the PATCH.
PatchHasOptions == op = "PATCH" => memberHasDestroyOptions(state.options)
\* The look comes before the requests that change something.
LookRefuses == op = "GET" /\ refused /\ ~meddled => server = Gone \/ server.inactive
\* Between the PATCH and the DELETE the member stays archived.
PatchedStays ==
    op = "DELETE" /\ memberHasDestroyOptions(state.options) /\ ~meddled /\ ~misled
        => server = Gone \/ server.archived

MemberInv == TypeOK /\ PatchHasOptions /\ LookRefuses /\ PatchedStays /\ ScimRefused
=============================================================================
