-------------------------- MODULE WriteOnlySecrets --------------------------
(***************************************************************************)
(* Connections, API connectors and API credentials: objects with a secret  *)
(* that Terraform is given, must never store, and cannot read back.  What  *)
(* the state keeps of it is a version number of the user's.                *)
(*                                                                         *)
(* One address and the object it tracks.  A Terraform run plans            *)
(* (ModifyPlan) and applies (Create or Update); the secret may be an       *)
(* ephemeral value, so that the apply can find another one, a null or a    *)
(* blank text although the plan had it.                                    *)
(***************************************************************************)
EXTENDS Integers, SigmaReplies

CONSTANTS
    Kinds,     \* the resources to look at
    Names,     \* values of the attributes that every update sends
    Bodies,    \* values of the attribute that the secret is merged into
    Secrets,
    MaxVersion,
    None, Blank, Gone

Versions == 1..MaxVersion
Configs == [name : Names, body : Bodies, secret : Secrets \cup {None, Blank},
            version : Versions \cup {None}]
Objects == [name : Names, body : Bodies, secret : Secrets \cup {None}]
Entries == [name : Names, body : Bodies \cup {None}, version : Versions \cup {None}]

ASSUME SecretsAssumption ==
    /\ Kinds \subseteq {"connection", "connector", "credential"}
    /\ MaxVersion \in Nat
    /\ None \notin Secrets \cup Bodies \cup Versions \cup Configs \cup Entries
    /\ Blank \notin Secrets \cup {None}
    /\ Gone \notin Objects

VARIABLES
    kind,
    planned,    \* the configuration of an accepted plan that is not applied yet, or None
    state,      \* the Terraform state entry, or None
    server,     \* the object on the server, or Gone
    supplied,   \* history: the secret given to the apply that recorded the version
    unsure,     \* history: an update that failed, or somebody else, may have changed it since
    blank       \* history: the last update found its secret blank

vars == <<kind, planned, state, server, supplied, unsure, blank>>

Init ==
    /\ kind \in Kinds
    /\ planned = None /\ state = None
    /\ server \in {o \in Objects : o.secret # None} \cup {Gone}
    /\ supplied = None /\ unsure = FALSE /\ blank = FALSE

----------------------------------------------------------------------------
(* The rules on versions.                                                  *)

Given(secret) == secret \notin {None, Blank}

writeOnlyVersionPair(secret, version) == Given(secret) <=> (version # None)

\* Variant: a greater version is trusted to come with a secret.
managedWriteOnlyUpdateTrusting(stateVersion, planVersion, secret) ==
    stateVersion # None => planVersion # None /\ planVersion > stateVersion

\* Whether an update that sends the secret-bearing body may go ahead.  A blank
\* secret passes: only a null is refused here.
managedWriteOnlyUpdate(stateVersion, planVersion, secret) ==
    stateVersion # None =>
        /\ planVersion # None
        /\ planVersion > stateVersion
        /\ secret # None

\* What ModifyPlan accepts.
PlanAllowed(c) ==
    /\ writeOnlyVersionPair(c.secret, c.version)
    /\ state # None /\ state.version # None =>
          /\ c.version # None
          /\ CASE kind = "connection" -> TRUE
               [] kind = "connector"  ->
                    IF c.version = state.version
                    THEN c.body = state.body
                    ELSE managedWriteOnlyUpdate(state.version, c.version, c.secret)
               [] kind = "credential" ->
                    c.version # state.version
                        => managedWriteOnlyUpdate(state.version, c.version, c.secret)

\* terraform plan with any configuration.  An attribute without a value in the
\* state, as after the import of a connection, counts as a difference.
Plan ==
    /\ \E c \in Configs : PlanAllowed(c) /\ planned' = c
    /\ UNCHANGED <<kind, state, server, supplied, unsure, blank>>

----------------------------------------------------------------------------
(* Create and Update.                                                      *)

Recorded(c) == [name |-> c.name, body |-> c.body, version |-> c.version]

\* The secrets that the configuration can hold when the plan is applied: an
\* ephemeral value is computed anew.
AtApply == Secrets \cup {None, Blank}

\* mergeObjectWithWriteOnly: a blank overlay is left out.
Merged(secret) == IF Given(secret) THEN secret ELSE None

Rejected == planned' = None /\ UNCHANGED <<kind, state, server, supplied, unsure>>

\* A POST that fails may leave an object behind, but none that is tracked.
Create ==
    /\ planned # None /\ state = None
    /\ \E secret \in AtApply :
          IF /\ writeOnlyVersionPair(secret, planned.version)
             /\ kind = "credential" => Given(secret)
          THEN \/ /\ server' = [name |-> planned.name, body |-> planned.body,
                                 secret |-> Merged(secret)]
                  /\ state' = Recorded(planned)
                  /\ supplied' = Merged(secret) /\ unsure' = FALSE
                  /\ planned' = None /\ UNCHANGED kind
               \/ Rejected
          ELSE Rejected
    /\ UNCHANGED blank

resending == planned.version # state.version

\* What Update checks before it sends anything; a credential must be JSON.
UpdateAllowed(secret) ==
    CASE kind = "connection" ->
            managedWriteOnlyUpdate(state.version, planned.version, secret)
      [] kind = "connector"  ->
            IF resending
            THEN managedWriteOnlyUpdate(state.version, planned.version, secret)
            ELSE state.version # None => planned.body = state.body
      [] kind = "credential" ->
            /\ state.version # None => planned.version # None
            /\ resending => /\ managedWriteOnlyUpdate(state.version, planned.version, secret)
                            /\ Given(secret)

\* Variant: the params of a connector are left out whenever its secret is managed.
SendsSecretUnmanaged ==
    CASE kind = "connection" -> TRUE
      [] kind = "connector"  -> state.version = None
      [] kind = "credential" -> resending

\* Whether the request has the part that carries the secret: the details of a
\* connection, the params of a connector, the credential of a credential.
SendsSecret ==
    CASE kind = "connection" -> TRUE
      [] kind = "connector"  -> resending \/ state.version = None
      [] kind = "credential" -> resending

\* PUT and PATCH replace the parts that are sent (external); a part that is sent
\* without the secret erases it.
Updated(secret) ==
    [name   |-> planned.name,
     body   |-> IF kind = "connector" /\ ~SendsSecret THEN server.body ELSE planned.body,
     secret |-> IF SendsSecret THEN Merged(secret) ELSE server.secret]

\* Terraform calls Update only when the plan differs from the state.
Update ==
    /\ planned # None /\ state # None
    /\ Recorded(planned) # state
    /\ \E secret \in AtApply, r \in Answers(server # Gone, FALSE) :
       /\ blank' = (secret = Blank)
       /\ IF UpdateAllowed(secret)
          THEN /\ planned' = None
               /\ server' = IF r[2] /\ server # Gone THEN Updated(secret) ELSE server
               /\ IF r[1] = "ok"
                  THEN /\ state' = Recorded(planned)
                       /\ supplied' = IF resending THEN Merged(secret) ELSE supplied
                       /\ unsure' = (unsure /\ ~resending)
                  ELSE /\ unsure' = (unsure \/ (r[2] /\ resending))
                       /\ UNCHANGED <<state, supplied>>
               /\ UNCHANGED kind
          ELSE Rejected

----------------------------------------------------------------------------
(* Read, import and Delete.                                                *)

\* The details of a connection are in no answer.  The params of a connector come
\* back redacted, and are taken only when the state has none.
ReadBody(prior) ==
    CASE kind = "connection" -> prior
      [] kind = "connector"  -> IF prior = None THEN server.body ELSE prior
      [] kind = "credential" -> server.body

Observed(prior, version) ==
    [name |-> server.name, body |-> ReadBody(prior), version |-> version]

Forget == state' = None /\ planned' = None

Read ==
    /\ state # None
    /\ \E r \in Answers(server # Gone, FALSE) :
          \/ r[1] = "ok" /\ state' = Observed(state.body, state.version) /\ planned' = None
          \/ IsNotFound(r[1]) /\ Forget
          \/ r[1] # "ok" /\ ~IsNotFound(r[1]) /\ UNCHANGED <<state, planned>>
    /\ UNCHANGED <<kind, server, supplied, unsure, blank>>

\* terraform import and the Read that follows: no version is known.
Import ==
    /\ state = None /\ server # Gone
    /\ state' = Observed(None, None)
    /\ planned' = None
    /\ UNCHANGED <<kind, server, supplied, unsure, blank>>

Delete ==
    /\ state # None
    /\ \E r \in Answers(server # Gone, TRUE) :
          /\ server' = IF r[2] THEN Gone ELSE server
          /\ IF r[1] = "ok" \/ IsNotFound(r[1])
             THEN Forget
             ELSE planned' = None /\ UNCHANGED state
    /\ UNCHANGED <<kind, supplied, unsure, blank>>

\* Other people edit the object, set another secret, or delete it (external).
Somebody ==
    /\ server # Gone
    /\ \E o \in {o \in Objects : o.secret # None \/ server.secret = None} \cup {Gone} :
          /\ server' = o
          /\ unsure' = (unsure \/ (o # Gone /\ o.secret # server.secret))
    /\ UNCHANGED <<kind, planned, state, supplied, blank>>

Next == Plan \/ Create \/ Update \/ Read \/ Import \/ Delete \/ Somebody

Spec == Init /\ [][Next]_vars

----------------------------------------------------------------------------
(* Properties.                                                             *)

\* Of the three resources, only a connection can be in the state without a body.
TypeOK ==
    /\ kind \in Kinds
    /\ planned \in Configs \cup {None}
    /\ state \in Entries \cup {None}
    /\ server \in Objects \cup {Gone}
    /\ supplied \in Secrets \cup {None}
    /\ unsure \in BOOLEAN /\ blank \in BOOLEAN
    /\ state # None /\ state.body = None => kind = "connection" /\ state.version = None

HasSecret == server # Gone /\ server.secret # None

\* While a version is in the state, no step of any run erases the secret on the
\* server, whatever it plans and whatever other value an ephemeral secret has at
\* the apply, a null included.  The exception is an update that finds it blank,
\* which managedWriteOnlyUpdate lets pass and mergeObjectWithWriteOnly leaves out;
\* of a credential, which must be JSON, even that is refused.
ManagedSecretKept ==
    [][state # None /\ state.version # None /\ HasSecret /\ server' # Gone
          => server'.secret # None \/ (Update /\ blank' /\ kind # "credential")]_vars

\* The version in the state names the secret on the server: it is the one that
\* was supplied with this version (none, if it was blank), unless somebody else set
\* another one or an update was carried out and reported as failed.
VersionNamesSecret ==
    state # None /\ state.version # None /\ server # Gone /\ ~unsure
        => server.secret = supplied

\* The promise of the schema text (api_connector_resource.go:47): "Metadata-only
\* updates omit params so existing secrets are retained."
MetadataUpdateKeepsSecrets ==
    [][planned # None /\ state # None /\ HasSecret /\ server' # Gone
       /\ planned.body = state.body /\ planned.version = state.version
          => server'.secret # None]_vars
=============================================================================
