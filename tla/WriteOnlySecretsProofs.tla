----------------------- MODULE WriteOnlySecretsProofs -----------------------
(* Proofs about WriteOnlySecrets, for any sets of values and any number of    *)
(* versions.                                                                  *)
EXTENDS WriteOnlySecrets, TLAPS

\* An update that Update lets through and that sends the secret-bearing part of
\* an object with a managed secret does not find it null, and of a credential not
\* blank; it has a new version.
LEMMA ManagedSendsSecret ==
    ASSUME TypeOK, planned # None, state # None, state.version # None,
           NEW secret \in AtApply, UpdateAllowed(secret)
    PROVE  /\ planned.version # None
           /\ SendsSecret <=> resending
           /\ resending => secret # None /\ (kind = "credential" => secret # Blank)
<1>0. /\ kind \in {"connection", "connector", "credential"}
      /\ planned \in Configs /\ state \in Entries
      /\ state.version \in Nat
      /\ planned.version # None => planned.version \in Nat
  BY SecretsAssumption DEF SecretsAssumption, TypeOK, Configs, Entries, Versions
<1>1. CASE kind = "connection"
  BY <1>0, <1>1 DEF UpdateAllowed, managedWriteOnlyUpdate, SendsSecret, resending
<1>2. CASE kind = "connector"
  BY <1>0, <1>2 DEF UpdateAllowed, managedWriteOnlyUpdate, SendsSecret, resending
<1>3. CASE kind = "credential"
  BY <1>0, <1>3 DEF UpdateAllowed, managedWriteOnlyUpdate, SendsSecret, resending, Given
<1>4. QED
  BY <1>0, <1>1, <1>2, <1>3

\* The part that carries the secret has a secret of the type or none.
LEMMA MergedIs ==
    ASSUME NEW secret \in AtApply
    PROVE  /\ Merged(secret) \in Secrets \cup {None}
           /\ secret \notin {None, Blank} => Merged(secret) # None
  BY DEF AtApply, Merged, Given

----------------------------------------------------------------------------
(* Types.                                                                  *)

LEMMA TypeInit == Init => TypeOK
BY SecretsAssumption DEF SecretsAssumption, Init, TypeOK, Objects

LEMMA TypeStep == TypeOK /\ [Next]_vars => TypeOK'
<1> SUFFICES ASSUME TypeOK, [Next]_vars PROVE TypeOK'
  OBVIOUS
<1>1. CASE Plan
  BY <1>1 DEF Plan, TypeOK
<1>2. ASSUME planned # None
      PROVE  /\ Recorded(planned) \in Entries /\ Recorded(planned).body # None
             /\ \A secret \in AtApply :
                   [name |-> planned.name, body |-> planned.body, secret |-> Merged(secret)]
                       \in Objects
  <2>1. planned \in Configs
    BY <1>2 DEF TypeOK
  <2>2. planned.body \in Bodies /\ planned.body # None
    BY <2>1, SecretsAssumption DEF SecretsAssumption, Configs
  <2>3. QED
    BY <2>1, <2>2, MergedIs DEF Configs, Entries, Objects, Recorded
<1>3. CASE Create
  BY <1>2, <1>3, MergedIs DEF Create, Rejected, TypeOK
<1>4. CASE Update
  <2>1. planned # None /\ planned \in Configs
    BY <1>4 DEF Update, TypeOK
  <2>2. ASSUME NEW secret \in AtApply, server # Gone
        PROVE  Updated(secret) \in Objects
    BY <1>2, <2>1, <2>2, MergedIs DEF Updated, TypeOK, Objects, Configs
  <2>3. QED
    BY <1>2, <1>4, <2>1, <2>2, MergedIs DEF Update, Rejected, TypeOK
<1>5. ASSUME server # Gone,
             NEW prior \in Bodies \cup {None}, NEW version \in Versions \cup {None},
             prior = None => version = None
      PROVE  /\ Observed(prior, version) \in Entries
             /\ Observed(prior, version).body = None
                  => kind = "connection" /\ Observed(prior, version).version = None
  <2>1. server.name \in Names /\ server.body \in Bodies /\ server.body # None
    BY <1>5, SecretsAssumption DEF SecretsAssumption, TypeOK, Objects
  <2>2. kind \in {"connection", "connector", "credential"}
    BY SecretsAssumption DEF SecretsAssumption, TypeOK
  <2>3. QED
    BY <1>5, <2>1, <2>2 DEF Observed, ReadBody, Entries
<1>6. CASE Read
  <2>1. state \in Entries /\ (state.body = None => state.version = None)
    BY <1>6 DEF Read, TypeOK
  <2>2. state.body \in Bodies \cup {None} /\ state.version \in Versions \cup {None}
    BY <2>1 DEF Entries
  <2>3. PICK r \in Answers(server # Gone, FALSE) :
          \/ r[1] = "ok" /\ state' = Observed(state.body, state.version) /\ planned' = None
          \/ IsNotFound(r[1]) /\ Forget
          \/ r[1] # "ok" /\ ~IsNotFound(r[1]) /\ UNCHANGED <<state, planned>>
    BY <1>6 DEF Read
  <2>4. r[1] = "ok" => server # Gone
    BY <2>3 DEF Answers, Replies
  <2>5. QED
    BY <1>5, <1>6, <2>1, <2>2, <2>3, <2>4 DEF Read, Forget, TypeOK
<1>7. CASE Import
  BY <1>5, <1>7 DEF Import, TypeOK
<1>8. CASE Delete
  BY <1>8 DEF Delete, Forget, TypeOK
<1>9. CASE Somebody
  BY <1>9 DEF Somebody, TypeOK
<1>10. CASE UNCHANGED vars
  BY <1>10 DEF vars, TypeOK
<1>11. QED
  BY <1>1, <1>3, <1>4, <1>6, <1>7, <1>8, <1>9, <1>10 DEF Next

\* The types of the variables, and which entries can lack a body.
THEOREM SecretsTypeOK == Spec => []TypeOK
<1>1. QED
  BY TypeInit, TypeStep, PTL DEF Spec

----------------------------------------------------------------------------
(* The secret on the server.                                               *)

LEMMA KeepStep ==
    ASSUME TypeOK, [Next]_vars, state # None, state.version # None, HasSecret, server' # Gone
    PROVE  server'.secret # None \/ (Update /\ blank' /\ kind # "credential")
<1>1. CASE Update
  <2>1. planned # None
    BY <1>1 DEF Update
  <2>2. PICK secret \in AtApply, r \in Answers(server # Gone, FALSE) :
          /\ blank' = (secret = Blank)
          /\ IF UpdateAllowed(secret)
             THEN server' = IF r[2] /\ server # Gone THEN Updated(secret) ELSE server
             ELSE Rejected
    BY <1>1 DEF Update
  <2>3. CASE UpdateAllowed(secret) /\ ~(kind # "credential" /\ secret = Blank)
    <3>1. SendsSecret => secret \notin {None, Blank}
      BY <2>1, <2>3, ManagedSendsSecret
    <3>2. Updated(secret).secret # None
      BY <3>1, MergedIs DEF Updated, HasSecret
    <3>3. QED
      BY <2>2, <2>3, <3>2 DEF HasSecret
  <2>4. CASE ~UpdateAllowed(secret)
    BY <2>2, <2>4 DEF Rejected, HasSecret
  <2>5. QED
    BY <1>1, <2>2, <2>3, <2>4
<1>2. CASE Somebody
  BY <1>2 DEF Somebody, HasSecret
<1>3. CASE Delete
  BY <1>3 DEF Delete, HasSecret
<1>4. QED
  BY <1>1, <1>2, <1>3 DEF Next, Plan, Create, Read, Import, vars, HasSecret

\* No run of Terraform erases a secret whose version is in the state, unless an
\* update finds the secret blank.
THEOREM ManagedSecretKeptHolds == Spec => ManagedSecretKept
<1>1. TypeOK /\ [Next]_vars
        => [state # None /\ state.version # None /\ HasSecret /\ server' # Gone
              => server'.secret # None \/ (Update /\ blank' /\ kind # "credential")]_vars
  BY KeepStep
<1>2. QED
  BY <1>1, SecretsTypeOK, PTL DEF Spec, ManagedSecretKept

----------------------------------------------------------------------------
(* The version in the state.                                               *)

SecretsInv == TypeOK /\ VersionNamesSecret

LEMMA VersionStep == SecretsInv /\ [Next]_vars => VersionNamesSecret'
<1> SUFFICES ASSUME SecretsInv, [Next]_vars,
                    state' # None, state'.version # None, server' # Gone, ~unsure'
             PROVE  server'.secret = supplied'
  BY DEF VersionNamesSecret
<1>0. TypeOK /\ VersionNamesSecret
  BY DEF SecretsInv
<1>1. CASE Plan
  BY <1>0, <1>1 DEF Plan, VersionNamesSecret
<1>2. CASE Create
  BY <1>0, <1>2 DEF Create, Rejected, VersionNamesSecret
<1>3. CASE Update
  <2>1. planned # None /\ state # None /\ unsure \in BOOLEAN
    BY <1>0, <1>3 DEF Update, TypeOK
  <2>2. PICK secret \in AtApply, r \in Answers(server # Gone, FALSE) :
          IF UpdateAllowed(secret)
          THEN /\ server' = IF r[2] /\ server # Gone THEN Updated(secret) ELSE server
               /\ IF r[1] = "ok"
                  THEN /\ state' = Recorded(planned)
                       /\ supplied' = IF resending THEN Merged(secret) ELSE supplied
                       /\ unsure' = (unsure /\ ~resending)
                  ELSE /\ unsure' = (unsure \/ (r[2] /\ resending))
                       /\ UNCHANGED <<state, supplied>>
          ELSE Rejected
    BY <1>3 DEF Update
  <2>3. /\ r[1] = "ok" => server # Gone /\ r[2]
        /\ r[2] => server # Gone
    BY <2>2 DEF Answers, Replies
  <2>4. CASE UpdateAllowed(secret) /\ r[1] = "ok" /\ resending
    \* The new version is not None, so the secret-bearing part was sent.
    <3>1. planned.version # None
      BY <2>2, <2>4 DEF Recorded
    <3>2. SendsSecret
      <4>1. kind \in {"connection", "connector", "credential"}
        BY <1>0, SecretsAssumption DEF TypeOK, SecretsAssumption
      <4>2. QED
        BY <2>4, <4>1 DEF SendsSecret
    <3>3. QED
      BY <2>2, <2>3, <2>4, <3>2 DEF Updated
  <2>5. CASE UpdateAllowed(secret) /\ r[1] = "ok" /\ ~resending
    <3>1. state.version # None
      BY <2>2, <2>5 DEF Recorded, resending
    <3>2. ~SendsSecret
      BY <1>0, <2>1, <2>5, <3>1, ManagedSendsSecret
    <3>3. ~unsure /\ server # Gone
      BY <2>1, <2>2, <2>3, <2>5
    <3>4. server'.secret = server.secret /\ supplied' = supplied
      BY <2>2, <2>3, <2>5, <3>2 DEF Updated
    <3>5. QED
      BY <1>0, <2>1, <3>1, <3>3, <3>4 DEF VersionNamesSecret
  <2>6. CASE UpdateAllowed(secret) /\ r[1] # "ok"
    <3>1. state.version # None /\ ~unsure /\ ~(r[2] /\ resending) /\ supplied' = supplied
      BY <2>1, <2>2, <2>6
    <3>2. SendsSecret <=> resending
      BY <1>0, <2>1, <2>6, <3>1, ManagedSendsSecret
    <3>3. server # Gone /\ server'.secret = server.secret
      BY <2>2, <2>3, <2>6, <3>1, <3>2 DEF Updated
    <3>4. QED
      BY <1>0, <2>1, <3>1, <3>3 DEF VersionNamesSecret
  <2>7. CASE ~UpdateAllowed(secret)
    BY <1>0, <2>2, <2>7 DEF Rejected, VersionNamesSecret
  <2>8. QED
    BY <2>4, <2>5, <2>6, <2>7
<1>4. CASE Read
  BY <1>0, <1>4 DEF Read, Observed, Forget, VersionNamesSecret
<1>5. CASE Import
  BY <1>5 DEF Import, Observed
<1>6. CASE Delete
  BY <1>0, <1>6 DEF Delete, Forget, VersionNamesSecret
<1>7. CASE Somebody
  BY <1>0, <1>7 DEF Somebody, VersionNamesSecret, TypeOK
<1>8. CASE UNCHANGED vars
  BY <1>0, <1>8 DEF vars, VersionNamesSecret
<1>9. QED
  BY <1>1, <1>2, <1>3, <1>4, <1>5, <1>6, <1>7, <1>8 DEF Next

\* The version in the state names the secret on the server.
THEOREM VersionNamesSecretHolds == Spec => []VersionNamesSecret
<1>1. Init => SecretsInv
  BY TypeInit DEF Init, SecretsInv, VersionNamesSecret
<1>2. SecretsInv /\ [Next]_vars => SecretsInv'
  BY TypeStep, VersionStep DEF SecretsInv
<1>3. SecretsInv => VersionNamesSecret
  BY DEF SecretsInv
<1>4. QED
  BY <1>1, <1>2, <1>3, PTL DEF Spec
=============================================================================
