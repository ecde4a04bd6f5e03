------------------------- MODULE RuntimeConfigProof -------------------------
(***************************************************************************)
(* For any number of concurrent PUT requests, any secrets and any crashes: *)
(* the configuration keeps its types and the client token differs from the *)
(* panel password while the process serves.                                *)
(*                                                                         *)
(* SecretsDiffer is not inductive: Update stores a record merged earlier,  *)
(* in a snapshot others may have replaced.  It holds because Update stores *)
(* the whole record, so IInv claims Differ for every merged record that    *)
(* waits for the lock, and for the record of a process that starts.        *)
(***************************************************************************)
EXTENDS RuntimeConfig, TLAPS

IInv ==
    /\ TypeOK
    /\ process # "down" => Differ(data)
    /\ \A p \in Admins : pc[p] = "merged" => Differ(merged[p]) /\ request[p] \in Request
    /\ \A p \in Admins : pc[p] # "idle" => process = "serving"
    /\ lock = "startup" => process = "starting"
    /\ stage # "none" => process # "down"

\* The environment's defaults are a configuration.
LEMMA EnvIsData == Env \in Data
BY ConfigAssumption DEF Env, Data, Secret, Mapping

\* What the process starts from is a configuration.
LEMMA LoadedIsData ==
    ASSUME TypeOK
    PROVE  Loaded \in Data
<1>1. file.data \in Data
  BY DEF TypeOK
<1>2. loadFromFile(file.data) \in Data
  BY <1>1, EnvIsData DEF loadFromFile, OrElse, Data
<1> QED
  BY <1>2, EnvIsData DEF Loaded

\* A normalized configuration has a password that is not the token.
LEMMA NormalizedDiffers ==
    ASSUME NEW d \in Data, NEW e \in Normalized(d)
    PROVE  e \in Data /\ Differ(e)
<1>1. PICK t \in Tokens(d) : \E p \in Passwords(WithToken(d, t)) :
         e = WithPassword(WithToken(d, t), p)
  BY DEF Normalized
<1>2. PICK p \in Passwords(WithToken(d, t)) : e = WithPassword(WithToken(d, t), p)
  BY <1>1
<1>3. Prefixed \subseteq Secret
  BY ConfigAssumption DEF Secret
<1>4. t \in Secret
  BY <1>1, <1>3 DEF Tokens, Fresh, Data
<1>5. PICK f : f = WithToken(d, t)
  OBVIOUS
<1>6. f \in Data /\ f.authToken = t
  BY <1>4, <1>5 DEF WithToken, Data
<1>7. p \in Secret /\ p # t
  BY <1>2, <1>3, <1>5, <1>6 DEF Passwords, Fresh, PasswordRefused, Data
<1>8. e \in Data /\ e.authToken = t /\ e.adminPassword = p
  BY <1>2, <1>5, <1>6, <1>7 DEF WithPassword, Data
<1> QED
  BY <1>7, <1>8 DEF Differ

\* A request that is not refused merges into a record whose secrets differ.
LEMMA MergedDiffers ==
    ASSUME NEW d \in Data, Differ(d), NEW req \in Request, ~ Refused(d, req)
    PROVE  Merge(d, req) \in Data /\ Differ(Merge(d, req))
<1>1. Unset \notin Secret /\ Unset \notin Mapping
  BY ConfigAssumption
<1>2. Merge(d, req) \in Data
  BY <1>1 DEF Merge, Data, Request
<1>3. Differ(Merge(d, req))
  BY DEF Refused, Merge, Differ
<1> QED
  BY <1>2, <1>3

LEMMA InitEstablishesIInv == Init => IInv
BY EnvIsData, ConfigAssumption DEF Init, IInv, TypeOK

LEMMA StartKeepsIInv ==
    ASSUME IInv, Start
    PROVE  IInv'
<1>1. data' \in Data /\ Differ(data)'
  BY LoadedIsData, NormalizedDiffers DEF IInv, Start, Differ
<1>2. \A p \in Admins : pc[p] = "idle"
  BY DEF IInv, TypeOK, Start
<1>3. CASE data' = Loaded
  BY <1>1, <1>2, <1>3 DEF Start, IInv, TypeOK, Differ
<1>4. CASE data' # Loaded
  BY <1>1, <1>2, <1>4 DEF Start, IInv, TypeOK, Differ
<1> QED
  BY <1>3, <1>4

LEMMA PutKeepsIInv ==
    ASSUME IInv, NEW p \in Admins, Put(p)
    PROVE  IInv'
<1>1. PICK req \in Requests :
         \/ /\ Refused(data, req)
            /\ reply' = [reply EXCEPT ![p] = "refused"]
            /\ UNCHANGED <<request, merged, pc>>
         \/ /\ ~ Refused(data, req)
            /\ request' = [request EXCEPT ![p] = req]
            /\ merged' = [merged EXCEPT ![p] = Merge(data, req)]
            /\ pc' = [pc EXCEPT ![p] = "merged"]
            /\ reply' = [reply EXCEPT ![p] = "none"]
  BY DEF Put
<1>2. req \in Request /\ puts' \in Nat /\ process = "serving"
      /\ UNCHANGED <<process, data, file, lock, stage, acked>>
  BY ConfigAssumption DEF Put, IInv, TypeOK, config
<1>3. CASE Refused(data, req)
  BY <1>1, <1>2, <1>3 DEF IInv, TypeOK, Differ
<1>4. CASE ~ Refused(data, req)
  <2>1. Merge(data, req) \in Data /\ Differ(Merge(data, req))
    BY <1>2, <1>4, MergedDiffers DEF IInv, TypeOK
  <2>2. TypeOK'
    BY <1>1, <1>2, <1>4, <2>1 DEF IInv, TypeOK
  <2>3. \A q \in Admins : pc'[q] = "merged" => Differ(merged'[q]) /\ request'[q] \in Request
    BY <1>1, <1>2, <1>4, <2>1 DEF IInv, TypeOK
  <2> QED
    BY <1>1, <1>2, <1>4, <2>2, <2>3 DEF IInv, TypeOK, Differ
<1> QED
  BY <1>3, <1>4

\* A handler that returns keeps what IInv says of the others.
LEMMA ReturnKeepsLocals ==
    ASSUME TypeOK, NEW ps, Return(ps)
    PROVE  /\ request' \in [Admins -> Request \cup {Unset}]
           /\ merged' \in [Admins -> Data]
           /\ pc' \in [Admins -> {"idle", "merged", "updating"}]
           /\ \A q \in Admins : q \in ps => pc'[q] = "idle"
           /\ \A q \in Admins : q \notin ps => /\ pc'[q] = pc[q] /\ merged'[q] = merged[q]
                                               /\ request'[q] = request[q]
BY EnvIsData DEF Return, TypeOK

LEMMA UpdateRefusesKeepsIInv ==
    ASSUME IInv, NEW p \in Admins, UpdateRefuses(p)
    PROVE  IInv'
<1>1. TypeOK'
  BY ReturnKeepsLocals DEF UpdateRefuses, IInv, TypeOK, config
<1> QED
  BY <1>1, ReturnKeepsLocals DEF UpdateRefuses, IInv, TypeOK, config, Differ

LEMMA UpdateKeepsIInv ==
    ASSUME IInv, NEW p \in Admins, Update(p)
    PROVE  IInv'
<1>1. merged[p] \in Data /\ Differ(merged[p]) /\ process = "serving" /\ p # "startup"
  BY ConfigAssumption DEF Update, IInv, TypeOK
<1>2. TypeOK'
  BY <1>1 DEF Update, IInv, TypeOK
<1>3. \A q \in Admins : pc'[q] = "merged" => pc[q] = "merged"
  BY DEF Update, IInv, TypeOK
<1> QED
  BY <1>1, <1>2, <1>3 DEF Update, IInv, TypeOK, Differ

LEMMA SaveKeepsIInv ==
    ASSUME IInv, OpenFile \/ WriteFile \/ SaveFails
    PROVE  IInv'
<1>1. CASE OpenFile
  <2>1. file' \in [state : {"absent", "truncated", "whole"}, data : Data]
    BY <1>1 DEF OpenFile, IInv, TypeOK
  <2> QED
    BY <1>1, <2>1 DEF OpenFile, IInv, TypeOK, Differ
<1>2. CASE WriteFile
  <2>1. TypeOK'
    BY <1>2, ReturnKeepsLocals DEF WriteFile, Release, IInv, TypeOK
  <2> QED
    BY <1>2, <2>1, ReturnKeepsLocals DEF WriteFile, Release, IInv, TypeOK, Differ
<1>3. CASE SaveFails
  <2>1. TypeOK'
    BY <1>3, ReturnKeepsLocals DEF SaveFails, Release, IInv, TypeOK
  <2> QED
    BY <1>3, <2>1, ReturnKeepsLocals DEF SaveFails, Release, IInv, TypeOK, Differ
<1> QED
  BY <1>1, <1>2, <1>3

LEMMA CrashKeepsIInv ==
    ASSUME IInv, Crash
    PROVE  IInv'
<1>1. TypeOK'
  BY ReturnKeepsLocals DEF Crash, IInv, TypeOK
<1> QED
  BY <1>1, ReturnKeepsLocals DEF Crash, IInv, TypeOK

LEMMA NextKeepsIInv == IInv /\ [Next]_vars => IInv'
<1> SUFFICES ASSUME IInv, [Next]_vars
             PROVE  IInv'
  OBVIOUS
<1>1. CASE UNCHANGED vars
  BY <1>1 DEF vars, IInv, TypeOK, Differ
<1> QED
  BY <1>1, StartKeepsIInv, PutKeepsIInv, UpdateRefusesKeepsIInv, UpdateKeepsIInv,
     SaveKeepsIInv, CrashKeepsIInv DEF Next

\* RuntimeConfig and updateConfig keep the types of what they store.
THEOREM ConfigTypes == Spec => []TypeOK
<1>1. IInv => TypeOK
  BY DEF IInv
<1> QED
  BY <1>1, InitEstablishesIInv, NextKeepsIInv, PTL DEF Spec

\* However PUT requests overlap, fail or are cut off by a crash, the client token
\* and the panel password differ while the process serves.
THEOREM SecretsAlwaysDiffer == Spec => []SecretsDiffer
<1>1. IInv => SecretsDiffer
  BY DEF IInv, SecretsDiffer
<1> QED
  BY <1>1, InitEstablishesIInv, NextKeepsIInv, PTL DEF Spec

-----------------------------------------------------------------------------
(* What a restart serves.  The file, when it is whole, holds what was       *)
(* acknowledged last, but for the defaults that loading fills in; and no    *)
(* configuration lacks an API key that the environment has, so the key that *)
(* loading fills in cannot make an acknowledged token unsuitable.           *)

HasKey(d) == EnvKey # Empty => d.apiKey # Empty

RInv ==
    /\ HasKey(data) /\ HasKey(acked) /\ HasKey(file.data)
    /\ \A p \in Admins : HasKey(merged[p])
    /\ file.state = "whole" => acked \in {file.data, loadFromFile(file.data)}

\* Loading what was loaded changes nothing.
LEMMA LoadingIsIdempotent ==
    ASSUME NEW d \in Data
    PROVE  /\ loadFromFile(d) \in Data /\ HasKey(loadFromFile(d))
           /\ loadFromFile(loadFromFile(d)) = loadFromFile(d)
BY EnvIsData DEF loadFromFile, OrElse, Data, HasKey, Env

\* Normalizing replaces unsuitable secrets only.
LEMMA NormalizedKeeps ==
    ASSUME NEW d \in Data, NEW e \in Normalized(d)
    PROVE  /\ e.apiKey = d.apiKey /\ e.models = d.models
           /\ ~ TokenRefused(d) => /\ e.authToken = d.authToken
                                   /\ ~ PasswordRefused(d) => e.adminPassword = d.adminPassword
<1>1. PICK t \in Tokens(d) : \E p \in Passwords(WithToken(d, t)) :
         e = WithPassword(WithToken(d, t), p)
  BY DEF Normalized
<1>2. PICK p \in Passwords(WithToken(d, t)) : e = WithPassword(WithToken(d, t), p)
  BY <1>1
<1>3. PICK f : f = WithToken(d, t)
  OBVIOUS
<1>4. /\ f.apiKey = d.apiKey /\ f.models = d.models
      /\ f.authToken = t /\ f.adminPassword = d.adminPassword
  BY <1>3 DEF WithToken, Data
<1>5. /\ e.apiKey = d.apiKey /\ e.models = d.models
      /\ e.authToken = t /\ e.adminPassword = p
  BY <1>2, <1>3, <1>4 DEF WithPassword, WithToken, Data
<1>6. ~ TokenRefused(d) => t = d.authToken
  BY <1>1 DEF Tokens
<1>7. ~ TokenRefused(d) /\ ~ PasswordRefused(d) => p = d.adminPassword
  <2> SUFFICES ASSUME ~ TokenRefused(d), ~ PasswordRefused(d)
               PROVE  p = d.adminPassword
    OBVIOUS
  <2>1. ~ PasswordRefused(f)
    BY <1>4, <1>6 DEF PasswordRefused
  <2> QED
    BY <1>2, <1>3, <1>4, <2>1 DEF Passwords
<1> QED
  BY <1>5, <1>6, <1>7

\* A process that is started with a whole file loads what was acknowledged.
LEMMA LoadsAcknowledged ==
    ASSUME IInv, RInv, file.state = "whole"
    PROVE  Loaded = loadFromFile(acked)
<1>1. file.data \in Data
  BY DEF IInv, TypeOK
<1> QED
  BY <1>1, LoadingIsIdempotent DEF RInv, Loaded

LEMMA LoadedHasKey ==
    ASSUME IInv
    PROVE  Loaded \in Data /\ HasKey(Loaded)
<1>1. file.data \in Data
  BY DEF IInv, TypeOK
<1> QED
  BY <1>1, LoadingIsIdempotent, EnvIsData DEF Loaded, HasKey, Env

LEMMA NextKeepsRInv == IInv /\ RInv /\ [Next]_vars => RInv'
<1> SUFFICES ASSUME IInv, RInv, [Next]_vars
             PROVE  RInv'
  OBVIOUS
<1>1. CASE Start
  <2>1. data'.apiKey = Loaded.apiKey
    BY <1>1, LoadedHasKey, NormalizedKeeps DEF Start
  <2>2. HasKey(data)'
    BY <2>1, LoadedHasKey DEF HasKey
  <2>3. acked' \in {acked, data'} /\ UNCHANGED <<file, merged>>
    BY <1>1 DEF Start
  <2>4. file.state = "whole" /\ acked' # acked => acked' = loadFromFile(file.data)
    BY <1>1 DEF Start, Loaded
  <2> QED
    BY <2>2, <2>3, <2>4 DEF RInv, HasKey
<1>2. ASSUME NEW p \in Admins, Put(p)
      PROVE  RInv'
  <2>1. UNCHANGED <<data, file, acked>>
    BY <1>2 DEF Put, config
  <2>2. \/ UNCHANGED merged
        \/ \E req \in Requests : merged' = [merged EXCEPT ![p] = Merge(data, req)]
    BY <1>2 DEF Put
  <2>3. \A req \in Requests : HasKey(Merge(data, req))
    BY DEF RInv, HasKey, Merge
  <2>4. \A q \in Admins : HasKey(merged'[q])
    BY <2>2, <2>3 DEF RInv, IInv, TypeOK
  <2> QED
    BY <2>1, <2>4 DEF RInv, HasKey
<1>3. ASSUME NEW ps, Return(ps)
      PROVE  \A q \in Admins : HasKey(merged'[q])
  BY <1>3 DEF Return, RInv, HasKey, Env
<1>4. ASSUME NEW p \in Admins, UpdateRefuses(p)
      PROVE  RInv'
  BY <1>3, <1>4 DEF UpdateRefuses, RInv, config, HasKey
<1>5. ASSUME NEW p \in Admins, Update(p)
      PROVE  RInv'
  BY <1>5 DEF Update, RInv, HasKey
<1>6. CASE OpenFile
  <2>1. file'.state = "truncated" /\ file'.data = file.data
    BY <1>6 DEF OpenFile, IInv, TypeOK
  <2> QED
    BY <1>6, <2>1 DEF OpenFile, RInv, HasKey
<1>7. CASE WriteFile
  BY <1>3, <1>7 DEF WriteFile, Release, RInv, HasKey
<1>8. CASE SaveFails
  BY <1>3, <1>8 DEF SaveFails, Release, RInv, HasKey
<1>9. CASE Crash
  BY <1>3, <1>9 DEF Crash, RInv, HasKey
<1>10. CASE UNCHANGED vars
  BY <1>10 DEF vars, RInv, HasKey
<1> QED
  BY <1>1, <1>2, <1>4, <1>5, <1>6, <1>7, <1>8, <1>9, <1>10 DEF Next

\* A start that finds a whole file serves what was acknowledged last.
LEMMA StartServesAcknowledged ==
    ASSUME IInv, RInv, Start, file.state = "whole"
    PROVE  /\ data'.apiKey = OrElse(acked.apiKey, EnvKey)
           /\ data'.models = OrElse(acked.models, EnvModels)
           /\ ~ TokenRefused(acked) => /\ data'.authToken = acked.authToken
                                       /\ ~ PasswordRefused(acked) =>
                                             data'.adminPassword = acked.adminPassword
<1>1. acked \in Data /\ HasKey(acked) /\ Loaded \in Data /\ data' \in Normalized(Loaded)
  BY LoadedIsData DEF IInv, TypeOK, RInv, Start
<1>2. /\ Loaded.apiKey = OrElse(acked.apiKey, EnvKey)
      /\ Loaded.authToken = OrElse(acked.authToken, EnvToken)
      /\ Loaded.adminPassword = OrElse(acked.adminPassword, Empty)
      /\ Loaded.models = OrElse(acked.models, EnvModels)
  BY LoadsAcknowledged DEF loadFromFile, Env
<1>3. ~ TokenRefused(acked) =>
         /\ Loaded.authToken = acked.authToken
         /\ Loaded.apiKey = acked.apiKey \/ (acked.apiKey = Empty /\ Loaded.apiKey = Empty)
         /\ ~ TokenRefused(Loaded)
  BY <1>1, <1>2 DEF TokenRefused, OrElse, HasKey
<1>4. Loaded.adminPassword = acked.adminPassword
  BY <1>2 DEF OrElse
<1>5. ~ TokenRefused(acked) /\ ~ PasswordRefused(acked) => ~ PasswordRefused(Loaded)
  BY <1>3, <1>4 DEF PasswordRefused
<1> QED
  BY <1>1, <1>2, <1>3, <1>4, <1>5, NormalizedKeeps

\* Whatever was under way when the process crashed and whichever saves failed, a
\* process that starts from a whole file serves what was acknowledged last.
THEOREM RestartsServeAcknowledged == Spec => RestartServesAcknowledged
<1>1. Init => RInv
  BY DEF Init, RInv, HasKey, Env
<1>2. IInv /\ RInv /\ [Next]_vars =>
        [process = "down" /\ process' # "down" /\ file.state = "whole" =>
         /\ data'.apiKey = OrElse(acked.apiKey, EnvKey)
         /\ data'.models = OrElse(acked.models, EnvModels)
         /\ ~ TokenRefused(acked) => /\ data'.authToken = acked.authToken
                                     /\ ~ PasswordRefused(acked) =>
                                           data'.adminPassword = acked.adminPassword]_vars
  <2> SUFFICES ASSUME IInv, RInv, [Next]_vars, process = "down", process' # "down",
                      file.state = "whole"
               PROVE  /\ data'.apiKey = OrElse(acked.apiKey, EnvKey)
                      /\ data'.models = OrElse(acked.models, EnvModels)
                      /\ ~ TokenRefused(acked) => /\ data'.authToken = acked.authToken
                                                  /\ ~ PasswordRefused(acked) =>
                                                        data'.adminPassword = acked.adminPassword
    OBVIOUS
  <2>1. stage = "none" /\ \A p \in Admins : pc[p] = "idle"
    BY DEF IInv, TypeOK
  <2>2. Start
    BY <2>1 DEF Next, Put, UpdateRefuses, Update, OpenFile, WriteFile, SaveFails, Crash, vars
  <2> QED
    BY <2>2, StartServesAcknowledged
<1> QED
  BY <1>1, <1>2, InitEstablishesIInv, NextKeepsIInv, NextKeepsRInv, PTL
  DEF Spec, RestartServesAcknowledged
=============================================================================
