--------------------------- MODULE RuntimeConfig ---------------------------
(***************************************************************************)
(* The configuration that the admin panel changes while the bridge runs:   *)
(* RuntimeConfig (internal/config/runtime.go) keeps it in memory under a   *)
(* lock and in runtime_config.json, updateConfig                           *)
(* (internal/admin/handler.go) serves the PUT requests.                    *)
(*                                                                         *)
(* A PUT reads a snapshot under the read lock, merges the request into it  *)
(* and writes the whole record back under the write lock; the two are      *)
(* separate critical sections.  os.WriteFile truncates the file, then      *)
(* writes it.  The process may crash between any two of these steps and is *)
(* started again from the file.                                            *)
(*                                                                         *)
(* Of the configuration the model keeps the three secrets, which are       *)
(* compared with one another, and the model mappings, which have a default *)
(* in the environment.  The service URL, auto_compact and prompt_cache are *)
(* merged, saved and loaded like these.                                    *)
(***************************************************************************)
EXTENDS Integers, FiniteSets

CONSTANTS
    Admins,     \* PUT requests in progress at a time
    Secrets,    \* non-empty tokens, passwords and API keys
    Prefixed,   \* the secrets of the form sk-cdx.cc-...
    Empty,      \* ""
    Unset,      \* a field the request leaves out (nil)
    Mappings,   \* non-empty model mappings
    EnvKey, EnvToken, EnvModels, \* defaults from the environment
    Requests,   \* the PUT bodies considered
    MaxPuts     \* bound on the number of PUT requests

Secret  == Secrets \cup {Empty}
Mapping == Mappings \cup {Empty}

Data == [apiKey : Secret, authToken : Secret, adminPassword : Secret, models : Mapping]

\* valid: Update accepts the base URL, auto_compact and prompt_cache it results in.
Request == [apiKey        : Secret,
            authToken     : Secret \cup {Unset},
            adminPassword : Secret \cup {Unset},
            models        : Mapping \cup {Unset},
            valid         : BOOLEAN]

ASSUME ConfigAssumption ==
    /\ Empty \notin Secrets \cup Mappings
    /\ Unset \notin Secret \cup Mapping
    /\ Prefixed \subseteq Secrets
    /\ EnvKey \in Secret /\ EnvToken \in Secret /\ EnvModels \in Mapping
    /\ Requests \subseteq Request
    /\ Admins \cap {"free", "startup"} = {}
    /\ MaxPuts \in Nat

VARIABLES
    process,    \* "down", "starting" (NewRuntimeConfig saves) or "serving"
    data,       \* rc.data
    file,       \* runtime_config.json: [state, data]
    lock,       \* who holds rc.mu for writing: "free", "startup" or an admin
    stage,      \* how far the save of its holder is: "none", "set", "opened"
    request,    \* the PUT body each admin sent
    merged,     \* each admin's variable current, once merged
    pc,         \* "idle", "merged" (before Update takes the lock), "updating"
    reply,      \* the answer to each admin's last request
    puts,       \* number of PUT requests so far
    acked       \* the configuration last acknowledged, by a reply or by serving

config == <<process, data, file>>
vars   == <<process, data, file, lock, stage, request, merged, pc, reply, puts, acked>>

-----------------------------------------------------------------------------
(* NewRuntimeConfig                                                         *)

Env == [apiKey |-> EnvKey, authToken |-> EnvToken, adminPassword |-> Empty,
        models |-> EnvModels]

OrElse(value, default) == IF value = Empty THEN default ELSE value

\* Bug for mutation: the saved password is not read back.
loadFromFile_noPassword(saved) ==
    [apiKey        |-> OrElse(saved.apiKey, Env.apiKey),
     authToken     |-> OrElse(saved.authToken, Env.authToken),
     adminPassword |-> Env.adminPassword,
     models        |-> OrElse(saved.models, Env.models)]

\* Only the fields that are not empty replace those of the environment; an
\* empty mapping is not even written (omitempty).
loadFromFile(saved) ==
    [apiKey        |-> OrElse(saved.apiKey, Env.apiKey),
     authToken     |-> OrElse(saved.authToken, Env.authToken),
     adminPassword |-> OrElse(saved.adminPassword, Env.adminPassword),
     models        |-> OrElse(saved.models, Env.models)]

Loaded == IF file.state = "absent" THEN Env ELSE loadFromFile(file.data)

TokenRefused(d) ==
    d.authToken = Empty \/ (d.apiKey # Empty /\ d.authToken = d.apiKey)

PasswordRefused(d) ==
    d.adminPassword \notin Prefixed \/ d.adminPassword = d.authToken

\* generateToken, generatePassword: random, so different from all in use.
Fresh(d) == Prefixed \ {d.apiKey, d.authToken, d.adminPassword}

WithToken(d, t)    == [d EXCEPT !.authToken = t]
WithPassword(d, p) == [d EXCEPT !.adminPassword = p]

Tokens(d)    == IF TokenRefused(d) THEN Fresh(d) ELSE {d.authToken}
Passwords(d) == IF PasswordRefused(d) THEN Fresh(d) ELSE {d.adminPassword}

\* The configurations the process may start with: unsuitable secrets replaced,
\* the token first.
Normalized(d) ==
    UNION {{WithPassword(WithToken(d, t), p) : p \in Passwords(WithToken(d, t))} : t \in Tokens(d)}

-----------------------------------------------------------------------------
(* updateConfig                                                             *)

\* Bug for mutation: mappings the request leaves out are taken over.
Merge_unset(d, req) ==
    [apiKey        |-> IF req.apiKey = Empty THEN d.apiKey ELSE req.apiKey,
     authToken     |-> IF req.authToken = Unset THEN d.authToken ELSE req.authToken,
     adminPassword |-> IF req.adminPassword = Unset THEN d.adminPassword ELSE req.adminPassword,
     models        |-> req.models]

\* A field the request leaves out keeps its value; an API key cannot be cleared.
Merge(d, req) ==
    [apiKey        |-> IF req.apiKey = Empty THEN d.apiKey ELSE req.apiKey,
     authToken     |-> IF req.authToken = Unset THEN d.authToken ELSE req.authToken,
     adminPassword |-> IF req.adminPassword = Unset THEN d.adminPassword ELSE req.adminPassword,
     models        |-> IF req.models = Unset THEN d.models ELSE req.models]

\* Bug for mutation: the new password is compared with the old token.
Refused_oldToken(d, req) ==
    \/ /\ req.authToken \notin {Unset, Empty}
       /\ req.authToken \in {Merge(d, req).apiKey, d.adminPassword}
    \/ /\ req.adminPassword \notin {Unset, Empty}
       /\ req.adminPassword = d.authToken

\* The token is compared with the new API key and the old password, the
\* password with the new token.
Refused(d, req) ==
    \/ /\ req.authToken \notin {Unset, Empty}
       /\ req.authToken \in {Merge(d, req).apiKey, d.adminPassword}
    \/ /\ req.adminPassword \notin {Unset, Empty}
       /\ req.adminPassword = Merge(d, req).authToken

-----------------------------------------------------------------------------
Init ==
    /\ process = "down"
    /\ data = Env
    /\ file = [state |-> "absent", data |-> Env]
    /\ lock = "free" /\ stage = "none"
    /\ request = [p \in Admins |-> Unset]
    /\ merged = [p \in Admins |-> Env]
    /\ pc = [p \in Admins |-> "idle"]
    /\ reply = [p \in Admins |-> "none"]
    /\ puts = 0
    /\ acked = Env

\* A truncated file is no JSON: the process does not start from it.
Start ==
    /\ process = "down"
    /\ file.state # "truncated"
    /\ data' \in Normalized(Loaded)
    /\ IF data' = Loaded
       THEN /\ process' = "serving"
            /\ acked' = data'
            /\ UNCHANGED <<lock, stage>>
       ELSE /\ process' = "starting"
            /\ lock' = "startup" /\ stage' = "set"
            /\ UNCHANGED acked
    /\ UNCHANGED <<file, request, merged, pc, reply, puts>>

\* The handler decodes the request, takes a snapshot (rc.Get) and merges.
Put(p) ==
    /\ process = "serving"
    /\ lock = "free"
    /\ pc[p] = "idle"
    /\ puts < MaxPuts
    /\ puts' = puts + 1
    /\ \E req \in Requests :
          \/ /\ Refused(data, req)
             /\ reply' = [reply EXCEPT ![p] = "refused"]
             /\ UNCHANGED <<request, merged, pc>>
          \/ /\ ~ Refused(data, req)
             /\ request' = [request EXCEPT ![p] = req]
             /\ merged' = [merged EXCEPT ![p] = Merge(data, req)]
             /\ pc' = [pc EXCEPT ![p] = "merged"]
             /\ reply' = [reply EXCEPT ![p] = "none"]
    /\ UNCHANGED <<config, lock, stage, acked>>

\* The handlers in ps return: their variables are gone.
Return(ps) ==
    /\ request' = [p \in Admins |-> IF p \in ps THEN Unset ELSE request[p]]
    /\ merged' = [p \in Admins |-> IF p \in ps THEN Env ELSE merged[p]]
    /\ pc' = [p \in Admins |-> IF p \in ps THEN "idle" ELSE pc[p]]

\* Update refuses a configuration before it takes the lock.
UpdateRefuses(p) ==
    /\ pc[p] = "merged"
    /\ ~ request[p].valid
    /\ Return({p})
    /\ reply' = [reply EXCEPT ![p] = "refused"]
    /\ UNCHANGED <<config, lock, stage, puts, acked>>

\* Update takes the lock and replaces the whole record.
Update(p) ==
    /\ pc[p] = "merged"
    /\ request[p].valid
    /\ lock = "free"
    /\ lock' = p /\ stage' = "set"
    /\ data' = merged[p]
    /\ pc' = [pc EXCEPT ![p] = "updating"]
    /\ UNCHANGED <<process, file, request, merged, reply, puts, acked>>

\* os.WriteFile opens the file with O_TRUNC.
OpenFile ==
    /\ stage = "set"
    /\ stage' = "opened"
    /\ file' = [file EXCEPT !.state = "truncated"]
    /\ UNCHANGED <<process, data, lock, request, merged, pc, reply, puts, acked>>

\* The holder of the lock answers and releases it.
Release(answer) ==
    /\ lock' = "free" /\ stage' = "none"
    /\ Return({lock})
    /\ reply' = [p \in Admins |-> IF p = lock THEN answer ELSE reply[p]]
    /\ UNCHANGED <<data, puts>>

WriteFile ==
    /\ stage = "opened"
    /\ file' = [state |-> "whole", data |-> data]
    /\ acked' = data
    /\ process' = "serving"
    /\ Release("ok")

\* Bug for mutation: the lock is not released on the error path.
SaveFails_locked ==
    /\ stage \in {"set", "opened"}
    /\ stage' = "none"
    /\ reply' = [p \in Admins |-> IF p = lock THEN "failed" ELSE reply[p]]
    /\ UNCHANGED <<process, file, data, lock, request, merged, pc, puts, acked>>

\* MkdirAll or WriteFile fails: the request is answered with an error, a
\* process that was starting exits.
SaveFails ==
    /\ stage \in {"set", "opened"}
    /\ process' = IF lock = "startup" THEN "down" ELSE process
    /\ Release("failed")
    /\ UNCHANGED <<file, acked>>

Crash ==
    /\ process # "down"
    /\ process' = "down"
    /\ lock' = "free" /\ stage' = "none"
    /\ Return(Admins)
    /\ reply' = [p \in Admins |-> "none"]
    /\ UNCHANGED <<data, file, puts, acked>>

Next ==
    \/ Start
    \/ \E p \in Admins : Put(p) \/ UpdateRefuses(p) \/ Update(p)
    \/ OpenFile
    \/ WriteFile
    \/ SaveFails
    \/ Crash

Spec == Init /\ [][Next]_vars

\* A handler that runs goes on, and sync.RWMutex lets every waiting writer in.
FairSpec ==
    /\ Spec
    /\ WF_vars(OpenFile)
    /\ WF_vars(WriteFile \/ SaveFails)
    /\ \A p \in Admins : WF_vars(UpdateRefuses(p)) /\ SF_vars(Update(p))

-----------------------------------------------------------------------------
(* Properties                                                               *)

\* The configuration, the file and what each request holds keep their types, and
\* the lock is free or held by the start of the process or by one request.
TypeOK ==
    /\ process \in {"down", "starting", "serving"}
    /\ data \in Data
    /\ file \in [state : {"absent", "truncated", "whole"}, data : Data]
    /\ lock \in Admins \cup {"free", "startup"}
    /\ stage \in {"none", "set", "opened"}
    /\ request \in [Admins -> Request \cup {Unset}]
    /\ merged \in [Admins -> Data]
    /\ pc \in [Admins -> {"idle", "merged", "updating"}]
    /\ reply \in [Admins -> {"none", "ok", "refused", "failed"}]
    /\ puts \in Nat
    /\ acked \in Data

Differ(d) == d.authToken # Empty => d.authToken # d.adminPassword

\* The token of the clients and the password of the panel differ while the
\* process serves, although updateConfig compares them in a snapshot that other
\* requests may have replaced when Update stores it.
SecretsDiffer == process = "serving" => Differ(data)

\* A process that starts from the file serves the configuration acknowledged
\* last, whatever was under way when it crashed and whichever saves failed; only
\* what NewRuntimeConfig refuses or takes for absent is replaced.
RestartServesAcknowledged ==
    [][process = "down" /\ process' # "down" /\ file.state = "whole" =>
         /\ data'.apiKey = OrElse(acked.apiKey, EnvKey)
         /\ data'.models = OrElse(acked.models, EnvModels)
         /\ ~ TokenRefused(acked) => /\ data'.authToken = acked.authToken
                                     /\ ~ PasswordRefused(acked) =>
                                           data'.adminPassword = acked.adminPassword]_vars

\* A field that a request leaves out is not modified by it
\* (internal/admin/handler.go: auth_token and admin_password, nil).
UnsetFieldsKept ==
    [][\A p \in Admins : pc[p] = "merged" /\ pc'[p] = "updating" =>
         /\ request[p].authToken = Unset => data'.authToken = data.authToken
         /\ request[p].adminPassword = Unset => data'.adminPassword = data.adminPassword]_vars

\* A PUT request does not wait for ever: rc.mu is released on every path.
EveryPutReturns == \A p \in Admins : pc[p] # "idle" ~> pc[p] = "idle"
=============================================================================
