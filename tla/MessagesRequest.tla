--------------------------- MODULE MessagesRequest ---------------------------
(***************************************************************************)
(* One request after another through a handler of the server that calls    *)
(* the upstream: POST /v1/messages (whole or streamed), POST               *)
(* /v1/messages/count_tokens and POST /v1/responses/compact.  The handler  *)
(* may compact the conversation first (prepareAutoCompact), adds the       *)
(* prompt cache fields the policy asks for, sends the request, and sends   *)
(* it again without the cache fields the upstream objects to.              *)
(*                                                                         *)
(* A request is the set of cache fields it carries and what compaction     *)
(* changes of it; an upstream answer is the part of it the loops look at.  *)
(* The configuration may change at any time, so every read of it is a      *)
(* choice made where the code reads it.  Requests share nothing else.      *)
(***************************************************************************)
EXTENDS Integers, FiniteSets

CONSTANT MaxAttempts    \* the bound of the three retry loops, 3 in the code

\* Every cache field may be removed by a retry of its own.
ASSUME AttemptsAssumption == MaxAttempts \in Nat /\ MaxAttempts > 2

VARIABLES pc,        \* "ready", or what the handler does next
          endpoint,  \* the handler at work; "messages_stream" is handleStream
          request,   \* oaReq, or the body handleResponsesCompact passes on
          estimate,  \* the conversation estimatedInputTokens was counted on
          attempts,  \* how often the request was sent to the upstream
          answer,    \* the upstream's last answer
          response,  \* what the client got
          history    \* what no handler keeps: see History

vars == <<pc, endpoint, request, estimate, attempts, answer, response, history>>

CacheFields == {"prompt_cache_key", "prompt_cache_retention"}

Conversations == {"original", "compacted"}

Request == [fields : SUBSET CacheFields, conversation : Conversations,
            previousResponse : BOOLEAN, contextManagement : BOOLEAN]

\* The requests that clients make.
Incoming == {r \in Request : r.conversation = "original"}

Endpoints == {"messages", "messages_stream", "count_tokens", "responses_compact"}

CacheModes == {"off", "auto", "force_24h"}

Unsupported == [kind : {"unsupported"}, names : (SUBSET CacheFields) \ {{}}]

\* "ok" and "undecodable" have a 2xx status; "lost" is a connection that fails
\* after the upstream took the request, "unreachable" one that fails before.
\* "opaque" is a 502 that says upstream_error, "failure" any other error status.
Answer ==
    Unsupported \cup
    [kind : {"none", "ok", "undecodable", "lost", "unreachable", "opaque", "failure"},
     names : {{}}]

NoAnswer == [kind |-> "none", names |-> {}]

\* The fields the client sent, the policy its request met, the fields it had
\* when it was first sent, those the upstream has objected to since, and
\* whether the upstream may have accepted it already.
History == [asked : SUBSET CacheFields, mode : CacheModes, first : SUBSET CacheFields,
            objected : SUBSET CacheFields, accepted : BOOLEAN]

\* The request that was last sent had these fields.
LastFields == history.first \ history.objected

-----------------------------------------------------------------------------
\* applyContextManagementAutoCompact: the client's own compaction, which always
\* has a threshold (mapContextManagement), is kept.
withContextManagement(r) == [r EXCEPT !.contextManagement = TRUE]

compacted_keepsPrevious(r) ==
    [r EXCEPT !.conversation = "compacted", !.contextManagement = FALSE]

\* What applyRemoteAutoCompact makes of a request when everything went well.
compacted(r) ==
    [r EXCEPT !.conversation = "compacted", !.previousResponse = FALSE,
              !.contextManagement = FALSE]

shouldInjectPromptCacheRetention(mode, fields, cacheControl) ==
    \/ mode = "force_24h"
    \/ mode = "auto" /\ ("prompt_cache_key" \in fields \/ cacheControl)

\* The policy's fields: derivable says that a key can be derived from the
\* request, cacheControl that an Anthropic block of it has a cache_control.
withCacheFields(fields, mode, autoKey, derivable, cacheControl) ==
    LET keyed == IF autoKey /\ derivable THEN fields \cup {"prompt_cache_key"} ELSE fields
    IN  IF shouldInjectPromptCacheRetention(mode, keyed, cacheControl)
        THEN keyed \cup {"prompt_cache_retention"} ELSE keyed

\* The cache fields an answer makes the next attempt drop.
objections(a) == IF a.kind = "opaque" THEN CacheFields ELSE a.names

strip_all(fields, a) == IF objections(a) = {} THEN fields ELSE {}

\* stripUnsupportedPromptCacheFields...: the fields that are left.
strip(fields, a) == fields \ objections(a)

attemptsLeft_offByOne == attempts <= MaxAttempts

attemptsLeft == attempts < MaxAttempts

retryWhole_early(a) == attempts + 1 < MaxAttempts /\ strip(request.fields, a) # request.fields

retryWhole_onError(a) ==
    attemptsLeft /\ (a.kind = "lost" \/ strip(request.fields, a) # request.fields)

\* handleNonStream and handleResponsesCompact send again only what they changed.
retryWhole(a) == attemptsLeft /\ strip(request.fields, a) # request.fields

\* handleStream sends again after any error, changed or not.
retryStream(a) == attemptsLeft /\ a.kind \notin {"ok", "undecodable"}

\* Only handleNonStream decodes what it got; the others pass it on.
succeeds(a) ==
    \/ a.kind = "ok"
    \/ a.kind = "undecodable" /\ endpoint # "messages"

-----------------------------------------------------------------------------
Init ==
    /\ pc = "ready"
    /\ endpoint \in Endpoints
    /\ request = [fields |-> {}, conversation |-> "original",
                  previousResponse |-> FALSE, contextManagement |-> FALSE]
    /\ estimate = "original"
    /\ attempts = 0
    /\ answer = NoAnswer
    /\ response = "none"
    /\ history = [asked |-> {}, mode |-> "off", first |-> {}, objected |-> {},
                  accepted |-> FALSE]

Respond(outcome) == pc' = "ready" /\ response' = outcome

\* A client's request arrives; what the handler kept of the last one is gone.
Arrive(e, r) ==
    /\ pc = "ready"
    /\ endpoint' = e
    /\ request' = r
    /\ estimate' = "original"
    /\ attempts' = 0
    /\ answer' = NoAnswer
    /\ history' = [asked |-> r.fields, mode |-> "off", first |-> {}, objected |-> {},
                   accepted |-> FALSE]

\* The request is read, decoded and transformed.
Receive(e, r) ==
    /\ Arrive(e, r)
    /\ pc' = IF e = "responses_compact" THEN "policy" ELSE "prepare"
    /\ response' = "none"

\* The body cannot be read, or, but for count_tokens, cannot be used.
Refuse(e, r) ==
    /\ Arrive(e, r)
    /\ Respond("error")

\* count_tokens counts even what it cannot decode.
CountUndecodable(r) ==
    /\ Arrive("count_tokens", r)
    /\ Respond("success")

\* What follows prepareAutoCompact.
Prepared ==
    IF endpoint = "count_tokens"
    THEN Respond("success")
    ELSE pc' = "policy" /\ UNCHANGED response

\* prepareAutoCompact reads the configuration: off, below the threshold, or a
\* mode of its own.
PrepareAutoCompact ==
    /\ pc = "prepare"
    /\ \/ Prepared /\ UNCHANGED request
       \/ Prepared /\ request' = withContextManagement(request)
       \/ pc' = "compacting" /\ UNCHANGED <<request, response>>
    /\ UNCHANGED <<endpoint, estimate, attempts, answer, history>>

\* A compaction that is tried again until it succeeds.
CompactAnswer_startsOver ==
    /\ pc = "compacting"
    /\ \/ pc' = "prepare" /\ UNCHANGED <<request, estimate, response>>
       \/ request' = compacted(request) /\ estimate' = "compacted" /\ Prepared
    /\ UNCHANGED <<endpoint, attempts, answer, history>>

\* The upstream's answer to the compaction request: anything but a list of
\* items that can be read leaves the request as it was.
CompactAnswer ==
    /\ pc = "compacting"
    /\ \/ UNCHANGED <<request, estimate>>
       \/ request' = compacted(request) /\ estimate' = "compacted"
    /\ Prepared
    /\ UNCHANGED <<endpoint, attempts, answer, history>>

\* applyPromptCachePolicy and rewriteOpenAIRequestBody.
ApplyPolicy(mode, autoKey, derivable, cacheControl) ==
    /\ pc = "policy"
    /\ cacheControl => endpoint # "responses_compact"
    /\ LET fields == withCacheFields(request.fields, mode, autoKey, derivable, cacheControl)
       IN  /\ request' = [request EXCEPT !.fields = fields]
           /\ history' = [history EXCEPT !.mode = mode, !.first = fields]
    /\ pc' = "send"
    /\ UNCHANGED <<endpoint, estimate, attempts, answer, response>>

\* rewriteOpenAIRequestBody passes a body that is not a JSON object on as it is.
PassOn(mode) ==
    /\ pc = "policy"
    /\ endpoint = "responses_compact"
    /\ request.fields = {}
    /\ history' = [history EXCEPT !.mode = mode]
    /\ pc' = "send"
    /\ UNCHANGED <<endpoint, request, estimate, attempts, answer, response>>

Send ==
    /\ pc = "send"
    /\ attempts' = attempts + 1
    /\ pc' = "sent"
    /\ UNCHANGED <<endpoint, request, estimate, answer, response, history>>

\* What every answer changes: the request that may be sent next.
Take(a) ==
    /\ pc = "sent"
    /\ answer' = a
    /\ request' = [request EXCEPT !.fields = strip(@, a)]
    /\ UNCHANGED <<endpoint, estimate, attempts>>

\* The request goes out again: what the answer objected to is left out of it.
SendAgain(a) ==
    /\ pc' = "send"
    /\ history' = [history EXCEPT !.objected = @ \cup objections(a),
                   !.accepted = @ \/ a.kind \in {"ok", "undecodable", "lost"}]
    /\ UNCHANGED response

HandleAnswer(a) ==
    /\ endpoint \in {"messages", "responses_compact"}
    /\ Take(a)
    /\ IF retryWhole(a)
       THEN SendAgain(a)
       ELSE Respond(IF succeeds(a) THEN "success" ELSE "error") /\ UNCHANGED history

HandleStreamAnswer(a) ==
    /\ endpoint = "messages_stream"
    /\ Take(a)
    /\ IF retryStream(a)
       THEN SendAgain(a)
       ELSE Respond(IF succeeds(a) THEN "success" ELSE "error") /\ UNCHANGED history

Handle ==
    \/ PrepareAutoCompact
    \/ CompactAnswer
    \/ \E mode \in CacheModes, autoKey, derivable, cacheControl \in BOOLEAN :
         ApplyPolicy(mode, autoKey, derivable, cacheControl)
    \/ \E mode \in CacheModes : PassOn(mode)
    \/ Send
    \/ \E a \in Answer \ {NoAnswer} : HandleAnswer(a) \/ HandleStreamAnswer(a)

Next ==
    \/ \E e \in Endpoints, r \in Incoming : Receive(e, r) \/ Refuse(e, r)
    \/ \E r \in Incoming : CountUndecodable(r)
    \/ Handle

Spec == Init /\ [][Next]_vars

\* A handler goes on; http.Client's Timeout ends an attempt that gets no answer.
FairSpec == Spec /\ WF_vars(Handle)

-----------------------------------------------------------------------------
\* The handler's variables keep their types; no loop exceeds its three attempts.
TypeOK ==
    /\ pc \in {"ready", "prepare", "compacting", "policy", "send", "sent"}
    /\ endpoint \in Endpoints
    /\ request \in Request
    /\ estimate \in Conversations
    /\ attempts \in 0 .. MaxAttempts
    /\ answer \in Answer
    /\ response \in {"none", "success", "error"}
    /\ history \in History

\* The cache fields that the last request carried and its answer objected to.
Repairable == LastFields \cap objections(answer)

\* No client gets an upstream error that the bridge could still have avoided by
\* dropping a cache field: three attempts are enough for two fields, in whatever
\* order and combination the upstream objects to them (handleNonStream,
\* handleResponsesCompact).  A stream also spends attempts on errors after which
\* it changes nothing, so it may run out of them first (handleStream).
RejectionIsFinal ==
    response = "error" /\ Repairable # {} =>
        endpoint = "messages_stream" /\ attempts = MaxAttempts

\* What the upstream may have accepted is not sent a second time by these two
\* handlers: a broken connection is not followed by another attempt.
AcceptedOnce ==
    pc \in {"send", "sent"} /\ endpoint # "messages_stream" => ~history.accepted

\* An attempt carries the first attempt's cache fields without those the
\* upstream has objected to: none comes back, and none goes for another's sake.
OnlyObjectedFieldsDropped == pc \in {"send", "sent"} => request.fields = LastFields

\* A compacted conversation is never sent on top of the one it replaces, and
\* the number of tokens the client is told was counted on what is sent.
CompactionIsWhole ==
    /\ estimate = request.conversation
    /\ request.conversation = "compacted"
         => ~request.previousResponse /\ ~request.contextManagement

\* Every request is answered, whatever the upstream does.
EveryRequestAnswered == pc # "ready" ~> pc = "ready"

\* README.md:172 and the panel's hint (admin.html:884) say of the mode off that
\* only the cache fields the client sent are kept.
OffKeepsOnlyClientFields ==
    attempts > 0 /\ history.mode = "off" => request.fields \subseteq history.asked
=============================================================================
