------------------------ MODULE MessagesRequestProof ------------------------
(***************************************************************************)
(* The retry loops of handleNonStream and handleResponsesCompact, for any  *)
(* bound that leaves an attempt for every cache field and one more: no     *)
(* client gets an error that dropping a cache field could have avoided, no *)
(* request the upstream may have accepted is sent again, and no field is   *)
(* dropped that the upstream did not object to.                            *)
(*                                                                         *)
(* RejectionIsFinal alone is not inductive.  Budget is what makes it so: a *)
(* retry of these loops always pays for its attempt with a cache field, so *)
(* attempts and fields together never exceed MaxAttempts, and an answer to *)
(* the last attempt finds no field left to object to.                      *)
(***************************************************************************)
EXTENDS MessagesRequest, FiniteSetTheorems, TLAPS

Whole == endpoint \in {"messages", "responses_compact"}

Budget ==
    Whole =>
      /\ pc = "send" => attempts + Cardinality(request.fields) < MaxAttempts
      /\ pc = "sent" => attempts + Cardinality(request.fields) <= MaxAttempts

\* What holds until the request is first sent.
Fresh ==
    /\ attempts = 0
    /\ history.first = {} /\ history.objected = {} /\ ~history.accepted
    /\ response = "none"

\* Nothing is answered while the handler works.
InProgress == pc # "ready" => response = "none"

IInv ==
    /\ TypeOK
    /\ Budget
    /\ InProgress
    /\ pc = "send" => attempts < MaxAttempts
    /\ pc \in {"prepare", "compacting", "policy"} => Fresh
    /\ RejectionIsFinal
    /\ AcceptedOnce
    /\ OnlyObjectedFieldsDropped

\* There are two cache fields.
LEMMA CacheFieldsFinite == IsFiniteSet(CacheFields) /\ Cardinality(CacheFields) = 2
<1> DEFINE key == {"prompt_cache_key"}
<1>1. IsFiniteSet(key) /\ Cardinality(key) = 1
  BY FS_Singleton
<1>2. CacheFields = key \cup {"prompt_cache_retention"}
  BY DEF CacheFields
<1>3. "prompt_cache_retention" \notin key
  OBVIOUS
<1> HIDE DEF key
<1> QED
  BY <1>1, <1>2, <1>3, FS_AddElement

\* How many fields a request can carry, and that a retry drops one of them.
LEMMA FieldsCounted ==
    ASSUME NEW f \in SUBSET CacheFields
    PROVE  /\ Cardinality(f) \in 0 .. 2
           /\ Cardinality(f) = 0 => f = {}
           /\ \A a : strip(f, a) # f => Cardinality(strip(f, a)) < Cardinality(f)
<1>1. IsFiniteSet(f) /\ Cardinality(f) <= 2
  BY CacheFieldsFinite, FS_Subset
<1>2. Cardinality(f) \in Nat /\ (Cardinality(f) = 0 => f = {})
  BY <1>1, FS_CardinalityType, FS_EmptySet
<1>3. ASSUME NEW a, strip(f, a) # f
      PROVE  Cardinality(strip(f, a)) < Cardinality(f)
  <2>1. strip(f, a) \in SUBSET f
    BY DEF strip
  <2>2. /\ IsFiniteSet(strip(f, a))
        /\ Cardinality(strip(f, a)) <= Cardinality(f)
        /\ Cardinality(strip(f, a)) # Cardinality(f)
    BY <1>1, <1>3, <2>1, FS_Subset
  <2>3. Cardinality(strip(f, a)) \in Nat
    BY <2>2, FS_CardinalityType
  <2> QED
    BY <1>2, <2>2, <2>3
<1> QED
  BY <1>1, <1>2, <1>3

\* An answer leaves a request with some of its cache fields.
LEMMA StripKeepsRequest ==
    ASSUME NEW a, request \in Request
    PROVE  LET r == [request EXCEPT !.fields = strip(@, a)]
           IN  r \in Request /\ r.fields = strip(request.fields, a)
BY DEF Request, strip

\* Waiting for a request keeps the invariant.
LEMMA ArriveKeepsIInv ==
    ASSUME NEW e \in Endpoints, NEW r \in Incoming, IInv,
           Receive(e, r) \/ Refuse(e, r) \/ CountUndecodable(r)
    PROVE  IInv'
<1>1. r \in Request
  BY DEF Incoming
<1>2. TypeOK'
  <2>1. "count_tokens" \in Endpoints /\ "original" \in Conversations
    BY DEF Endpoints, Conversations
  <2>2. /\ request' = r /\ endpoint' \in Endpoints /\ estimate' = "original"
        /\ attempts' = 0 /\ answer' = NoAnswer
        /\ pc' \in {"ready", "policy", "prepare"}
        /\ response' \in {"none", "success", "error"}
    BY <2>1 DEF Receive, Refuse, CountUndecodable, Arrive, Respond
  <2>3. NoAnswer \in Answer
    BY DEF NoAnswer, Answer
  <2>4. history' \in History
    <3>1. r.fields \in SUBSET CacheFields
      BY <1>1 DEF Request
    <3>2. history' = [asked |-> r.fields, mode |-> "off", first |-> {}, objected |-> {},
                      accepted |-> FALSE]
      BY DEF Receive, Refuse, CountUndecodable, Arrive
    <3> QED
      BY <3>1, <3>2 DEF History, CacheModes
  <2>5. attempts' \in 0 .. MaxAttempts
    BY <2>2, AttemptsAssumption
  <2> QED
    BY <1>1, <2>1, <2>2, <2>3, <2>4, <2>5 DEF TypeOK
<1>3. pc' \in {"ready", "policy", "prepare"}
  BY DEF Receive, Refuse, CountUndecodable, Arrive, Respond
<1>4. pc' \in {"policy", "prepare"} => Fresh'
  BY DEF Receive, Refuse, CountUndecodable, Arrive, Respond, Fresh
<1>5. answer' = NoAnswer
  BY DEF Receive, Refuse, CountUndecodable, Arrive
<1>6. RejectionIsFinal'
  BY <1>5 DEF RejectionIsFinal, Repairable, objections, NoAnswer
<1>7. InProgress'
  BY DEF Receive, Refuse, CountUndecodable, Arrive, Respond, InProgress
<1> QED
  BY <1>2, <1>3, <1>4, <1>6, <1>7 DEF IInv, Budget, AcceptedOnce, OnlyObjectedFieldsDropped

\* Compacting the conversation keeps the invariant.
LEMMA PrepareKeepsIInv ==
    ASSUME IInv, PrepareAutoCompact \/ CompactAnswer
    PROVE  IInv'
<1>1. Fresh
  BY DEF IInv, PrepareAutoCompact, CompactAnswer
<1>2. /\ pc' \in {"ready", "policy", "compacting"}
      /\ pc' # "ready" => response' = response
      /\ response' \in {"success", response}
      /\ UNCHANGED <<endpoint, attempts, answer, history>>
  BY DEF PrepareAutoCompact, CompactAnswer, Prepared, Respond
<1>3. request' \in Request /\ estimate' \in Conversations
  BY DEF IInv, TypeOK, PrepareAutoCompact, CompactAnswer, withContextManagement, compacted,
         Request, Conversations
<1>4. TypeOK'
  BY <1>2, <1>3 DEF IInv, TypeOK
<1>5. pc' # "ready" => Fresh'
  BY <1>1, <1>2 DEF Fresh
<1>6. response' # "error" /\ InProgress'
  BY <1>1, <1>2 DEF Fresh, InProgress
<1> QED
  BY <1>2, <1>4, <1>5, <1>6
  DEF IInv, Budget, RejectionIsFinal, AcceptedOnce, OnlyObjectedFieldsDropped

\* The prompt cache policy keeps the invariant: two fields, three attempts.
LEMMA PolicyKeepsIInv ==
    ASSUME NEW mode \in CacheModes, NEW autoKey \in BOOLEAN, NEW derivable \in BOOLEAN,
           NEW cacheControl \in BOOLEAN, IInv,
           ApplyPolicy(mode, autoKey, derivable, cacheControl) \/ PassOn(mode)
    PROVE  IInv'
<1>1. Fresh
  BY DEF IInv, ApplyPolicy, PassOn
<1>2. /\ pc' = "send"
      /\ UNCHANGED <<endpoint, estimate, attempts, answer, response>>
  BY DEF ApplyPolicy, PassOn
<1>3. /\ request' \in Request
      /\ history' \in History
      /\ history'.first = request'.fields
      /\ history'.objected = {} /\ ~history'.accepted
  <2>1. CASE ApplyPolicy(mode, autoKey, derivable, cacheControl)
    <3>1. PICK f : f = withCacheFields(request.fields, mode, autoKey, derivable, cacheControl)
      OBVIOUS
    <3>2. f \in SUBSET CacheFields
      BY <3>1 DEF IInv, TypeOK, Request, withCacheFields, CacheFields
    <3>3. /\ request' = [request EXCEPT !.fields = f]
          /\ history' = [history EXCEPT !.mode = mode, !.first = f]
      BY <2>1, <3>1 DEF ApplyPolicy
    <3> QED
      BY <1>1, <3>2, <3>3 DEF IInv, TypeOK, Request, History, Fresh
  <2>2. CASE PassOn(mode)
    BY <1>1, <2>2 DEF IInv, TypeOK, Request, History, PassOn, Fresh
  <2> QED
    BY <2>1, <2>2
<1>4. TypeOK'
  BY <1>2, <1>3 DEF IInv, TypeOK
<1>5. request'.fields \in SUBSET CacheFields
  BY <1>3 DEF Request
<1>6. attempts' = 0 /\ Cardinality(request'.fields) \in 0 .. 2
  BY <1>1, <1>2, <1>5, FieldsCounted DEF Fresh
<1>7. Budget' /\ attempts' < MaxAttempts
  BY <1>2, <1>6, AttemptsAssumption DEF Budget
<1>8. response' = "none"
  BY <1>1, <1>2 DEF Fresh
<1> QED
  BY <1>2, <1>3, <1>4, <1>7, <1>8
  DEF IInv, InProgress, RejectionIsFinal, AcceptedOnce, OnlyObjectedFieldsDropped,
      LastFields

\* Sending moves one from the attempts left to those made.
LEMMA SendKeepsIInv ==
    ASSUME IInv, Send
    PROVE  IInv'
<1>1. /\ pc = "send" /\ pc' = "sent" /\ attempts' = attempts + 1
      /\ UNCHANGED <<endpoint, request, estimate, answer, response, history>>
  BY DEF Send
<1>2. attempts \in Nat /\ attempts < MaxAttempts
  BY <1>1, AttemptsAssumption DEF IInv, TypeOK
<1>3. TypeOK'
  BY <1>1, <1>2, AttemptsAssumption DEF IInv, TypeOK
<1>4. request.fields \in SUBSET CacheFields
  BY DEF IInv, TypeOK, Request
<1>5. Cardinality(request.fields) \in 0 .. 2
  BY <1>4, FieldsCounted
<1>6. Budget'
  BY <1>1, <1>2, <1>5, AttemptsAssumption DEF IInv, InProgress, Budget, Whole
<1> QED
  BY <1>1, <1>3, <1>6
  DEF IInv, InProgress, RejectionIsFinal, Repairable, AcceptedOnce,
      OnlyObjectedFieldsDropped, LastFields

\* An answer keeps the types, whether the request goes out again or not.
LEMMA AnswerKeepsTypes ==
    ASSUME NEW a \in Answer \ {NoAnswer}, IInv,
           HandleAnswer(a) \/ HandleStreamAnswer(a)
    PROVE  TypeOK'
<1>1. request' \in Request /\ answer' \in Answer /\ UNCHANGED <<endpoint, estimate, attempts>>
  BY StripKeepsRequest DEF IInv, TypeOK, HandleAnswer, HandleStreamAnswer, Take
<1>2. \/ UNCHANGED history /\ pc' = "ready" /\ response' \in {"success", "error"}
      \/ SendAgain(a)
  BY DEF HandleAnswer, HandleStreamAnswer, Respond
<1>3. objections(a) \in SUBSET CacheFields
  BY DEF objections, Answer, Unsupported
<1>4. SendAgain(a) => history' \in History /\ pc' = "send" /\ UNCHANGED response
  <2>1. ASSUME SendAgain(a)
        PROVE  history' \in History
    <3>1. history \in History
      BY DEF IInv, TypeOK
    <3>2. PICK taken \in BOOLEAN :
             history' = [history EXCEPT !.objected = @ \cup objections(a),
                                        !.accepted = @ \/ taken]
      BY <2>1 DEF SendAgain
    <3> QED
      BY <1>3, <3>1, <3>2 DEF History
  <2> QED
    BY <2>1 DEF SendAgain
<1> QED
  BY <1>1, <1>2, <1>4 DEF IInv, TypeOK

\* Another attempt of any loop carries what the answer left of the request.
LEMMA SendAgainDropsObjections ==
    ASSUME NEW a \in Answer, IInv, Take(a), SendAgain(a)
    PROVE  OnlyObjectedFieldsDropped'
<1>1. pc = "sent" /\ request.fields = LastFields
  BY DEF IInv, Take, OnlyObjectedFieldsDropped
<1>2. request'.fields = strip(request.fields, a)
  BY StripKeepsRequest DEF IInv, TypeOK, Take
<1>3. history'.first = history.first /\ history'.objected = history.objected \cup objections(a)
  BY DEF IInv, TypeOK, History, SendAgain
<1> QED
  BY <1>1, <1>2, <1>3 DEF OnlyObjectedFieldsDropped, LastFields, strip

\* The loops of handleNonStream and handleResponsesCompact: an attempt more
\* costs a field, and an error is returned when no field is left to drop.
LEMMA HandleAnswerKeepsIInv ==
    ASSUME NEW a \in Answer \ {NoAnswer}, IInv, HandleAnswer(a)
    PROVE  IInv'
<1>1. Whole /\ pc = "sent" /\ Take(a)
  BY DEF HandleAnswer, Whole, Take
<1>2. TypeOK' /\ request.fields \in SUBSET CacheFields
  BY AnswerKeepsTypes DEF IInv, TypeOK, Request
<1>3. /\ request'.fields = strip(request.fields, a)
      /\ UNCHANGED <<endpoint, attempts>> /\ answer' = a
  BY <1>1, StripKeepsRequest DEF IInv, TypeOK, Take
<1>4. attempts \in Nat /\ attempts + Cardinality(request.fields) <= MaxAttempts
  BY <1>1, AttemptsAssumption DEF IInv, TypeOK, Budget
<1>5. CASE retryWhole(a)
  <2>1. SendAgain(a) /\ pc' = "send" /\ UNCHANGED response
    BY <1>5 DEF HandleAnswer, SendAgain
  <2>2. Cardinality(strip(request.fields, a)) < Cardinality(request.fields)
    BY <1>2, <1>5, FieldsCounted DEF retryWhole
  <2>3. strip(request.fields, a) \in SUBSET CacheFields
    BY <1>2 DEF strip
  <2>4. /\ Cardinality(strip(request.fields, a)) \in 0 .. 2
        /\ Cardinality(request.fields) \in 0 .. 2
    BY <1>2, <2>3, FieldsCounted
  <2>5. attempts' + Cardinality(request'.fields) < MaxAttempts /\ attempts' < MaxAttempts
    BY <1>3, <1>4, <2>2, <2>4, AttemptsAssumption
  <2>6. a.kind \notin {"ok", "undecodable", "lost"}
    BY <1>5 DEF retryWhole, strip, objections, Answer, Unsupported
  <2>7. ~history'.accepted
    BY <1>1, <2>1, <2>6 DEF IInv, TypeOK, History, AcceptedOnce, Whole, SendAgain
  <2>8. OnlyObjectedFieldsDropped'
    BY <1>1, <2>1, SendAgainDropsObjections
  <2>9. response' # "error"
    BY <2>1, <1>1 DEF IInv, InProgress
  <2> QED
    BY <1>1, <1>2, <2>1, <2>5, <2>7, <2>8, <2>9
    DEF IInv, InProgress, Budget, RejectionIsFinal, AcceptedOnce
<1>6. CASE ~retryWhole(a)
  <2>1. pc' = "ready" /\ UNCHANGED history
    BY <1>6 DEF HandleAnswer, Respond
  <2>2. strip(request.fields, a) = request.fields
    <3>1. CASE attemptsLeft
      BY <1>6, <3>1 DEF retryWhole
    <3>2. CASE ~attemptsLeft
      <4>1. Cardinality(request.fields) \in 0 .. 2
        BY <1>2, FieldsCounted
      <4>2. Cardinality(request.fields) = 0
        BY <1>4, <3>2, <4>1, AttemptsAssumption DEF attemptsLeft
      <4> QED
        BY <1>2, <4>2, FieldsCounted DEF strip
    <3> QED
      BY <3>1, <3>2
  <2>3. LastFields' = request.fields
    BY <1>1, <2>1 DEF IInv, OnlyObjectedFieldsDropped, LastFields
  <2>4. Repairable' = {}
    BY <1>3, <2>2, <2>3 DEF Repairable, strip
  <2> QED
    BY <1>2, <2>1, <2>4
    DEF IInv, InProgress, Budget, RejectionIsFinal, AcceptedOnce, OnlyObjectedFieldsDropped
<1> QED
  BY <1>5, <1>6

\* The loop of handleStream ends too; nothing else is claimed of it.
LEMMA HandleStreamAnswerKeepsIInv ==
    ASSUME NEW a \in Answer \ {NoAnswer}, IInv, HandleStreamAnswer(a)
    PROVE  IInv'
<1>1. ~Whole /\ UNCHANGED <<endpoint, attempts>> /\ Take(a) /\ endpoint = "messages_stream"
  BY DEF HandleStreamAnswer, Whole, Take
<1>2. TypeOK'
  BY AnswerKeepsTypes
<1>3. CASE retryStream(a)
  <2>1. SendAgain(a) /\ pc' = "send" /\ attempts < MaxAttempts
    BY <1>3 DEF HandleStreamAnswer, SendAgain, retryStream, attemptsLeft
  <2>2. OnlyObjectedFieldsDropped'
    BY <1>1, <2>1, SendAgainDropsObjections
  <2>3. ~Whole' /\ endpoint' = "messages_stream" /\ response' = "none"
    BY <1>1, <2>1 DEF Whole, IInv, InProgress, Take, SendAgain
  <2> QED
    BY <1>1, <1>2, <2>1, <2>2, <2>3
    DEF IInv, InProgress, Budget, RejectionIsFinal, AcceptedOnce
<1>4. CASE ~retryStream(a)
  <2>1. pc' = "ready" /\ response' = IF succeeds(a) THEN "success" ELSE "error"
    BY <1>4 DEF HandleStreamAnswer, Respond
  <2>2. response' = "error" => ~attemptsLeft
    BY <1>1, <1>4, <2>1 DEF retryStream, succeeds
  <2>3. attempts \in 0 .. MaxAttempts
    BY DEF IInv, TypeOK
  <2>4. response' = "error" => attempts' = MaxAttempts /\ endpoint' = "messages_stream"
    BY <1>1, <2>2, <2>3, AttemptsAssumption DEF attemptsLeft
  <2> QED
    BY <1>1, <1>2, <2>1, <2>4
    DEF IInv, InProgress, Budget, RejectionIsFinal, AcceptedOnce, OnlyObjectedFieldsDropped
<1> QED
  BY <1>3, <1>4

\* The strengthened invariant holds in every state.
THEOREM Inductive == Spec => []IInv
<1>1. Init => IInv
  <2> SUFFICES ASSUME Init PROVE IInv
    OBVIOUS
  <2>1. TypeOK
    BY AttemptsAssumption
    DEF Init, TypeOK, Request, Conversations, Answer, NoAnswer, History, CacheModes
  <2> QED
    BY <2>1
    DEF Init, IInv, InProgress, Budget, RejectionIsFinal, AcceptedOnce, OnlyObjectedFieldsDropped
<1>2. IInv /\ [Next]_vars => IInv'
  <2> SUFFICES ASSUME IInv, [Next]_vars PROVE IInv'
    OBVIOUS
  <2>1. ASSUME NEW e \in Endpoints, NEW r \in Incoming, Receive(e, r) \/ Refuse(e, r)
        PROVE  IInv'
    BY <2>1, ArriveKeepsIInv
  <2>2. ASSUME NEW r \in Incoming, CountUndecodable(r)
        PROVE  IInv'
    BY <2>2, ArriveKeepsIInv DEF Endpoints
  <2>3. CASE PrepareAutoCompact \/ CompactAnswer
    BY <2>3, PrepareKeepsIInv
  <2>4. ASSUME NEW mode \in CacheModes, NEW autoKey \in BOOLEAN, NEW derivable \in BOOLEAN,
               NEW cacheControl \in BOOLEAN,
               ApplyPolicy(mode, autoKey, derivable, cacheControl) \/ PassOn(mode)
        PROVE  IInv'
    BY <2>4, PolicyKeepsIInv
  <2>5. CASE Send
    BY <2>5, SendKeepsIInv
  <2>6. ASSUME NEW a \in Answer \ {NoAnswer}, HandleAnswer(a) \/ HandleStreamAnswer(a)
        PROVE  IInv'
    BY <2>6, HandleAnswerKeepsIInv, HandleStreamAnswerKeepsIInv
  <2>7. CASE UNCHANGED vars
    BY <2>7
    DEF vars, IInv, InProgress, TypeOK, Budget, Whole, Fresh, RejectionIsFinal, Repairable, LastFields,
        AcceptedOnce, OnlyObjectedFieldsDropped
  <2> QED
    BY <2>1, <2>2, <2>3, <2>4, <2>5, <2>6, <2>7 DEF Next, Handle
<1> QED
  BY <1>1, <1>2, PTL DEF Spec

\* The variables keep their types, and no loop makes more than MaxAttempts attempts.
THEOREM TypeCorrect == Spec => []TypeOK
<1>1. IInv => TypeOK
  BY DEF IInv
<1> QED
  BY <1>1, Inductive, PTL

\* No client of handleNonStream or handleResponsesCompact gets an error that
\* dropping a cache field could have avoided.
THEOREM RejectionsAreFinal == Spec => []RejectionIsFinal
<1>1. IInv => RejectionIsFinal
  BY DEF IInv
<1> QED
  BY <1>1, Inductive, PTL

\* Neither of them sends again what the upstream may have accepted.
THEOREM AcceptedOnlyOnce == Spec => []AcceptedOnce
<1>1. IInv => AcceptedOnce
  BY DEF IInv
<1> QED
  BY <1>1, Inductive, PTL

\* Every attempt carries the cache fields of the first that the upstream has
\* not objected to.
THEOREM DropsOnlyObjected == Spec => []OnlyObjectedFieldsDropped
<1>1. IInv => OnlyObjectedFieldsDropped
  BY DEF IInv
<1> QED
  BY <1>1, Inductive, PTL

-----------------------------------------------------------------------------
\* What CompactionIsWhole needs to be inductive: a conversation that may still be
\* compacted has not been.
Compaction ==
    /\ CompactionIsWhole
    /\ pc \in {"prepare", "compacting"} => request.conversation = "original"

LEMMA NextKeepsCompaction == IInv /\ Compaction /\ [Next]_vars => Compaction'
<1> SUFFICES ASSUME IInv, Compaction, [Next]_vars
             PROVE  Compaction'
  OBVIOUS
<1>1. request \in Request
  BY DEF IInv, TypeOK
<1>2. ASSUME NEW e \in Endpoints, NEW r \in Incoming,
             Receive(e, r) \/ Refuse(e, r) \/ CountUndecodable(r)
      PROVE  Compaction'
  <2>1. request'.conversation = "original" /\ estimate' = "original"
    BY <1>2 DEF Receive, Refuse, CountUndecodable, Arrive, Incoming
  <2> QED
    BY <2>1 DEF Compaction, CompactionIsWhole
<1>3. CASE PrepareAutoCompact
  <2>1. request'.conversation = "original" /\ UNCHANGED estimate
    BY <1>1, <1>3 DEF PrepareAutoCompact, withContextManagement, Request, Compaction
  <2> QED
    BY <1>3, <2>1 DEF Compaction, CompactionIsWhole, PrepareAutoCompact
<1>4. CASE CompactAnswer
  <2>1. pc' \in {"ready", "policy"}
    BY <1>4 DEF CompactAnswer, Prepared, Respond
  <2>2. \/ UNCHANGED <<request, estimate>>
        \/ /\ request'.conversation = "compacted" /\ estimate' = "compacted"
           /\ ~request'.previousResponse /\ ~request'.contextManagement
    BY <1>1, <1>4 DEF CompactAnswer, compacted, Request
  <2> QED
    BY <2>1, <2>2 DEF Compaction, CompactionIsWhole
<1>5. ASSUME pc' \notin {"prepare", "compacting"}, UNCHANGED estimate,
             NEW f, request' = [request EXCEPT !.fields = f]
      PROVE  Compaction'
  <2>1. /\ request'.conversation = request.conversation
        /\ request'.previousResponse = request.previousResponse
        /\ request'.contextManagement = request.contextManagement
    BY <1>1, <1>5 DEF Request
  <2> QED
    BY <1>5, <2>1 DEF Compaction, CompactionIsWhole
<1>6. ASSUME NEW mode \in CacheModes, NEW autoKey \in BOOLEAN, NEW derivable \in BOOLEAN,
             NEW cacheControl \in BOOLEAN,
             ApplyPolicy(mode, autoKey, derivable, cacheControl) \/ PassOn(mode)
      PROVE  Compaction'
  <2>1. CASE ApplyPolicy(mode, autoKey, derivable, cacheControl)
    BY <1>5, <2>1 DEF ApplyPolicy
  <2>2. CASE PassOn(mode)
    BY <2>2 DEF PassOn, Compaction, CompactionIsWhole
  <2> QED
    BY <1>6, <2>1, <2>2
<1>7. CASE Send
  BY <1>7 DEF Send, Compaction, CompactionIsWhole
<1>8. ASSUME NEW a \in Answer \ {NoAnswer}, HandleAnswer(a) \/ HandleStreamAnswer(a)
      PROVE  Compaction'
  <2>1. pc' \in {"ready", "send"}
    BY <1>8 DEF HandleAnswer, HandleStreamAnswer, SendAgain, Respond
  <2>2. Take(a)
    BY <1>8 DEF HandleAnswer, HandleStreamAnswer
  <2> QED
    BY <1>5, <2>1, <2>2 DEF Take
<1>9. CASE UNCHANGED vars
  BY <1>9 DEF vars, Compaction, CompactionIsWhole
<1> QED
  BY <1>2, <1>3, <1>4, <1>6, <1>7, <1>8, <1>9 DEF Next, Handle, Endpoints

\* A compacted conversation replaces the one it was made of, and its tokens are
\* those the client is told, whatever the compaction request is answered.
THEOREM CompactionsAreWhole == Spec => []CompactionIsWhole
<1>1. Init => Compaction
  BY DEF Init, Compaction, CompactionIsWhole
<1>2. Compaction => CompactionIsWhole
  BY DEF Compaction
<1> QED
  BY <1>1, <1>2, Inductive, NextKeepsCompaction, PTL DEF Spec
=============================================================================
