--------------------------- MODULE HttpFlowProofs ---------------------------
(***************************************************************************)
(* Proofs about HttpFlow for every chain of plugins, every set of routes   *)
(* and every bound on attempts and chunks.                                 *)
(***************************************************************************)
EXTENDS HttpFlow, TLAPS

\* What a hook leaves in a well-formed context is a well-formed context.
LEMMA TouchedType ==
  ASSUME NEW c \in Contexts, NEW d \in Touched(c)
  PROVE  d \in Contexts
  BY HttpFlowAssumption DEF HttpFlowAssumption, Contexts, Touched

\* A hook leaves the context and the record of its edit well-formed.
LEMMA LeavesType ==
  ASSUME TypeOK, NEW c \in Touched(ctx), Leaves(c)
  PROVE  /\ ctx' \in Contexts
         /\ edit' \in [body : Seq(Nat) \cup {None}, chunk : 0..MaxChunks]
<1>1. c \in Contexts /\ c.body \in Seq(Nat) \cup {None}
  BY TouchedType DEF TypeOK, Contexts
<1>2. edit \in [body : Seq(Nat) \cup {None}, chunk : 0..MaxChunks]
  BY DEF TypeOK
<1>3. [body |-> c.body, chunk |-> chunk] \in
        [body : Seq(Nat) \cup {None}, chunk : 0..MaxChunks]
  BY <1>1 DEF TypeOK
<1> QED
  BY <1>1, <1>2, <1>3 DEF Leaves

\* Appending the next chunk keeps the context well-formed.
LEMMA PopulateType ==
  ASSUME NEW c \in Contexts, NEW k \in Nat
  PROVE  PopulateReqBody(c, k) \in Contexts
<1>1. CASE c.body = None
  BY <1>1 DEF PopulateReqBody
<1>2. CASE c.body # None
  <2>1. c.body \in Seq(Nat)
    BY <1>2 DEF Contexts
  <2>2. Append(c.body, k) \in Seq(Nat)
    BY <2>1
  <2> QED
    BY <1>2, <2>2 DEF PopulateReqBody, Contexts
<1> QED
  BY <1>1, <1>2

\* The header loop stays within the chain and records only plugin statuses.
LEMMA StopOrGoOnType ==
  ASSUME NEW c \in Contexts, StopOrGoOn(c), Len(chain) \in Nat,
         at \in 1..Len(chain), short_circuit \in Statuses \cup {None}
  PROVE  /\ replying' = FALSE /\ at' \in 1..(Len(chain) + 1)
         /\ short_circuit' \in Statuses \cup {None}
<1>1. c.response \in Statuses \cup {None}
  BY DEF Contexts
<1>2. CASE c.response # None
  BY <1>1, <1>2 DEF StopOrGoOn
<1>3. CASE c.response = None
  BY <1>3 DEF StopOrGoOn
<1> QED
  BY <1>2, <1>3

\* A selected upstream gives a well-formed peer.
LEMMA PeerType ==
  ASSUME NEW a \in Upstreams
  PROVE  PeerOf(a) \in Peers
<1>1. (a \in TlsUpstreams) \in BOOLEAN
  OBVIOUS
<1> QED
  BY <1>1 DEF PeerOf, Peers

\* A step from a state of the invariant keeps every variable in its type.
LEMMA TypeStep ==
  ASSUME TypeOK, SelectionInv, [Next]_vars
  PROVE  TypeOK'
<1> USE HttpFlowAssumption DEF HttpFlowAssumption, TypeOK, Phases,
    HeaderFilters, BodyFilters, Ended
<1>0. Len(chain) \in Nat /\ chain \in Seq(SUBSET Hooks)
  OBVIOUS
<1>t. Touched(ctx) \subseteq Contexts
  BY TouchedType
<1>e. /\ <<>> \in Seq(Nat) /\ ctx.body \in Seq(Nat) \cup {None} /\ 0 \in 0..MaxChunks
      /\ [body |-> <<>>, chunk |-> 0] \in [body : Seq(Nat) \cup {None}, chunk : 0..MaxChunks]
      /\ [body |-> ctx.body, chunk |-> 0] \in
           [body : Seq(Nat) \cup {None}, chunk : 0..MaxChunks]
  BY DEF Contexts
<1>1. CASE EarlyRequestFilter
  BY <1>0, <1>e, <1>1 DEF EarlyRequestFilter, NoRoute, Routes, Contexts
<1>2. CASE Skip
  BY <1>0, <1>2 DEF Skip
<1>3. CASE OnRequestHeaders
  <2>1. PICK c \in Touched(ctx), o \in Outcomes :
          /\ Leaves(c)
          /\ IF ~Answered(c, o)
               THEN at' = at + 1 /\ UNCHANGED <<replying, short_circuit>>
             ELSE IF "on_local_reply" \in chain[at]
               THEN replying' = TRUE /\ UNCHANGED <<at, short_circuit>>
             ELSE StopOrGoOn(c)
    BY <1>3 DEF OnRequestHeaders, HeadersHook
  <2>2. at \in 1..Len(chain) /\ UNCHANGED <<chain, phase>>
    BY <1>3 DEF OnRequestHeaders, HeadersHook, Calling
  <2>3. /\ ctx' \in Contexts
        /\ edit' \in [body : Seq(Nat) \cup {None}, chunk : 0..MaxChunks]
    BY <2>1, LeavesType
  <2>4. /\ at' \in 1..(Len(chain) + 1) /\ replying' \in BOOLEAN
        /\ short_circuit' \in Statuses \cup {None}
    <3>1. CASE ~Answered(c, o)
      BY <3>1, <2>1, <2>2, <1>0
    <3>2. CASE Answered(c, o) /\ "on_local_reply" \in chain[at]
      BY <3>2, <2>1, <2>2, <1>0
    <3>3. CASE Answered(c, o) /\ "on_local_reply" \notin chain[at]
      BY <3>3, <2>1, <2>2, <1>t, <1>0, StopOrGoOnType
    <3> QED
      BY <3>1, <3>2, <3>3
  <2> QED
    BY <1>3, <2>2, <2>3, <2>4 DEF OnRequestHeaders, HeadersHook
<1>4. CASE OnLocalReply
  <2>1. PICK c \in Touched(ctx) : Leaves(c) /\ StopOrGoOn(c)
    BY <1>4 DEF OnLocalReply, ReplyHook
  <2>2. at \in 1..Len(chain) /\ UNCHANGED <<chain, phase>>
    BY <1>4 DEF OnLocalReply, ReplyHook, SelectionInv
  <2>3. /\ replying' = FALSE /\ at' \in 1..(Len(chain) + 1)
        /\ short_circuit' \in Statuses \cup {None}
    BY <2>1, <2>2, <1>t, <1>0, StopOrGoOnType
  <2>4. /\ ctx' \in Contexts
        /\ edit' \in [body : Seq(Nat) \cup {None}, chunk : 0..MaxChunks]
    BY <2>1, LeavesType
  <2> QED
    BY <1>4, <2>2, <2>3, <2>4 DEF OnLocalReply, ReplyHook
<1>5. CASE RequestFilterDone
  BY <1>0, <1>5 DEF RequestFilterDone, Finished, Respond, Written, Replies
<1>6. CASE OnRoutePass
  BY LeavesType, <1>0, <1>6 DEF OnRoutePass, RoutePass, Route, Calling
<1>7. CASE OnRouteSelect
  BY LeavesType, <1>t, <1>0, <1>7 DEF OnRouteSelect, RouteSelect, Route, Calling, Selects, Unusable, PeerOf, Contexts, Routes, Peers
<1>8. CASE OnRoutePanic
  BY LeavesType, <1>0, <1>8 DEF OnRoutePanic, RoutePanic, Route, Calling
<1>9. CASE OnRouteReject
  BY LeavesType, <1>0, <1>9 DEF OnRouteReject, RouteReject, Route, Calling, Fail, Written, Replies
<1>10. CASE NoUpstreamSelected
  BY <1>0, <1>10 DEF NoUpstreamSelected, Finished, Fail, Written, Replies
<1>11. CASE Connect
  BY <1>0, <1>11 DEF Connect, Fail, Written, Replies
<1>12. CASE InsertHost
  BY <1>0, <1>12 DEF InsertHost, Contexts, Routes, Addresses
<1>13. CASE UpstreamRequestFilterDone
  <2>1. reply' \in Replies \cup {None}
    BY <1>13 DEF UpstreamRequestFilterDone, Respond, Written, Replies
  <2>5. phase' \in Phases
    BY <1>13 DEF UpstreamRequestFilterDone, Respond
  <2>2. /\ selected \in Routes /\ selected.upstream # None
        /\ peer = PeerOf(selected.upstream) /\ host = selected.upstream
    BY <1>13 DEF UpstreamRequestFilterDone, Finished, SelectionInv, PeerSelected
  <2>3. peer \in Peers /\ host \in Addresses /\ uri \in Paths
    BY <2>2, PeerType DEF Routes, Addresses
  <2>4. forwarded' \in Forwards \cup {None}
    BY <1>13, <2>3 DEF UpstreamRequestFilterDone, Forwards
  <2> QED
    BY <1>13, <2>1, <2>4, <2>5 DEF UpstreamRequestFilterDone
<1>14. CASE RequestBody
  <2>1. phase' \in Phases /\ at' \in 1..(Len(chain) + 1)
    BY <1>0, <1>14 DEF RequestBody
  <2>3. body_read' \in BOOLEAN
    BY <1>14 DEF RequestBody
  <2>2. chunk' \in 0..MaxChunks /\ ctx' \in Contexts
    <3>1. CASE UNCHANGED <<ctx, chunk>>
      BY <3>1
    <3>2. CASE /\ chunk < MaxChunks /\ chunk' = chunk + 1
               /\ ctx' = PopulateReqBody(ctx, chunk + 1)
      BY <3>2, PopulateType
    <3> QED
      BY <1>14, <3>1, <3>2 DEF RequestBody
  <2> QED
    BY <1>14, <2>1, <2>2, <2>3 DEF RequestBody
<1>15. CASE UpstreamResponse
  BY <1>0, <1>15 DEF UpstreamResponse
<1>16. CASE UpstreamBodyChunk
  BY <1>0, <1>16 DEF UpstreamBodyChunk
<1>17. CASE OnBody
  <2>1. /\ ctx' \in Contexts
        /\ edit' \in [body : Seq(Nat) \cup {None}, chunk : 0..MaxChunks]
    BY <1>17, LeavesType DEF OnBody, BodyHook
  <2> QED
    BY <1>17, <2>1, <1>0 DEF OnBody, BodyHook
<1>18. CASE BodyFilterDone
  BY <1>0, <1>18 DEF BodyFilterDone, Finished, Written, Replies
<1>19. CASE Retry
  <2>1. tries' \in 0..MaxTries /\ chunk' \in 0..MaxChunks /\ at' \in 1..(Len(chain) + 1)
    BY <1>0, <1>19 DEF Retry
  <2>2. phase' \in Phases /\ body_read' \in BOOLEAN
    BY <1>19 DEF Retry
  <2> QED
    BY <1>19, <1>e, <2>1, <2>2 DEF Retry
<1>20. CASE UpstreamBroken
  BY <1>0, <1>20 DEF UpstreamBroken, Fail, Written, Replies
<1>21. CASE ClientGone
  BY <1>0, <1>21 DEF ClientGone
<1>22. CASE UNCHANGED vars
  BY <1>22 DEF vars
<1> QED
  BY <1>1, <1>2, <1>3, <1>4, <1>5, <1>6, <1>7, <1>8, <1>9, <1>10, <1>11, <1>12, <1>13, <1>14, <1>15, <1>16, <1>17, <1>18, <1>19, <1>20, <1>21, <1>22 DEF Next

\* A step of the flow keeps the selection invariant.
LEMMA SelectionStep ==
  ASSUME TypeOK, SelectionInv, [Next]_vars
  PROVE  SelectionInv'
<1> USE DEF SelectionInv, PeerSelected, ForwardedAsSelected, HostUnwrapSafe,
    HeaderFilters, BodyFilters
<1>1. CASE EarlyRequestFilter
  BY <1>1 DEF EarlyRequestFilter
<1>2. CASE Skip
  BY <1>2 DEF Skip
<1>3. CASE OnRequestHeaders
  BY <1>3 DEF OnRequestHeaders, HeadersHook, StopOrGoOn, Calling
<1>4. CASE OnLocalReply
  BY <1>4 DEF OnLocalReply, ReplyHook, StopOrGoOn
<1>5. CASE RequestFilterDone
  BY <1>5 DEF RequestFilterDone, Respond, Finished
<1>6. CASE OnRoutePass
  BY <1>6 DEF OnRoutePass, RoutePass, Route, Calling
<1>7. CASE OnRouteSelect
  BY <1>7, TouchedType DEF OnRouteSelect, RouteSelect, Route, Leaves, Calling, Selects, Unusable, TypeOK, Contexts
<1>8. CASE OnRoutePanic
  BY <1>8 DEF OnRoutePanic, RoutePanic, Route, Calling
<1>9. CASE OnRouteReject
  BY <1>9 DEF OnRouteReject, RouteReject, Route, Calling, Fail
<1>10. CASE NoUpstreamSelected
  BY <1>10 DEF NoUpstreamSelected, Finished, Fail
<1>11. CASE Connect
  BY <1>11 DEF Connect, Fail
<1>12. CASE InsertHost
  BY <1>12, HttpFlowAssumption DEF InsertHost, HttpFlowAssumption
<1>13. CASE UpstreamRequestFilterDone
  BY <1>13 DEF UpstreamRequestFilterDone, Respond, Finished, PeerOf
<1>14. CASE RequestBody
  BY <1>14 DEF RequestBody
<1>15. CASE UpstreamResponse
  BY <1>15 DEF UpstreamResponse
<1>16. CASE UpstreamBodyChunk
  BY <1>16 DEF UpstreamBodyChunk
<1>17. CASE OnBody
  BY <1>17 DEF OnBody, BodyHook
<1>18. CASE BodyFilterDone
  BY <1>18 DEF BodyFilterDone, Finished
<1>19. CASE Retry
  BY <1>19 DEF Retry
<1>20. CASE UpstreamBroken
  BY <1>20 DEF UpstreamBroken, Fail
<1>21. CASE ClientGone
  BY <1>21 DEF ClientGone, Finished
<1>22. CASE UNCHANGED vars
  BY <1>22 DEF vars
<1> QED
  BY <1>1, <1>2, <1>3, <1>4, <1>5, <1>6, <1>7, <1>8, <1>9, <1>10, <1>11,
     <1>12, <1>13, <1>14, <1>15, <1>16, <1>17, <1>18, <1>19, <1>20, <1>21,
     <1>22 DEF Next

\* The initial states satisfy both.
LEMMA InitInv ==
  ASSUME Init
  PROVE  TypeOK /\ SelectionInv
<1> USE HttpFlowAssumption DEF HttpFlowAssumption
<1>1. chain \in Chains /\ Len(chain) \in Nat
  BY DEF Init
<1>2. ctx \in Contexts
  BY DEF Init, Contexts
<1>3. at \in 1..(Len(chain) + 1) /\ tries \in 0..MaxTries /\ chunk \in 0..MaxChunks
  BY <1>1 DEF Init
<1>4. uri \in Paths \ BadPaths /\ phase \in Phases /\ host \in Addresses
  BY DEF Init, Phases, Addresses
<1>5. /\ replying \in BOOLEAN /\ eos \in BOOLEAN
      /\ responded \in BOOLEAN /\ body_read \in BOOLEAN
  BY DEF Init
<1>6. /\ short_circuit = None /\ peer = None /\ forwarded = None
      /\ reply = None /\ selected = None
  BY DEF Init
<1>9. edit \in [body : Seq(Nat) \cup {None}, chunk : 0..MaxChunks]
  BY <1>3 DEF Init
<1>7. TypeOK
  BY <1>1, <1>2, <1>3, <1>4, <1>5, <1>6, <1>9, Zenon DEF TypeOK
<1>8. SelectionInv
  BY DEF Init, SelectionInv, HeaderFilters, BodyFilters, ForwardedAsSelected,
     HostUnwrapSafe
<1> QED
  BY <1>7, <1>8

\* TypeOK and SelectionInv hold in every reachable state.
THEOREM Invariance == Spec => [](TypeOK /\ SelectionInv)
<1>1. Init => TypeOK /\ SelectionInv
  BY InitInv
<1>2. TypeOK /\ SelectionInv /\ [Next]_vars => (TypeOK /\ SelectionInv)'
  BY TypeStep, SelectionStep
<1> QED
  BY <1>1, <1>2, PTL DEF Spec

\* Whatever the plugins leave in the context and return, every variable keeps
\* its type; in particular the URI sent upstream is one Uri::build accepts.
THEOREM TypeCorrect == Spec => []TypeOK
  BY Invariance, PTL

\* upstream_request_filter never panics on route.upstream_to_set.unwrap().
THEOREM HostNeverPanics == Spec => []HostUnwrapSafe
<1>1. SelectionInv => HostUnwrapSafe
  BY DEF SelectionInv
<1> QED
  BY <1>1, Invariance, PTL

\* What is with an upstream was sent where, under which Host and with which URI
\* the one selected RouteDecision says, over any number of attempts.
THEOREM ForwardingConsistent == Spec => []ForwardedAsSelected
<1>1. SelectionInv => ForwardedAsSelected
  BY DEF SelectionInv
<1> QED
  BY <1>1, Invariance, PTL

-----------------------------------------------------------------------------
(* The answer the client gets *)

\* Pingora answers an error unless an answer was sent; the status is one of its own.
LEMMA FailAnswers ==
  ASSUME NEW status \in {500, 502, 503}, Fail(status)
  PROVE  /\ phase' = "done" /\ Replied'
         /\ Replied => reply' = reply
         /\ ~Replied => reply'.by = "error"
<1>1. [by |-> "error", status |-> status] \in Replies
  BY DEF Replies
<1> QED
  BY <1>1, HttpFlowAssumption DEF HttpFlowAssumption, Fail, Written, Replied

\* A header filter answers unless an answer was sent, finally if the plugin's
\* status is a final one, or panics.
LEMMA RespondAnswers ==
  ASSUME TypeOK, short_circuit # None,
         NEW by \in HeaderFilters, NEW next, Respond(by, next)
  PROVE  \/ phase' = "panicked_status" /\ reply' = reply
         \/ /\ phase' = next /\ reply' # None
            /\ Replied => reply' = reply
            /\ ~Replied => reply'.by = by
            /\ short_circuit \notin InterimStatuses => Replied'
<1>1. [by |-> by, status |-> short_circuit] \in Replies
  BY DEF Replies, TypeOK, HeaderFilters
<1>2. reply' # None => (Replied' <=> reply'.status \notin InterimStatuses)
  BY DEF Replied
<1> QED
  BY <1>1, <1>2, HttpFlowAssumption
     DEF HttpFlowAssumption, Respond, Written, Replied

\* response_filter passes the upstream's header on unless an answer was sent.
LEMMA UpstreamAnswers ==
  ASSUME NEW r, r = Written([by |-> "upstream", status |-> None])
  PROVE  /\ r # None /\ r.status \notin InterimStatuses
         /\ Replied => r = reply
         /\ ~Replied => r.by = "upstream"
<1>1. [by |-> "upstream", status |-> None] \in Replies
  BY DEF Replies
<1> QED
  BY <1>1, HttpFlowAssumption DEF HttpFlowAssumption, Written, Replied

\* A step of the flow keeps the invariant about the answer.
LEMMA AnswerStep ==
  ASSUME TypeOK, SelectionInv, AnswerInv, [Next]_vars
  PROVE  AnswerInv'
<1> USE HttpFlowAssumption DEF HttpFlowAssumption, AnswerInv, Forwarding,
    AnsweredBeforeRouting, EndedAnswered, LocalAnswerWins, HeaderFilters,
    BodyFilters, Ended
<1>0. reply' = reply => Replied' = Replied
  BY DEF Replied
<1>r. Replied => reply # None
  BY DEF Replied
<1>1. CASE EarlyRequestFilter
  BY <1>1 DEF EarlyRequestFilter
<1>2. CASE Skip
  BY <1>0, <1>2 DEF Skip
<1>3. CASE OnRequestHeaders
  BY <1>3 DEF OnRequestHeaders, HeadersHook, Calling
<1>4. CASE OnLocalReply
  BY <1>4 DEF OnLocalReply, ReplyHook
<1>5. CASE RequestFilterDone
  BY <1>5, RespondAnswers DEF RequestFilterDone, Finished
<1>6. CASE OnRoutePass
  BY <1>6 DEF OnRoutePass, RoutePass, Route, Calling
<1>7. CASE OnRouteSelect
  BY <1>7 DEF OnRouteSelect, RouteSelect, Route, Calling
<1>8. CASE OnRoutePanic
  BY <1>8 DEF OnRoutePanic, RoutePanic, Route, Calling
<1>9. CASE OnRouteReject
  BY <1>r, <1>9, FailAnswers DEF OnRouteReject, RouteReject, Route, Calling
<1>10. CASE NoUpstreamSelected
  BY <1>r, <1>10, FailAnswers DEF NoUpstreamSelected, Finished
<1>11. CASE Connect
  BY <1>0, <1>r, <1>11, FailAnswers DEF Connect
<1>12. CASE InsertHost
  BY <1>12 DEF InsertHost
<1>13. CASE UpstreamRequestFilterDone
  BY <1>13, RespondAnswers DEF UpstreamRequestFilterDone, Finished
<1>14. CASE RequestBody
  BY <1>0, <1>14 DEF RequestBody
<1>15. CASE UpstreamResponse
  BY <1>0, <1>15 DEF UpstreamResponse
<1>16. CASE UpstreamBodyChunk
  BY <1>0, <1>16 DEF UpstreamBodyChunk
<1>17. CASE OnBody
  BY <1>0, <1>17 DEF OnBody, BodyHook
<1>18. CASE BodyFilterDone
  <2>1. CASE phase = "response_filter"
    <3>1. /\ Replied' /\ reply' # None
          /\ phase' \in {"proxying", "done"} /\ responded
          /\ Replied => reply' = reply
          /\ ~Replied => /\ reply'.by = "upstream"
                         /\ short_circuit \in InterimStatuses \cup {None}
      BY <1>18, <2>1, UpstreamAnswers DEF BodyFilterDone, Replied
    <3> QED
      BY <1>18, <2>1, <3>1 DEF BodyFilterDone
  <2>2. CASE phase # "response_filter"
    <3>1. phase \in BodyFilters
      BY <1>18 DEF BodyFilterDone, Finished
    <3>2. UNCHANGED reply
      BY <1>18, <2>2 DEF BodyFilterDone
    <3>3. phase' = "done" => Replied
      BY <1>18, <2>2, <3>1 DEF BodyFilterDone
    <3> QED
      BY <1>0, <1>18, <2>2, <3>1, <3>2, <3>3 DEF BodyFilterDone
  <2> QED
    BY <2>1, <2>2
<1>19. CASE Retry
  BY <1>0, <1>19 DEF Retry
<1>20. CASE UpstreamBroken
  BY <1>r, <1>20, FailAnswers DEF UpstreamBroken
<1>21. CASE ClientGone
  BY <1>21 DEF ClientGone, Finished
<1>22. CASE UNCHANGED vars
  BY <1>0, <1>22 DEF vars
<1> QED
  BY <1>1, <1>2, <1>3, <1>4, <1>5, <1>6, <1>7, <1>8, <1>9, <1>10, <1>11,
     <1>12, <1>13, <1>14, <1>15, <1>16, <1>17, <1>18, <1>19, <1>20, <1>21,
     <1>22 DEF Next

\* The invariant about the answer holds in every reachable state.
THEOREM AnswerInvariance == Spec => []AnswerInv
<1>1. Init => AnswerInv
  BY HttpFlowAssumption DEF HttpFlowAssumption, Init, AnswerInv, Forwarding,
     AnsweredBeforeRouting, EndedAnswered, LocalAnswerWins, BodyFilters, Ended
<1>2. TypeOK /\ SelectionInv /\ AnswerInv /\ [Next]_vars => AnswerInv'
  BY AnswerStep
<1> QED
  BY <1>1, <1>2, Invariance, PTL DEF Spec

\* A request answered in request_filter never reaches routing or an upstream.
THEOREM AnswerPrecedesRouting == Spec => []AnsweredBeforeRouting
<1>1. AnswerInv => AnsweredBeforeRouting
  BY DEF AnswerInv
<1> QED
  BY <1>1, AnswerInvariance, PTL

\* A request leaves the proxy with a final answer, unless the client went away, a
\* plugin's route or status made the host panic, or request_filter sent no more
\* than an informational response.
THEOREM NoSilentEnd == Spec => []EndedAnswered
<1>1. AnswerInv => EndedAnswered
  BY DEF AnswerInv
<1> QED
  BY <1>1, AnswerInvariance, PTL

\* What a plugin answered locally with a final status is what the client gets, not
\* the upstream's response, across attempts.
THEOREM LocalAnswerPrevails == Spec => []LocalAnswerWins
<1>1. AnswerInv => LocalAnswerWins
  BY DEF AnswerInv
<1> QED
  BY <1>1, AnswerInvariance, PTL

\* After an error was answered nothing more is sent upstream.
THEOREM RejectionStops == Spec => RejectionFinal
<1>1. AnswerInv /\ [Next]_vars =>
        [reply # None /\ reply.by = "error" => UNCHANGED forwarded]_vars
  <2> SUFFICES ASSUME AnswerInv, Next, reply # None, reply.by = "error"
               PROVE  UNCHANGED forwarded
    OBVIOUS
  <2>1. phase = "done"
    BY DEF AnswerInv
  <2>2. ~UpstreamRequestFilterDone
    BY <2>1 DEF UpstreamRequestFilterDone, Finished
  <2> QED
    BY <2>2 DEF Next, EarlyRequestFilter, Skip, OnRequestHeaders, HeadersHook,
       OnLocalReply, ReplyHook, RequestFilterDone, OnRoutePass, RoutePass,
       OnRouteSelect, RouteSelect, OnRoutePanic, RoutePanic, OnRouteReject,
       RouteReject, Route, NoUpstreamSelected, Connect, InsertHost,
       RequestBody, UpstreamResponse, UpstreamBodyChunk, OnBody, BodyHook,
       BodyFilterDone, Retry, UpstreamBroken, ClientGone
<1> QED
  BY <1>1, AnswerInvariance, PTL DEF Spec, RejectionFinal

-----------------------------------------------------------------------------
(* The chain stops at a response *)

\* StopOrGoOn ends the loop or goes on without a response.
LEMMA StopOrGoOnStops ==
  ASSUME NEW c, StopOrGoOn(c)
  PROVE  at' = Len(chain) + 1 \/ c.response = None
  BY DEF StopOrGoOn

\* A callback that left no response lets the loop go on; one that left one ends it.
LEMMA StopStep ==
  ASSUME TypeOK, SelectionInv, ResponseStopsChain, [Next]_vars
  PROVE  ResponseStopsChain'
<1> USE DEF ResponseStopsChain, HeaderFilters
<1>0. Len(chain) \in Nat /\ at \in 1..(Len(chain) + 1)
  BY HttpFlowAssumption DEF HttpFlowAssumption, TypeOK
<1>1. CASE EarlyRequestFilter
  BY <1>1 DEF EarlyRequestFilter
<1>2. CASE Skip
  <2>1. at' = at + 1 /\ UNCHANGED <<chain, phase, replying, ctx>>
    BY <1>2 DEF Skip
  <2>2. phase \in HeaderFilters => "on_request_headers" \notin chain[at]
    BY <1>2, Zenon DEF Skip, BodyFilters
  <2>3. at \in 1..Len(chain) /\ ~replying
    BY <1>2 DEF Skip
  <2> QED
    BY <1>0, <2>1, <2>2, <2>3
<1>3. CASE OnRequestHeaders
  <2>1. PICK c \in Touched(ctx), o \in Outcomes :
          /\ ctx' = c
          /\ IF ~Answered(c, o)
               THEN at' = at + 1 /\ UNCHANGED <<replying, short_circuit>>
             ELSE IF "on_local_reply" \in chain[at]
               THEN replying' = TRUE /\ UNCHANGED <<at, short_circuit>>
             ELSE StopOrGoOn(c)
    BY <1>3 DEF OnRequestHeaders, HeadersHook, Leaves
  <2>2. UNCHANGED <<chain, phase>>
    BY <1>3 DEF OnRequestHeaders, HeadersHook
  <2>3. CASE ~Answered(c, o)
    BY <2>1, <2>2, <2>3 DEF Answered
  <2>4. CASE Answered(c, o) /\ "on_local_reply" \in chain[at]
    BY <2>1, <2>2, <2>4
  <2>5. CASE Answered(c, o) /\ "on_local_reply" \notin chain[at]
    <3>1. at' = Len(chain) + 1 \/ ctx'.response = None
      BY <2>1, <2>5, StopOrGoOnStops
    <3>2. at' \in 1..Len(chain) => ctx'.response = None
      BY <1>0, <3>1
    <3> QED
      BY <2>2, <3>2
  <2> QED
    BY <2>3, <2>4, <2>5
<1>4. CASE OnLocalReply
  <2>1. at' = Len(chain) + 1 \/ ctx'.response = None
    BY <1>4, StopOrGoOnStops DEF OnLocalReply, ReplyHook, Leaves
  <2>2. UNCHANGED <<chain, phase>>
    BY <1>4 DEF OnLocalReply, ReplyHook
  <2>3. at' \in 1..Len(chain) => ctx'.response = None
    BY <1>0, <2>1
  <2> QED
    BY <2>2, <2>3
<1>5. CASE RequestFilterDone
  BY <1>5 DEF RequestFilterDone, Finished
<1>6. CASE OnRoutePass \/ OnRouteSelect \/ OnRoutePanic \/ OnRouteReject
  BY <1>6 DEF OnRoutePass, RoutePass, OnRouteSelect, RouteSelect, OnRoutePanic,
     RoutePanic, OnRouteReject, RouteReject, Route, Calling, Fail
<1>7. CASE NoUpstreamSelected \/ Connect
  BY <1>7 DEF NoUpstreamSelected, Finished, Connect, Fail
<1>8. CASE InsertHost
  BY <1>8 DEF InsertHost
<1>9. CASE UpstreamRequestFilterDone
  BY <1>9 DEF UpstreamRequestFilterDone, Respond
<1>10. CASE RequestBody \/ UpstreamResponse \/ UpstreamBodyChunk
  BY <1>10 DEF RequestBody, UpstreamResponse, UpstreamBodyChunk
<1>11. CASE OnBody
  BY <1>11 DEF OnBody, BodyHook, BodyFilters
<1>12. CASE BodyFilterDone
  BY <1>12 DEF BodyFilterDone
<1>13. CASE Retry \/ UpstreamBroken \/ ClientGone
  BY <1>13 DEF Retry, UpstreamBroken, Fail, ClientGone
<1>14. CASE UNCHANGED vars
  BY <1>14 DEF vars
<1> QED
  BY <1>1, <1>2, <1>3, <1>4, <1>5, <1>6, <1>7, <1>8, <1>9, <1>10, <1>11,
     <1>12, <1>13, <1>14 DEF Next

\* No header callback of request_filter runs once a response is in the context,
\* and none of upstream_request_filter after a module that left one there.
THEOREM ChainStops == Spec => []ResponseStopsChain
<1>1. Init => ResponseStopsChain
  BY DEF Init, ResponseStopsChain, HeaderFilters
<1>2. TypeOK /\ SelectionInv /\ ResponseStopsChain /\ [Next]_vars
        => ResponseStopsChain'
  BY StopStep
<1> QED
  BY <1>1, <1>2, Invariance, PTL DEF Spec

-----------------------------------------------------------------------------
(* The body the hooks see *)

\* What BodySeenInOrder asks of the context, the record of the edit and the number
\* of chunks read.
InOrder(body, e, k) ==
  body = IF e.body = None THEN None
         ELSE e.body \o [i \in 1..(k - e.chunk) |-> e.chunk + i]

\* Nothing was read behind an edit that was made just now.
LEMMA InOrderNow ==
  ASSUME NEW b \in Seq(Nat) \cup {None}, NEW k \in Nat
  PROVE  InOrder(b, [body |-> b, chunk |-> k], k)
<1>1. CASE b = None
  BY <1>1 DEF InOrder
<1>2. CASE b # None
  <2>1. b \in Seq(Nat)
    BY <1>2
  <2>2. [i \in 1..(k - k) |-> k + i] = <<>>
    OBVIOUS
  <2>3. b \o <<>> = b
    BY <2>1
  <2> QED
    BY <1>2, <2>2, <2>3 DEF InOrder
<1> QED
  BY <1>1, <1>2

\* A hook's edit starts a new record, anything else keeps the old one.
LEMMA LeavesInOrder ==
  ASSUME TypeOK, BodyInv, NEW c \in Touched(ctx), Leaves(c), UNCHANGED chunk
  PROVE  edit'.chunk <= chunk' /\ BodySeenInOrder'
<1>1. c.body \in Seq(Nat) \cup {None} /\ chunk \in Nat
  BY TouchedType, HttpFlowAssumption DEF HttpFlowAssumption, TypeOK, Contexts
<1>2. CASE c.body = ctx.body
  BY <1>2 DEF Leaves, BodyInv, BodySeenInOrder
<1>3. CASE c.body # ctx.body
  <2>1. ctx' = c /\ edit' = [body |-> c.body, chunk |-> chunk]
    BY <1>3 DEF Leaves
  <2>2. InOrder(c.body, [body |-> c.body, chunk |-> chunk], chunk)
    BY <1>1, InOrderNow
  <2> QED
    BY <1>1, <2>1, <2>2 DEF BodySeenInOrder, InOrder
<1> QED
  BY <1>2, <1>3

\* Appending to the end of a concatenation is appending to its second part.
LEMMA AppendConcat ==
  ASSUME NEW a \in Seq(Nat), NEW b \in Seq(Nat), NEW e \in Nat
  PROVE  Append(a \o b, e) = a \o Append(b, e)
<1> DEFINE x == Append(a \o b, e)
           y == a \o Append(b, e)
<1>1. x \in Seq(Nat) /\ y \in Seq(Nat) /\ Len(x) = Len(y)
  OBVIOUS
<1>2. ASSUME NEW i \in 1..Len(x)
      PROVE  x[i] = y[i]
  <2>1. CASE i <= Len(a)
    BY <2>1
  <2>2. CASE i = Len(a) + Len(b) + 1
    BY <2>2
  <2>3. CASE Len(a) < i /\ i <= Len(a) + Len(b)
    BY <2>3
  <2>4. i \in Nat /\ Len(a) \in Nat /\ Len(b) \in Nat /\ i <= Len(a) + Len(b) + 1
    BY <1>1
  <2> QED
    BY <2>1, <2>2, <2>3, <2>4
<1> HIDE DEF x, y
<1>3. x = y
  BY <1>1, <1>2
<1> QED
  BY <1>3 DEF x, y

\* A chunk read goes behind what the context holds.
LEMMA PopulateInOrder ==
  ASSUME TypeOK, BodyInv, ctx.body # None
  PROVE  PopulateReqBody(ctx, chunk + 1).body =
           edit.body \o [i \in 1..((chunk + 1) - edit.chunk) |-> edit.chunk + i]
<1>1. /\ ctx \in Contexts /\ chunk \in Nat /\ edit.chunk \in Nat
      /\ edit.chunk <= chunk /\ edit.body \in Seq(Nat) \cup {None}
  BY HttpFlowAssumption DEF HttpFlowAssumption, TypeOK, BodyInv
<1> DEFINE n == chunk - edit.chunk
           s == [i \in 1..n |-> edit.chunk + i]
<1>2. edit.body # None /\ edit.body \in Seq(Nat) /\ ctx.body = edit.body \o s
  BY <1>1 DEF BodyInv, BodySeenInOrder
<1>3. n \in Nat /\ edit.chunk + (n + 1) = chunk + 1 /\ (chunk + 1) - edit.chunk = n + 1
  BY <1>1
<1>4. s \in Seq(Nat) /\ Len(s) = n
  BY <1>1, <1>3
<1>5. Append(s, chunk + 1) = [i \in 1..(n + 1) |-> edit.chunk + i]
  BY <1>1, <1>3, <1>4
<1>6. Append(edit.body \o s, chunk + 1) = edit.body \o Append(s, chunk + 1)
  <2>1. edit.body \in Seq(Nat) /\ s \in Seq(Nat) /\ chunk + 1 \in Nat
    BY <1>1, <1>2, <1>4
  <2> HIDE DEF s
  <2> QED
    BY <2>1, AppendConcat, Zenon
<1>7. PopulateReqBody(ctx, chunk + 1).body = Append(ctx.body, chunk + 1)
  BY <1>1 DEF PopulateReqBody, Contexts
<1> QED
  BY <1>2, <1>3, <1>5, <1>6, <1>7

\* The record has a body if the context has one.
LEMMA NoBodyAlike ==
  ASSUME TypeOK, BodyInv, ctx.body = None
  PROVE  edit.body = None
<1>1. SUFFICES ASSUME edit.body # None
               PROVE  ctx.body \in Seq(Nat)
  BY HttpFlowAssumption DEF HttpFlowAssumption
<1>2. edit.body \in Seq(Nat) /\ edit.chunk \in Nat /\ chunk - edit.chunk \in Nat
  BY <1>1, HttpFlowAssumption DEF HttpFlowAssumption, TypeOK, BodyInv
<1>3. \A i \in 1..(chunk - edit.chunk) : edit.chunk + i \in Nat
  BY <1>2
<1>4. [i \in 1..(chunk - edit.chunk) |-> edit.chunk + i] \in Seq(Nat)
  <2> DEFINE n == chunk - edit.chunk
  <2>1. n \in Nat /\ \A i \in 1..n : edit.chunk + i \in Nat
    BY <1>2, <1>3
  <2> HIDE DEF n
  <2>2. [i \in 1..n |-> edit.chunk + i] \in Seq(Nat)
    BY <2>1
  <2> QED
    BY <2>2 DEF n
<1>5. ctx.body = edit.body \o [i \in 1..(chunk - edit.chunk) |-> edit.chunk + i]
  BY <1>1, Zenon DEF BodyInv, BodySeenInOrder
<1> QED
  BY <1>2, <1>4, <1>5

\* A step of the flow keeps the invariant about the body.
LEMMA BodyStep ==
  ASSUME TypeOK, BodyInv, [Next]_vars
  PROVE  BodyInv'
<1>0. /\ chunk \in Nat /\ edit.chunk \in Nat /\ ctx.body \in Seq(Nat) \cup {None}
      /\ edit.chunk <= chunk
  BY HttpFlowAssumption DEF HttpFlowAssumption, TypeOK, Contexts, BodyInv
<1>k. UNCHANGED <<ctx, edit, chunk>> => edit'.chunk <= chunk' /\ BodySeenInOrder'
  BY DEF BodyInv, BodySeenInOrder
<1>1. CASE EarlyRequestFilter
  <2>1. /\ ctx'.body = <<>> /\ edit' = [body |-> <<>>, chunk |-> 0]
        /\ chunk' = 0 /\ phase' # "accepted"
    BY <1>1 DEF EarlyRequestFilter, BodyInv
  <2>2. InOrder(<<>>, [body |-> <<>>, chunk |-> 0], 0)
    <3>1. <<>> \in Seq(Nat) \cup {None} /\ 0 \in Nat
      OBVIOUS
    <3> QED
      BY <3>1, InOrderNow
  <2>3. BodySeenInOrder'
    BY <2>1, <2>2 DEF BodySeenInOrder, InOrder
  <2> QED
    BY <2>1, <2>3 DEF BodyInv
<1>2. CASE OnRequestHeaders \/ OnLocalReply \/ OnBody
  <2>1. UNCHANGED <<phase, chunk>> /\ \E c \in Touched(ctx) : Leaves(c)
    BY <1>2 DEF OnRequestHeaders, HeadersHook, OnLocalReply, ReplyHook, OnBody, BodyHook
  <2> QED
    BY <2>1, LeavesInOrder DEF BodyInv
<1>3. CASE OnRoutePass \/ OnRouteSelect \/ OnRoutePanic \/ OnRouteReject
  <2>1. UNCHANGED chunk /\ \E c \in Touched(ctx) : Leaves(c)
    BY <1>3 DEF OnRoutePass, RoutePass, OnRouteSelect, RouteSelect,
       OnRoutePanic, RoutePanic, OnRouteReject, RouteReject, Route
  <2>2. phase' # "accepted"
    BY <1>3 DEF OnRoutePass, RoutePass, OnRouteSelect, RouteSelect,
       OnRoutePanic, RoutePanic, OnRouteReject, RouteReject, Route, Calling, Fail
  <2> QED
    BY <2>1, <2>2, LeavesInOrder DEF BodyInv
<1>4. CASE RequestBody
  <2>1. phase' = "request_body_filter"
    BY <1>4 DEF RequestBody
  <2>2. CASE UNCHANGED <<ctx, chunk>>
    <3>1. UNCHANGED <<ctx, edit, chunk>>
      BY <1>4, <2>2 DEF RequestBody
    <3> QED
      BY <1>k, <2>1, <3>1 DEF BodyInv
  <2>3. CASE chunk' = chunk + 1 /\ ctx' = PopulateReqBody(ctx, chunk + 1)
    <3>1. edit' = edit
      BY <1>4 DEF RequestBody
    <3>2. CASE ctx.body = None
      <4>1. edit.body = None
        BY <3>2, NoBodyAlike
      <4>2. ctx' = ctx
        BY <2>3, <3>2 DEF PopulateReqBody
      <4>3. BodySeenInOrder'
        BY <3>1, <3>2, <4>1, <4>2, Zenon DEF BodySeenInOrder
      <4> QED
        BY <1>0, <2>1, <2>3, <3>1, <4>3 DEF BodyInv
    <3>3. CASE ctx.body # None
      <4>1. ctx'.body = edit.body \o [i \in 1..((chunk + 1) - edit.chunk) |-> edit.chunk + i]
        BY <2>3, <3>3, PopulateInOrder
      <4>2. edit.body # None
        BY <3>3 DEF BodyInv, BodySeenInOrder
      <4>3. BodySeenInOrder'
        <5>1. InOrder(ctx'.body, edit, chunk + 1)
          BY <4>1, <4>2, Zenon DEF InOrder
        <5>2. InOrder(ctx'.body, edit', chunk')
          BY <2>3, <3>1, <5>1, Zenon
        <5> QED
          BY <5>2 DEF BodySeenInOrder, InOrder
      <4> QED
        BY <1>0, <2>1, <2>3, <3>1, <4>3 DEF BodyInv
    <3> QED
      BY <3>2, <3>3
  <2> QED
    BY <1>4, <2>2, <2>3 DEF RequestBody
<1>5. CASE Retry
  <2>1. /\ ctx' = ctx /\ edit' = [body |-> ctx.body, chunk |-> 0]
        /\ chunk' = 0 /\ phase' # "accepted"
    BY <1>5 DEF Retry
  <2>2. InOrder(ctx.body, [body |-> ctx.body, chunk |-> 0], 0)
    BY <1>0, InOrderNow
  <2>3. BodySeenInOrder'
    BY <2>1, <2>2 DEF BodySeenInOrder, InOrder
  <2> QED
    BY <2>1, <2>3 DEF BodyInv
<1>6. CASE Skip \/ RequestFilterDone \/ NoUpstreamSelected \/ Connect \/ InsertHost
  <2>1. UNCHANGED <<ctx, edit, chunk>> /\ (phase' = "accepted" => phase = "accepted")
    BY <1>6 DEF Skip, RequestFilterDone, Respond, Fail, NoUpstreamSelected,
       Connect, InsertHost
  <2> QED
    BY <1>k, <2>1 DEF BodyInv
<1>7. CASE \/ UpstreamRequestFilterDone \/ UpstreamResponse \/ UpstreamBodyChunk
           \/ BodyFilterDone \/ UpstreamBroken \/ ClientGone
  <2>1. UNCHANGED <<ctx, edit, chunk>> /\ phase' # "accepted"
    BY <1>7 DEF UpstreamRequestFilterDone, Respond, UpstreamResponse,
       UpstreamBodyChunk, BodyFilterDone, UpstreamBroken, Fail, ClientGone
  <2> QED
    BY <1>k, <2>1 DEF BodyInv
<1>8. CASE UNCHANGED vars
  <2>1. UNCHANGED <<ctx, edit, chunk, phase>>
    BY <1>8 DEF vars
  <2> QED
    BY <1>k, <2>1 DEF BodyInv
<1> QED
  BY <1>1, <1>2, <1>3, <1>4, <1>5, <1>6, <1>7, <1>8 DEF Next

\* Whatever hooks write into the body, take away or put back, and over any number of
\* attempts: behind what they left come the chunks read since, each once, in order.
THEOREM BodyInOrder == Spec => []BodySeenInOrder
<1>1. Init => BodyInv
  BY DEF Init, BodyInv, BodySeenInOrder
<1>2. TypeOK /\ BodyInv /\ [Next]_vars => BodyInv'
  BY BodyStep
<1>3. BodyInv => BodySeenInOrder
  BY DEF BodyInv
<1> QED
  BY <1>1, <1>2, <1>3, Invariance, PTL DEF Spec
-----------------------------------------------------------------------------
(* Every step leads on to the answer *)

\* An attempt has finitely many places, a chain finitely many modules.
LEMMA PlaceBound ==
  ASSUME TypeOK, phase \notin Ended
  PROVE  /\ Pieces \in 0..(MaxChunks + 1) /\ Place \in 1..(2 * MaxChunks + 11)
         /\ MaxChunks \in Nat /\ Len(chain) \in Nat /\ at \in 1..(Len(chain) + 1)
<1>1. Pieces \in 0..(MaxChunks + 1) /\ MaxChunks \in Nat
  BY HttpFlowAssumption DEF HttpFlowAssumption, TypeOK, Pieces
<1>2. phase \in Phases \ Ended
  BY DEF TypeOK
<1>3. Place \in 1..(2 * MaxChunks + 11)
  BY <1>1, <1>2 DEF Place, Phases, HeaderFilters, BodyFilters, Ended
<1>4. Len(chain) \in Nat /\ at \in 1..(Len(chain) + 1)
  BY HttpFlowAssumption DEF HttpFlowAssumption, TypeOK
<1> QED
  BY <1>1, <1>3, <1>4

\* Within a place the loop goes on from module to module.
LEMMA LoopLeadsOn ==
  ASSUME UNCHANGED <<phase, chunk, body_read, tries>>,
         at' > at \/ (at' = at /\ replying' /\ ~replying)
  PROVE  LeadsOn
<1>1. Place' = Place
  BY DEF Place, Pieces
<1> QED
  BY <1>1 DEF LeadsOn

\* A step of a request that was not answered is one of LeadsOn.
LEMMA NearerStep ==
  ASSUME TypeOK, SelectionInv, AnswerInv, Next, ~Replied, phase \notin Ended
  PROVE  Replied' \/ phase' \in Ended \/ LeadsOn
<1>0. /\ Pieces \in 0..(MaxChunks + 1) /\ MaxChunks \in Nat
      /\ Len(chain) \in Nat /\ at \in 1..(Len(chain) + 1)
      /\ tries \in Nat /\ chunk \in Nat /\ body_read \in BOOLEAN
  BY PlaceBound DEF TypeOK
<1>1. CASE EarlyRequestFilter
  <2>1. Place = 1 /\ Place' = 2 /\ tries' = tries
    BY <1>1 DEF EarlyRequestFilter, Place
  <2> QED
    BY <2>1 DEF LeadsOn
<1>2. CASE Skip \/ OnRoutePass \/ OnBody
  BY <1>0, <1>2, LoopLeadsOn DEF Skip, OnRoutePass, RoutePass, Route, OnBody, BodyHook
<1>3. CASE OnRequestHeaders
  <2>1. at \in 1..Len(chain) /\ ~replying /\ UNCHANGED <<phase, chunk, body_read, tries>>
    BY <1>3 DEF OnRequestHeaders, HeadersHook, Calling
  <2>2. at' > at \/ (at' = at /\ replying')
    BY <1>0, <1>3, <2>1 DEF OnRequestHeaders, HeadersHook, StopOrGoOn
  <2> QED
    BY <2>1, <2>2, LoopLeadsOn
<1>4. CASE OnLocalReply
  <2>1. at \in 1..Len(chain) /\ UNCHANGED <<phase, chunk, body_read, tries>>
    BY <1>4 DEF OnLocalReply, ReplyHook, SelectionInv
  <2>2. at' > at
    BY <1>0, <1>4, <2>1 DEF OnLocalReply, ReplyHook, StopOrGoOn
  <2> QED
    BY <2>1, <2>2, LoopLeadsOn
<1>5. CASE RequestFilterDone
  <2>1. CASE phase' = "done"
    BY <2>1 DEF Ended
  <2>2. CASE phase' = "panicked_status"
    BY <2>2 DEF Ended
  <2>3. CASE phase' \notin {"done", "panicked_status"}
    <3>1. tries' = 1 /\ tries = 0
      BY <1>5, <2>3 DEF RequestFilterDone, Respond, Finished, AnswerInv
    <3> QED
      BY <3>1 DEF LeadsOn
  <2> QED
    BY <2>1, <2>2, <2>3
<1>6. CASE OnRouteSelect
  <2>1. Place = 3 /\ Place' = 4 /\ tries' = tries
    BY <1>6 DEF OnRouteSelect, RouteSelect, Route, Calling, Place
  <2> QED
    BY <2>1 DEF LeadsOn
<1>7. CASE OnRoutePanic \/ OnRouteReject \/ NoUpstreamSelected \/ UpstreamBroken
           \/ ClientGone
  BY <1>7 DEF OnRoutePanic, RoutePanic, OnRouteReject, RouteReject,
     NoUpstreamSelected, UpstreamBroken, ClientGone, Fail, Ended
<1>8. CASE Connect
  <2>1. CASE phase' = "connected"
    <3>1. Place = 4 /\ Place' = 5 /\ tries' = tries
      BY <1>8, <2>1 DEF Connect, Place
    <3> QED
      BY <3>1 DEF LeadsOn
  <2>2. CASE phase' # "connected"
    BY <1>8, <2>2 DEF Connect, Fail, Ended
  <2> QED
    BY <2>1, <2>2
<1>9. CASE InsertHost
  <2>1. phase' \in {"panicked_host", "upstream_request_filter"} /\ tries' = tries
    BY <1>9 DEF InsertHost
  <2>2. phase' = "upstream_request_filter" => Place = 5 /\ Place' = 6
    BY <1>9 DEF InsertHost, Place
  <2> QED
    BY <2>1, <2>2 DEF LeadsOn, Ended
<1>10. CASE UpstreamRequestFilterDone
  <2>1. phase' \in {"panicked_status", "proxying"}
    BY <1>10 DEF UpstreamRequestFilterDone, Respond
  <2>2. CASE phase' = "proxying"
    <3>1. Place = 6 /\ Place' = 2 * Pieces + 8 /\ tries' = tries
      BY <1>10, <2>2 DEF UpstreamRequestFilterDone, Finished, Place, Pieces
    <3> QED
      BY <1>0, <3>1 DEF LeadsOn
  <2> QED
    BY <2>1, <2>2 DEF Ended
<1>11. CASE RequestBody
  <2>1. Pieces' \in Nat /\ Pieces' > Pieces /\ tries' = tries
    BY <1>0, <1>11 DEF RequestBody, Pieces
  <2>2. Place = 2 * Pieces + 8 /\ Place' = 2 * Pieces' + 7
    BY <1>11 DEF RequestBody, Place
  <2>3. \A m, n \in Nat : n > m => 2 * n + 7 > 2 * m + 8
    OBVIOUS
  <2>4. 2 * Pieces' + 7 > 2 * Pieces + 8
    <3>1. Pieces \in Nat
      BY <1>0
    <3>2. Pieces' \in Nat /\ Pieces' > Pieces
      BY <2>1
    <3> QED
      BY <3>1, <3>2, <2>3
  <2>5. Place' > Place
    BY <2>2, <2>4
  <2> QED
    BY <2>1, <2>5 DEF LeadsOn
<1>12. CASE UpstreamResponse
  <2>1. Place = 2 * Pieces + 8 /\ Place' = 2 * MaxChunks + 11 /\ tries' = tries
    BY <1>12 DEF UpstreamResponse, Place
  <2> QED
    BY <1>0, <2>1 DEF LeadsOn
<1>13. CASE UpstreamBodyChunk
  BY <1>13 DEF UpstreamBodyChunk, AnswerInv, Forwarding
<1>14. CASE BodyFilterDone
  <2>1. phase \in BodyFilters \ {"response_body_filter"}
    BY <1>14 DEF BodyFilterDone, Finished, AnswerInv, Forwarding, BodyFilters
  <2>2. CASE phase = "response_filter"
    BY <1>14, <2>2, UpstreamAnswers DEF BodyFilterDone, Replied
  <2>3. CASE phase = "request_body_filter" /\ phase' = "proxying"
    <3>1. Place = 2 * Pieces + 7 /\ Place' = 2 * Pieces + 8 /\ tries' = tries
      BY <1>14, <2>3 DEF BodyFilterDone, Place, Pieces
    <3> QED
      BY <1>0, <3>1 DEF LeadsOn
  <2>4. CASE phase' # "proxying"
    BY <1>14, <2>4 DEF BodyFilterDone, Ended
  <2> QED
    BY <2>1, <2>2, <2>3, <2>4 DEF BodyFilters
<1>15. CASE Retry
  BY <1>0, <1>15 DEF Retry, LeadsOn
<1> QED
  BY <1>1, <1>2, <1>3, <1>4, <1>5, <1>6, <1>7, <1>8, <1>9, <1>10, <1>11,
     <1>12, <1>13, <1>14, <1>15 DEF Next

\* No chain of hook results, retries and pieces of a body takes an unanswered
\* request in a circle: each step leads on, and what it leads through is bounded.
THEOREM NoCircles ==
  Spec => /\ NearerReply
          /\ [](/\ tries \in 0..MaxTries
                /\ phase \notin Ended => /\ Place \in 1..(2 * MaxChunks + 11)
                                         /\ at \in 1..(Len(chain) + 1))
<1>1. TypeOK /\ SelectionInv /\ AnswerInv /\ [Next]_vars
      => [~Replied /\ phase \notin Ended =>
            Replied' \/ phase' \in Ended \/ LeadsOn]_vars
  BY NearerStep
<1>2. TypeOK => /\ tries \in 0..MaxTries
                /\ phase \notin Ended => /\ Place \in 1..(2 * MaxChunks + 11)
                                         /\ at \in 1..(Len(chain) + 1)
  BY PlaceBound DEF TypeOK
<1> QED
  BY <1>1, <1>2, Invariance, AnswerInvariance, PTL DEF Spec, NearerReply
=============================================================================
