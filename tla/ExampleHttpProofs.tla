-------------------------- MODULE ExampleHttpProofs --------------------------
(***************************************************************************)
(* What the HTTP plugins of the repository do in the chain, for every      *)
(* chain of them and any number of attempts and of other requests. That    *)
(* they implement HttpFlow carries its theorems over to them; the numbers, *)
(* the local reply and the routes need an invariant of their own.          *)
(***************************************************************************)
EXTENDS ExampleHttp, HttpFlowProofs

-----------------------------------------------------------------------------
(* The plugins implement HttpFlow *)

\* Whatever a hook may leave and return, its call is a step of HttpFlow.
LEMMA HookIsNext ==
  ASSUME NEW c \in Touched(ctx), NEW o \in Outcomes, Hook(c, o)
  PROVE  Next
  BY DEF Hook, Next, OnRequestHeaders, OnLocalReply, OnBody, OnRoutePass,
         OnRouteSelect, OnRoutePanic, OnRouteReject

\* The context as it is, with or without a response, is one a hook may leave.
LEMMA ContextTouched ==
  ASSUME TypeOK
  PROVE  ctx \in Touched(ctx) /\ [ctx EXCEPT !.response = 200] \in Touched(ctx)
<1>1. ctx \in Contexts
  BY DEF TypeOK
<1> QED
  BY <1>1, ExampleHttpAssumption DEF ExampleHttpAssumption, Contexts, Touched

\* A callback leaves the context, or puts a response into it if the request is
\* GET /local-reply; it never fails.
LEMMA EventOutcome ==
  /\ Event.context \in {ctx, [ctx EXCEPT !.response = 200]}
  /\ Event.outcome \in {"Continue", "Replace"}
  /\ ~local_reply => Event = Unchanged
  BY DEF Event, MwEvent, MwOnRequestHeaders, NoopOnHttpEvent, Unchanged, Answers,
         Result

\* The route of a number is one HttpFlow allows.
LEMMA RouteType ==
  ASSUME NEW n \in 0..MaxCount
  PROVE  /\ MwRoute(n) \in Routes /\ n \in Paths \ BadPaths
         /\ HostOf(n) \in Upstreams \ TlsUpstreams /\ Draw(n) \in Draws
<1>1. HostOf(n) \in {Dev, Org, Echo}
  BY DEF HostOf
<1> QED
  BY <1>1, ExampleHttpAssumption
     DEF ExampleHttpAssumption, MwRoute, Routes, Draw, Draws

\* What on_route leaves when it drew n
LEMMA RoutedContext ==
  ASSUME TypeOK, NEW n \in 0..MaxCount
  PROVE  SetRoute(ctx, MwRoute(n)) \in Touched(ctx)
<1>1. ctx \in Contexts /\ MwRoute(n) \in Routes
  BY RouteType DEF TypeOK
<1> QED
  BY <1>1 DEF SetRoute, Contexts, Touched

\* An element of a sequence over S is in S.
LEMMA ElementInSet ==
  ASSUME NEW S, NEW s \in Seq(S), NEW i \in 1..Len(s)
  PROVE  s[i] \in S
  OBVIOUS

\* The counter and the numbers drawn from it keep their types.
CountsOK ==
  /\ local_reply \in BOOLEAN
  /\ counter \in 0..MaxCount /\ others \subseteq 0..MaxCount
  /\ mine \in Seq(Draws)

\* The counter and what is drawn from it stay within the bound.
LEMMA CountsStep ==
  ASSUME CountsOK, [ExampleNext]_<<vars, exampleVars>>
  PROVE  CountsOK'
<1> USE ExampleHttpAssumption, HttpFlowAssumption
    DEF ExampleHttpAssumption, CountsOK, exampleVars
<1>1. CASE HostStep /\ UNCHANGED exampleVars
  BY <1>1
<1>2. CASE PluginEvent
  BY <1>2 DEF PluginEvent
<1>3. CASE MwOnRoute
  <2>1. CASE ctx.body = None
    BY <1>3, <2>1 DEF MwOnRoute
  <2>2. CASE ctx.body # None
    <3>1. /\ counter < MaxCount /\ counter' = counter + 1
          /\ mine' = Append(mine, Draw(counter)) /\ UNCHANGED <<local_reply, others>>
      BY <1>3, <2>2 DEF MwOnRoute, FetchAdd
    <3>2. Draw(counter) \in Draws
      BY RouteType
    <3> QED
      BY <3>1, <3>2
  <2> QED
    BY <2>1, <2>2
<1>4. CASE OtherRequest
  <2>1. /\ counter < MaxCount /\ counter' = counter + 1
        /\ others' = others \cup {counter} /\ UNCHANGED <<local_reply, mine>>
    BY <1>4 DEF OtherRequest, FetchAdd, HttpFlowAssumption
  <2> QED
    BY <2>1
<1>5. CASE UNCHANGED <<vars, exampleVars>>
  BY <1>5
<1> QED
  BY <1>1, <1>2, <1>3, <1>4, <1>5 DEF ExampleNext

\* Every step of the composition is one of HttpFlow or leaves the request alone.
LEMMA StepRefines ==
  ASSUME TypeOK, CountsOK, [ExampleNext]_<<vars, exampleVars>>
  PROVE  [Next]_vars
<1>1. CASE HostStep
  BY <1>1 DEF HostStep, Next
<1>2. CASE PluginEvent
  <2>1. Hook(Event.context, Event.outcome)
    BY <1>2 DEF PluginEvent
  <2> QED
    BY <2>1, EventOutcome, ContextTouched, HookIsNext DEF Outcomes
<1>3. CASE MwOnRoute
  <2>1. CASE ctx.body = None \/ ctx.route = None
    <3>1. Hook(ctx, "Err")
      BY <1>3, <2>1 DEF MwOnRoute
    <3> QED
      BY <3>1, ContextTouched, HookIsNext DEF Outcomes
  <2>2. CASE ctx.body # None /\ ctx.route # None
    <3>1. Hook(SetRoute(ctx, MwRoute(counter)), "Replace")
      BY <1>3, <2>2 DEF MwOnRoute
    <3> QED
      BY <3>1, RoutedContext, HookIsNext DEF Outcomes, CountsOK
  <2> QED
    BY <2>1, <2>2
<1>4. CASE OtherRequest
  BY <1>4 DEF OtherRequest
<1>5. CASE UNCHANGED <<vars, exampleVars>>
  BY <1>5
<1> QED
  BY <1>1, <1>2, <1>3, <1>4, <1>5 DEF ExampleNext

\* The composition starts as HttpFlow does.
LEMMA ExampleInitial ==
  ASSUME ExampleInit
  PROVE  Init /\ CountsOK
  BY ExampleHttpAssumption DEF ExampleHttpAssumption, ExampleInit, CountsOK

\* The variables of both modules stay in their types, and what is forwarded stays
\* what was selected, as in HttpFlow.
THEOREM ExampleTypes == ExampleSpec => [](TypeOK /\ SelectionInv /\ CountsOK)
<1>1. ExampleInit => TypeOK /\ SelectionInv /\ CountsOK
  BY ExampleInitial, InitInv
<1>2. TypeOK /\ SelectionInv /\ CountsOK /\ [ExampleNext]_<<vars, exampleVars>>
        => (TypeOK /\ SelectionInv /\ CountsOK)'
  BY CountsStep, StepRefines, TypeStep, SelectionStep
<1> QED
  BY <1>1, <1>2, PTL DEF ExampleSpec

\* The repository's HTTP plugins do nothing in the chain that HttpFlow leaves
\* out: each of its theorems holds of the proxy that runs them.
THEOREM PluginsImplementHttpFlow == ExampleSpec => ImplementsHttpFlow
<1>1. ExampleInit => Init
  BY ExampleInitial
<1>2. TypeOK /\ CountsOK /\ [ExampleNext]_<<vars, exampleVars>> => [Next]_vars
  BY StepRefines
<1> QED
  BY <1>1, <1>2, ExampleTypes, PTL DEF ExampleSpec, ImplementsHttpFlow, Spec

-----------------------------------------------------------------------------
(* The numbers *)

\* What becomes of the numbers in a step: nothing, or one is drawn for this
\* request by the middleware's on_route, or one for another request.
LEMMA NumberSteps ==
  ASSUME [ExampleNext]_<<vars, exampleVars>>
  PROVE  \/ UNCHANGED exampleVars
         \/ /\ counter' = counter + 1 /\ mine' = Append(mine, Draw(counter))
            /\ UNCHANGED <<local_reply, others>>
         \/ /\ counter' = counter + 1 /\ others' = others \cup {counter}
            /\ UNCHANGED <<local_reply, mine>>
  BY DEF ExampleNext, PluginEvent, MwOnRoute, OtherRequest, FetchAdd, exampleVars

\* The strengthening that makes uniqueness inductive: the counter is ahead of
\* every number that was drawn.
NumberInv ==
  /\ \A i \in DOMAIN mine : mine[i].number < counter
  /\ \A n \in others : n < counter
  /\ NumbersUnique

\* Numbers below the counter are the ones drawn, and each only once.
LEMMA NumberStep ==
  ASSUME CountsOK, NumberInv, [ExampleNext]_<<vars, exampleVars>>
  PROVE  NumberInv'
<1>0. /\ Len(mine) \in Nat /\ DOMAIN mine = 1..Len(mine) /\ counter \in Nat
      /\ \A i \in 1..Len(mine) : mine[i].number \in Nat
      /\ \A n \in others : n \in Nat
  <2>1. /\ mine \in Seq(Draws) /\ counter \in Nat /\ \A n \in others : n \in Nat
    BY ExampleHttpAssumption DEF ExampleHttpAssumption, CountsOK
  <2>2. Len(mine) \in Nat /\ DOMAIN mine = 1..Len(mine)
    BY <2>1
  <2>3. \A i \in 1..Len(mine) : mine[i] \in Draws
    BY <2>1, ElementInSet
  <2>4. \A d \in Draws : d.number \in Nat
    BY ExampleHttpAssumption DEF ExampleHttpAssumption, Draws
  <2> QED
    BY <2>1, <2>2, <2>3, <2>4
<1>1. CASE UNCHANGED exampleVars
  BY <1>1 DEF exampleVars, NumberInv, NumbersUnique
<1>2. CASE /\ counter' = counter + 1 /\ mine' = Append(mine, Draw(counter))
           /\ UNCHANGED <<local_reply, others>>
  <2>1. /\ DOMAIN mine' = 1..(Len(mine) + 1)
        /\ mine'[Len(mine) + 1].number = counter
        /\ \A i \in 1..Len(mine) : mine'[i] = mine[i]
    BY <1>2 DEF Draw, CountsOK
  <2>2. \A i \in 1..Len(mine) : mine'[i].number < counter /\ mine[i].number \notin others
    BY <1>0, <2>1 DEF NumberInv, NumbersUnique
  <2>3. \A i \in DOMAIN mine' : mine'[i].number < counter' /\ mine'[i].number \notin others
    BY <1>0, <1>2, <2>1, <2>2 DEF NumberInv
  <2>4. \A i \in DOMAIN mine' :
          \A j \in 1..(i - 1) : mine'[j].number # mine'[i].number
    <3> SUFFICES ASSUME NEW i \in 1..(Len(mine) + 1), NEW j \in 1..(i - 1)
                 PROVE  mine'[j].number # mine'[i].number
      BY <2>1
    <3>0. j \in 1..Len(mine)
      BY <1>0
    <3>1. CASE i = Len(mine) + 1
      BY <1>0, <2>1, <2>2, <3>0, <3>1
    <3>2. CASE i # Len(mine) + 1
      <4>1. i \in 1..Len(mine)
        BY <1>0, <3>2
      <4>2. mine[j].number # mine[i].number
        BY <1>0, <4>1 DEF NumberInv, NumbersUnique
      <4> QED
        BY <2>1, <3>0, <4>1, <4>2
    <3> QED
      BY <3>1, <3>2
  <2>5. \A n \in others' : n < counter'
    BY <1>0, <1>2 DEF NumberInv
  <2> QED
    BY <1>2, <2>3, <2>4, <2>5 DEF NumberInv, NumbersUnique
<1>3. CASE /\ counter' = counter + 1 /\ others' = others \cup {counter}
           /\ UNCHANGED <<local_reply, mine>>
  <2>1. \A i \in DOMAIN mine : mine[i].number < counter
    BY DEF NumberInv
  <2> QED
    BY <1>0, <1>3, <2>1 DEF NumberInv, NumbersUnique
<1> QED
  BY <1>1, <1>2, <1>3, NumberSteps

\* A number is drawn once, over all attempts of a request and whatever other
\* requests draw between them.
THEOREM NumbersStayUnique == ExampleSpec => []NumbersUnique
<1>1. ExampleInit => NumberInv
  BY DEF ExampleInit, NumberInv, NumbersUnique
<1>2. CountsOK /\ NumberInv /\ [ExampleNext]_<<vars, exampleVars>> => NumberInv'
  BY NumberStep
<1>3. NumberInv => NumbersUnique
  BY DEF NumberInv
<1> QED
  BY <1>1, <1>2, <1>3, ExampleTypes, PTL DEF ExampleSpec

-----------------------------------------------------------------------------
(* The local reply *)

\* The chain has a module, and every module implements on_request_headers and
\* on_local_reply.
LEMMA ChainOfPlugins ==
  ASSUME TypeOK
  PROVE  /\ Len(chain) \in Nat \ {0} /\ at \in 1..(Len(chain) + 1)
         /\ \A m \in 1..Len(chain) :
              /\ chain[m] \in {Mw, Noop}
              /\ {"on_request_headers", "on_local_reply"} \subseteq chain[m]
<1>1. chain \in Seq({Mw, Noop}) /\ chain # <<>>
  BY ExampleHttpAssumption DEF ExampleHttpAssumption, TypeOK
<1>2. \A p \in {Mw, Noop} : {"on_request_headers", "on_local_reply"} \subseteq p
  BY DEF Mw, Noop, Hooks
<1> QED
  BY <1>1, <1>2 DEF TypeOK

\* A body of no bytes is a body, and one that grew is none less.
LEMMA EmptyBody == <<>> # None
<1>1. <<>> \in Seq(Nat)
  OBVIOUS
<1> QED
  BY <1>1, HttpFlowAssumption DEF HttpFlowAssumption

\* A chunk that is added to the body leaves body and route in the context.
LEMMA PopulateKeeps ==
  ASSUME ctx \in Contexts, ctx.body # None, NEW k \in 1..MaxChunks
  PROVE  /\ PopulateReqBody(ctx, k).body # None
         /\ PopulateReqBody(ctx, k).route = ctx.route
<1>1. ctx.body \in Seq(Nat)
  BY DEF Contexts
<1>3. Append(ctx.body, k) \in Seq(Nat)
  BY <1>1, HttpFlowAssumption DEF HttpFlowAssumption
<1>4. Append(ctx.body, k) # None
  BY <1>3, HttpFlowAssumption DEF HttpFlowAssumption
<1>5. PopulateReqBody(ctx, k) = [ctx EXCEPT !.body = Append(ctx.body, k)]
  BY DEF PopulateReqBody
<1> QED
  BY <1>4, <1>5 DEF Contexts

\* Outside upstream_peer a plugin is called in a header or a body filter.
LEMMA EventSteps ==
  ASSUME PluginEvent
  PROVE  \/ HeadersHook(Event.context, Event.outcome)
         \/ ReplyHook(Event.context)
         \/ BodyHook(Event.context)
  BY DEF PluginEvent, Hook, RoutePass, RouteSelect, RoutePanic, RouteReject,
         Route, Calling

\* Each step keeps a local reply that is made or pending.
LEMMA LocalStep ==
  ASSUME TypeOK, LocalInv, [ExampleNext]_<<vars, exampleVars>>
  PROVE  LocalInv'
<1> SUFFICES ASSUME local_reply, local_reply' = local_reply
             PROVE  LocalInv'
  BY NumberSteps DEF LocalInv, exampleVars
<1> USE HttpFlowAssumption DEF HttpFlowAssumption
<1>0. /\ Len(chain) \in Nat \ {0}
      /\ \A m \in 1..Len(chain) :
           {"on_request_headers", "on_local_reply"} \subseteq chain[m]
      /\ None # 200 /\ 200 \in Statuses
      /\ 200 \notin BadStatuses /\ 200 \notin InterimStatuses
  BY ChainOfPlugins, ExampleHttpAssumption DEF ExampleHttpAssumption
<1>1. phase \in {"accepted", "request_filter", "done", "aborted"}
  BY DEF LocalInv
<1>2. CASE HostStep /\ UNCHANGED exampleVars
  <2>1. CASE EarlyRequestFilter
    <3>1. <<>> # None
      BY EmptyBody
    <3>2. ctx'.body # None /\ ctx'.response = None
      BY <2>1, <3>1 DEF EarlyRequestFilter
    <3> QED
      BY <1>2, <2>1, <3>2, <1>0 DEF LocalInv, EarlyRequestFilter, exampleVars
  <2>2. CASE RequestFilterDone
    BY <1>2, <2>2, <1>0
       DEF LocalInv, RequestFilterDone, Finished, Respond, Written, Replied,
           exampleVars
  <2>3. CASE ClientGone
    BY <1>2, <2>3, <1>0, <1>1
       DEF LocalInv, ClientGone, Finished, HeaderFilters, exampleVars
  <2>4. CASE Skip
    <3>1. phase = "request_filter"
      BY <2>4, <1>1 DEF Skip, HeaderFilters, BodyFilters
    <3> QED
      BY <2>4, <3>1, <1>0 DEF Skip, BodyFilters
  <2> QED
    BY <1>2, <1>1, <2>1, <2>2, <2>3, <2>4
       DEF HostStep, NoUpstreamSelected, Connect, InsertHost,
           UpstreamRequestFilterDone, RequestBody, UpstreamResponse,
           UpstreamBodyChunk, BodyFilterDone, Retry, UpstreamBroken, Finished,
           BodyFilters
<1>3. CASE PluginEvent
  <2>0. UNCHANGED exampleVars
    BY <1>3 DEF PluginEvent
  <2>1. CASE HeadersHook(Event.context, Event.outcome)
    <3>1. /\ phase = "request_filter" /\ at = 1 /\ ~replying
          /\ ctx.response = None /\ ctx.body # None
      BY <2>1, <1>0, <1>1 DEF HeadersHook, Calling, LocalInv, HeaderFilters
    <3>2. Event = Answers
      BY <3>1, <1>0, ChainOfPlugins
         DEF Event, MwEvent, MwOnRequestHeaders, NoopOnHttpEvent, HeaderFilters
    <3>3. /\ Event.context.response = 200
          /\ Event.context.body # None
      BY <3>1, <3>2 DEF Answers, Result, TypeOK, Contexts
    <3> QED
      BY <2>0, <2>1, <3>1, <3>3, <1>0
         DEF HeadersHook, Leaves, Answered, LocalInv, exampleVars
  <2>2. CASE ReplyHook(Event.context)
    <3>1. /\ phase = "request_filter" /\ at = 1 /\ replying
          /\ ctx.response = 200 /\ ctx.body # None
      BY <2>2, <1>0, <1>1 DEF ReplyHook, LocalInv, HeaderFilters
    <3>2. Event = Unchanged
      BY <3>1, <1>0, ChainOfPlugins DEF Event, MwEvent, NoopOnHttpEvent
    <3>3. Event.context = ctx
      BY <3>2 DEF Unchanged, Result
    <3> QED
      BY <2>0, <2>2, <3>1, <3>3, <1>0
         DEF ReplyHook, Leaves, StopOrGoOn, LocalInv, exampleVars
  <2>3. CASE BodyHook(Event.context)
    BY <2>3, <1>1 DEF BodyHook, BodyFilters
  <2> QED
    BY <1>3, <2>1, <2>2, <2>3, EventSteps
<1>4. CASE MwOnRoute
  BY <1>4, <1>1 DEF MwOnRoute, Calling
<1>5. CASE OtherRequest \/ UNCHANGED <<vars, exampleVars>>
  BY <1>5 DEF OtherRequest, LocalInv, vars, exampleVars
<1> QED
  BY <1>2, <1>3, <1>4, <1>5 DEF ExampleNext

\* GET /local-reply is answered by the plugins whatever their order, and neither
\* draws a number nor reaches an upstream.
THEOREM LocalReplyStays == ExampleSpec => []LocalReplyKept
<1>1. ExampleInit => LocalInv
  BY DEF ExampleInit, Init, LocalInv
<1>2. TypeOK /\ LocalInv /\ [ExampleNext]_<<vars, exampleVars>> => LocalInv'
  BY LocalStep
<1>3. LocalInv => LocalReplyKept
  <2>1. [by |-> "request_filter", status |-> 200] # None
    BY HttpFlowAssumption, ExampleHttpAssumption
       DEF HttpFlowAssumption, ExampleHttpAssumption, Replies
  <2> QED
    BY <2>1 DEF LocalInv, LocalReplyKept
<1> QED
  BY <1>1, <1>2, <1>3, ExampleTypes, PTL DEF ExampleSpec

-----------------------------------------------------------------------------
(* The routes *)

\* The middleware's on_route of a request with a route always decides it.
LEMMA MwDecides ==
  ASSUME TypeOK, CountsOK, ctx.body # None, ctx.route # None, MwOnRoute,
         NEW c, c = SetRoute(ctx, MwRoute(counter))
  PROVE  /\ phase = "upstream_peer"
         /\ counter \in 0..MaxCount /\ mine' = Append(mine, Draw(counter))
         /\ c.route = MwRoute(counter) /\ c.body = ctx.body
         /\ RouteSelect(c, "Replace") \/ RoutePanic(c, "Replace")
<1>1. /\ phase = "upstream_peer" /\ mine' = Append(mine, Draw(counter))
      /\ Hook(c, "Replace")
  BY DEF MwOnRoute, Calling
<1>2. c.route = MwRoute(counter) /\ c.body = ctx.body
  BY DEF SetRoute, TypeOK, Contexts
<1>3. counter \in 0..MaxCount
  BY DEF CountsOK
<1>4. /\ c.route # None /\ c.route.upstream = HostOf(counter)
      /\ c.route.upstream # None
  BY <1>2, <1>3, RouteType, HttpFlowAssumption DEF HttpFlowAssumption, MwRoute
<1>5. Selects(c, "Replace") /\ ~Rejects(c, "Replace")
  BY <1>4 DEF Selects, Rejects, Action
<1>6. RouteSelect(c, "Replace") \/ RoutePanic(c, "Replace")
  BY <1>1, <1>5 DEF Hook, HeadersHook, ReplyHook, BodyHook, RoutePass,
     RouteReject, Passed, Calling, HeaderFilters, BodyFilters
<1> QED
  BY <1>1, <1>2, <1>3, <1>6

\* The route of a number can only fail for want of an address.
LEMMA MwUnusable ==
  ASSUME NEW n \in 0..MaxCount
  PROVE  Unusable(MwRoute(n)) <=> HostOf(n) \in Unresolved
<1>1. n \notin BadPaths /\ n # None
  BY RouteType, HttpFlowAssumption DEF HttpFlowAssumption
<1> QED
  BY <1>1 DEF Unusable, MwRoute

\* A reply stays; before one an error is what Fail says.
LEMMA FailStatus ==
  ASSUME NEW status \in {500, 502, 503}, Fail(status)
  PROVE  /\ phase' = "done"
         /\ Replied => reply' = reply
         /\ ~Replied => reply'.status = status
  BY DEF Fail, Written, Replied

\* Each step keeps the route of the last number.
LEMMA RouteInvStep ==
  ASSUME TypeOK, CountsOK, RouteInv, [ExampleNext]_<<vars, exampleVars>>
  PROVE  RouteInv'
<1> USE HttpFlowAssumption
    DEF HttpFlowAssumption, RouteInv, AlwaysRouted, Routed, Forwarding,
        BodyFilters, exampleVars
<1>0. /\ Len(chain) \in Nat \ {0} /\ at \in 1..(Len(chain) + 1)
      /\ \A m \in 1..Len(chain) : chain[m] \in {Mw, Noop}
      /\ tries \in Nat /\ mine \in Seq(Draws)
  BY ChainOfPlugins DEF TypeOK, CountsOK
<1>1. CASE HostStep /\ UNCHANGED exampleVars
  <2>1. CASE EarlyRequestFilter
    <3>1. <<>> # None
      BY EmptyBody
    <3>2. NoRoute \in Routes
      BY DEF NoRoute, Routes
    <3> QED
      BY <1>1, <2>1, <3>1, <3>2 DEF EarlyRequestFilter
  <2>2. CASE Skip
    <3>1. /\ at' = at + 1
          /\ UNCHANGED <<chain, phase, ctx, reply, tries, selected, mine>>
      BY <1>1, <2>2 DEF Skip
    <3>2. phase = "upstream_peer" => chain[at] # Mw
      BY <2>2, Zenon DEF Skip, HeaderFilters, Mw, Hooks
    <3>3. phase = "upstream_peer" => \A m \in 1..(at' - 1) : chain[m] # Mw
      BY <1>0, <3>1, <3>2
    <3> QED
      BY <3>1, <3>3
  <2>3. CASE RequestFilterDone
    BY <1>0, <1>1, <2>3 DEF RequestFilterDone, Finished, Respond, Written
  <2>4. CASE NoUpstreamSelected
    BY <1>0, <1>1, <2>4, FailStatus DEF NoUpstreamSelected, Finished
  <2>5. CASE Connect
    BY <1>1, <2>5, FailStatus DEF Connect
  <2>6. CASE InsertHost
    BY <1>1, <2>6 DEF InsertHost
  <2>7. CASE UpstreamRequestFilterDone
    BY <1>1, <2>7 DEF UpstreamRequestFilterDone, Finished, Respond, Written
  <2>8. CASE RequestBody
    <3>0. /\ ctx \in Contexts /\ ctx.body # None
          /\ chunk < MaxChunks => chunk + 1 \in 1..MaxChunks
      BY <2>8 DEF RequestBody, TypeOK
    <3>1. ctx'.body # None /\ ctx'.route = ctx.route
      BY <2>8, <3>0, PopulateKeeps DEF RequestBody
    <3> QED
      BY <1>1, <2>8, <3>1 DEF RequestBody
  <2>9. CASE UpstreamResponse \/ UpstreamBodyChunk
    BY <1>1, <2>9 DEF UpstreamResponse, UpstreamBodyChunk
  <2>10. CASE BodyFilterDone
    BY <1>1, <2>10 DEF BodyFilterDone, Finished, Written
  <2>11. CASE Retry
    BY <1>0, <1>1, <2>11 DEF Retry
  <2>12. CASE UpstreamBroken
    BY <1>1, <2>12, FailStatus DEF UpstreamBroken
  <2>13. CASE ClientGone
    <3>1. phase # "accepted"
      BY <2>13 DEF ClientGone, Finished, HeaderFilters
    <3>2. /\ phase' = "aborted" /\ UNCHANGED <<ctx, reply, chain, mine>>
      BY <1>1, <2>13 DEF ClientGone
    <3> QED
      BY <3>1, <3>2
  <2> QED
    BY <1>1, <2>1, <2>2, <2>3, <2>4, <2>5, <2>6, <2>7, <2>8, <2>9, <2>10,
       <2>11, <2>12, <2>13 DEF HostStep
<1>2. CASE PluginEvent
  <2>1. UNCHANGED exampleVars /\ phase # "upstream_peer"
    BY <1>2 DEF PluginEvent
  <2>2. Event.context.body = ctx.body /\ Event.context.route = ctx.route
    BY EventOutcome DEF TypeOK, Contexts
  <2>3. /\ ctx' = Event.context
        /\ UNCHANGED <<chain, phase, reply, tries, selected>>
    BY <1>2, EventSteps DEF HeadersHook, ReplyHook, BodyHook, Leaves
  <2> QED
    BY <2>1, <2>2, <2>3
<1>3. CASE MwOnRoute
  <2> DEFINE c == SetRoute(ctx, MwRoute(counter))
  <2>1. phase = "upstream_peer"
    BY <1>3 DEF MwOnRoute, Calling
  <2>2. /\ counter \in 0..MaxCount /\ mine' = Append(mine, Draw(counter))
        /\ c.route = MwRoute(counter) /\ c.body = ctx.body
        /\ RouteSelect(c, "Replace") \/ RoutePanic(c, "Replace")
    BY <1>3, <2>1, MwDecides
  <2>3. /\ mine' # <<>> /\ Len(mine') = tries
        /\ mine'[tries] = Draw(counter) /\ mine'[Len(mine')] = Draw(counter)
    BY <1>0, <2>1, <2>2
  <2>4. c.route # None
    BY <2>2, RouteType
  <2>5. CASE RouteSelect(c, "Replace")
    BY <2>1, <2>2, <2>3, <2>4, <2>5 DEF RouteSelect, Route, Leaves, MwRoute, Draw
  <2>6. CASE RoutePanic(c, "Replace")
    <3>1. HostOf(counter) \in Unresolved
      BY <2>2, <2>6, MwUnusable DEF RoutePanic
    <3> QED
      BY <2>1, <2>2, <2>3, <2>4, <2>6, <3>1 DEF RoutePanic, Route, Leaves, Draw
  <2> QED
    BY <2>2, <2>5, <2>6
<1>4. CASE OtherRequest
  BY <1>4 DEF OtherRequest, vars
<1>5. CASE UNCHANGED <<vars, exampleVars>>
  BY <1>5 DEF vars
<1> QED
  BY <1>1, <1>2, <1>3, <1>4, <1>5 DEF ExampleNext

\* From the selection of an upstream on, the route is that of the last number.
THEOREM RouteInvariance == ExampleSpec => []RouteInv
<1>1. ExampleInit => RouteInv
  BY DEF ExampleInit, Init, RouteInv, AlwaysRouted, Routed, Forwarding,
         BodyFilters
<1>2. TypeOK /\ CountsOK /\ RouteInv /\ [ExampleNext]_<<vars, exampleVars>>
        => RouteInv'
  BY RouteInvStep
<1> QED
  BY <1>1, <1>2, ExampleTypes, PTL DEF ExampleSpec

\* The middleware never leaves a request without an upstream, for any number of
\* attempts: what can go wrong is the resolution of its hosts and the upstream.
THEOREM RoutedAlways == ExampleSpec => []AlwaysRouted
<1>1. RouteInv => AlwaysRouted
  BY DEF RouteInv
<1> QED
  BY <1>1, RouteInvariance, PTL

\* A forwarded request is the one the number of its attempt decided, in address,
\* path and Host header, however often it was tried and whatever others drew.
THEOREM NumberDecides == ExampleSpec => []ForwardedByNumber
<1>1. TypeOK /\ SelectionInv /\ CountsOK /\ RouteInv => ForwardedByNumber
  <2> SUFFICES ASSUME TypeOK, SelectionInv, CountsOK, RouteInv,
                      phase \in BodyFilters \cup {"proxying"}
               PROVE  ForwardedByNumber
    BY DEF ForwardedByNumber
  <2>1. /\ mine # <<>> /\ Len(mine) = tries
        /\ selected.upstream = mine[tries].upstream
        /\ selected.http_path = mine[tries].number
    BY DEF RouteInv, Routed, Forwarding
  <2>2. mine[tries] \in Draws
    <3>1. mine \in Seq(Draws) /\ mine # <<>>
      BY <2>1 DEF CountsOK
    <3>2. Len(mine) \in Nat /\ Len(mine) # 0
      BY <3>1
    <3>3. tries \in 1..Len(mine)
      BY <2>1, <3>2
    <3> QED
      BY <3>1, <3>3, ElementInSet
  <2>3. selected.upstream \notin TlsUpstreams
    BY <2>1, <2>2 DEF Draws
  <2>4. forwarded = [peer |-> [addr |-> selected.upstream,
                               tls |-> selected.upstream \in TlsUpstreams],
                     host |-> selected.upstream, uri |-> selected.http_path]
    BY DEF SelectionInv, ForwardedAsSelected
  <2>5. (selected.upstream \in TlsUpstreams) = FALSE
    BY <2>3
  <2> QED
    BY <2>1, <2>4, <2>5 DEF ForwardedByNumber
<1> QED
  BY <1>1, RouteInvariance, ExampleTypes, PTL
=============================================================================
