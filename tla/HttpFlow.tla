------------------------------ MODULE HttpFlow ------------------------------
(***************************************************************************)
(* One downstream HTTP request on its way through the plugin chain:        *)
(* crates/vakil-runtime/src/http.rs (PluginProxyHooks as HttpProxyHooks),  *)
(* reached through crates/vakil-http/src/lib.rs (VakilHttpProxy as         *)
(* ProxyHttp).                                                             *)
(*                                                                         *)
(* Pingora calls the filters in a fixed order and may run everything from  *)
(* upstream_peer onwards again after a reused upstream connection broke.   *)
(* Inside a filter the host calls the modules of the chain in order; every *)
(* call of a plugin hook is one step here, and it is the plugin that       *)
(* chooses what the call leaves in the context and what it returns.        *)
(***************************************************************************)
EXTENDS Naturals, Sequences

CONSTANTS
  Chains,         \* plugin chains: sequences of sets of implemented hooks
  Upstreams,      \* socket addresses a plugin may put in a route
  TlsUpstreams,   \* those on port 443
  Unresolved,     \* those whose host has no address
  Paths,          \* values of http_path
  BadPaths,       \* those that are no valid URI path
  RequestUri,     \* the URI the client sent
  Statuses,       \* statuses of plugin responses: any u16
  BadStatuses,    \* those that are no HTTP status (0, 1000)
  InterimStatuses,\* the informational ones (1xx), after which another follows
  Bodies,         \* request bodies a hook may write into its context
  None,           \* absent option
  MaxTries,       \* bound: upstream attempts (Pingora's max_retries)
  MaxChunks       \* bound: request body chunks

Hooks == {"on_route", "on_request_headers", "on_request_body",
          "on_response_headers", "on_response_body", "on_trailers",
          "on_local_reply"}
Outcomes == {"Continue", "Replace", "Drop", "Err"}

\* RouteDecision without its action field, which the host never reads
Routes == [upstream : Upstreams \cup {None}, http_path : Paths \cup {None}]
NoRoute == [upstream |-> None, http_path |-> None]

Addresses == Upstreams \cup {None}
Peers == [addr : Upstreams, tls : BOOLEAN]
Replies == [by : {"request_filter", "upstream_request_filter", "upstream",
                  "error"}, status : Statuses \cup {None, 500, 502, 503}]
\* The bytes of a body: the numbers of the chunks read, 0 what a hook wrote
Contexts == [body : Seq(Nat) \cup {None}, route : Routes \cup {None},
             response : Statuses \cup {None}]
Forwards == [peer : Peers, host : Addresses, uri : Paths]

HttpFlowAssumption ==
  /\ Chains \subseteq Seq(SUBSET Hooks)
  /\ TlsUpstreams \subseteq Upstreams
  /\ Unresolved \subseteq Upstreams
  /\ BadPaths \subseteq Paths
  /\ RequestUri \in Paths \ BadPaths
  /\ BadStatuses \subseteq Statuses
  /\ InterimStatuses \subseteq Statuses \ BadStatuses
  /\ {500, 502, 503} \cap InterimStatuses = {}
  /\ Bodies \subseteq Seq(Nat)
  /\ None \notin Upstreams /\ None \notin Paths /\ None \notin Statuses
  /\ None \notin Routes /\ None \notin Replies /\ None \notin Peers
  /\ None \notin Forwards /\ None \notin Seq(Nat)
  /\ MaxTries \in Nat \ {0}
  /\ MaxChunks \in Nat
ASSUME HttpFlowAssumption

VARIABLES
  chain,          \* self.http_modules: the hooks each module implements
  phase,          \* the filter the request is in
  at,             \* the module the filter's loop has reached
  replying,       \* on_local_reply of that module is called next
  eos,            \* end_of_stream of the running response_body_filter
  ctx,            \* HttpContext: body of request, transport.route, response
  short_circuit,  \* the local of the header filters: status to answer with
  uri,            \* session.req_header().uri
  peer,           \* the peer upstream_peer chose in this attempt
  host,           \* Host header inserted into upstream_request
  forwarded,      \* the request header the upstream received last
  reply,          \* the response header the client received
  tries,          \* upstream attempts begun
  chunk,          \* request body chunks read in this attempt
  body_read,      \* the request body was read to its end in this attempt
  responded,      \* the upstream's response header was read
  selected,       \* history: the route that decided the peer
  edit            \* history: the body, and the chunks read, when a hook last
                  \* changed the body or, if that is later, the attempt began

vars == <<chain, phase, at, replying, eos, ctx, short_circuit, uri, peer, host,
          forwarded, reply, tries, chunk, body_read, responded, selected, edit>>

HeaderFilters == {"request_filter", "upstream_request_filter"}
BodyFilters == {"request_body_filter", "response_filter",
                "response_body_filter"}
Ended == {"done", "aborted", "panicked_route", "panicked_host",
          "panicked_status"}
Phases == HeaderFilters \cup BodyFilters \cup Ended \cup
          {"accepted", "upstream_peer", "connecting", "connected", "proxying"}

-----------------------------------------------------------------------------
(* The loop over the chain *)

Calling(f, h) == phase = f /\ at \in 1..Len(chain) /\ h \in chain[at]
Finished(f) == phase = f /\ at = Len(chain) + 1

\* What a hook may leave in the context it is handed: any route or none, any
\* response or none, the request as it was, with another body, or none at all.
Touched(c) == [body : Bodies \cup {c.body, None}, route : Routes \cup {None},
               response : Statuses \cup {None}]

\* A hook leaves the context c.
Leaves(c) ==
  /\ ctx' = c
  /\ edit' = IF c.body = ctx.body THEN edit
             ELSE [body |-> c.body, chunk |-> chunk]

\* match_owned(|outcome| outcome, |_| HookOutcome::default())
Action(o) == IF o = "Err" THEN "Continue" ELSE o

\* The client has its final response header.
Replied == reply # None /\ reply.status \notin InterimStatuses

\* Pingora sends one final response header and ignores a second one.
Written(r) == IF Replied THEN reply ELSE r

\* Mutants: the filter forgets to write; it reports an error and goes on.
RespondNothing(by, next) == UNCHANGED reply /\ phase' = next
FailSilently(status) == phase' = "done" /\ UNCHANGED reply
FailAndGoOn(status) == /\ phase' = "connecting"
                       /\ reply' = Written([by |-> "error", status |-> status])

\* respond_error_with_body, after which the request goes on in the given phase;
\* gen_error_response unwraps what it made of the plugin's status.
Respond(by, next) ==
  IF short_circuit \in BadStatuses
    THEN phase' = "panicked_status" /\ UNCHANGED reply
    ELSE /\ reply' = Written([by |-> by, status |-> short_circuit])
         /\ phase' = next

\* Pingora's fail_to_proxy: the status of the error, unless a header was sent
Fail(status) == /\ phase' = "done"
                /\ reply' = Written([by |-> "error", status |-> status])

Init ==
  /\ chain \in Chains
  /\ phase = "accepted" /\ at = 1 /\ replying = FALSE /\ eos = FALSE
  /\ ctx = [body |-> None, route |-> None, response |-> None]
  /\ short_circuit = None
  /\ uri = RequestUri
  /\ peer = None /\ host = None /\ forwarded = None /\ reply = None
  /\ tries = 0 /\ chunk = 0 /\ body_read = FALSE /\ responded = FALSE
  /\ selected = None /\ edit = [body |-> None, chunk |-> 0]

-----------------------------------------------------------------------------
(* early_request_filter: *ctx = session.into(). The route is the default one,  *)
(* so request_filter's rewrite of the URI from ctx.route() does nothing.       *)

EarlyRequestFilter ==
  /\ phase = "accepted"
  /\ ctx' = [body |-> <<>>, route |-> NoRoute, response |-> None]
  /\ edit' = [body |-> <<>>, chunk |-> 0]
  /\ phase' = "request_filter" /\ at' = 1
  /\ UNCHANGED <<chain, replying, eos, short_circuit, uri, peer, host,
                 forwarded, reply, tries, chunk, body_read, responded,
                 selected>>

\* The callbacks a module gets in a body filter
BodyHooks == [request_body_filter |-> {"on_request_body"},
              response_filter |-> {"on_response_headers"},
              response_body_filter |-> {"on_response_body"} \cup
                 (IF eos THEN {"on_trailers"} ELSE {})]

\* A module without the callback of the running filter is passed over.
Skip ==
  /\ at \in 1..Len(chain) /\ ~replying
  /\ \/ phase = "upstream_peer" /\ "on_route" \notin chain[at]
     \/ phase \in HeaderFilters /\ "on_request_headers" \notin chain[at]
     \/ phase \in BodyFilters /\ BodyHooks[phase] \cap chain[at] = {}
  /\ at' = at + 1
  /\ UNCHANGED <<chain, phase, replying, eos, ctx, short_circuit, uri, peer,
                 host, forwarded, reply, tries, chunk, body_read, responded,
                 selected, edit>>

-----------------------------------------------------------------------------
(* The chain of request_filter and of upstream_request_filter *)

\* Mutants: no break after a response; a reply that is missing is asked again.
NeverStop(c) ==
  /\ replying' = FALSE /\ at' = at + 1
  /\ short_circuit' = IF c.response # None THEN c.response ELSE short_circuit
AskAgain(c) ==
  /\ replying' = FALSE
  /\ IF c.response # None
       THEN short_circuit' = c.response /\ at' = Len(chain) + 1
       ELSE UNCHANGED <<short_circuit, at>>

\* After a header callback or a local-reply callback: a response ends the loop.
StopOrGoOn(c) ==
  /\ replying' = FALSE
  /\ IF c.response # None
       THEN short_circuit' = c.response /\ at' = Len(chain) + 1
       ELSE short_circuit' = short_circuit /\ at' = at + 1

Answered(c, o) == c.response # None \/ Action(o) = "Replace"

\* on_request_headers of one module leaves the context c and returns o.
HeadersHook(c, o) ==
  /\ \E f \in HeaderFilters : Calling(f, "on_request_headers")
  /\ ~replying
  /\ Leaves(c)
  /\ IF ~Answered(c, o)
       THEN at' = at + 1 /\ UNCHANGED <<replying, short_circuit>>
     ELSE IF "on_local_reply" \in chain[at]
       THEN replying' = TRUE /\ UNCHANGED <<at, short_circuit>>
     ELSE StopOrGoOn(c)
  /\ UNCHANGED <<chain, phase, eos, uri, peer, host, forwarded, reply, tries,
                 chunk, body_read, responded, selected>>

\* on_local_reply of the module that answered; its result is discarded.
ReplyHook(c) ==
  /\ phase \in HeaderFilters /\ replying
  /\ Leaves(c)
  /\ StopOrGoOn(c)
  /\ UNCHANGED <<chain, phase, eos, uri, peer, host, forwarded, reply, tries,
                 chunk, body_read, responded, selected>>

OnRequestHeaders == \E c \in Touched(ctx), o \in Outcomes : HeadersHook(c, o)
OnLocalReply == \E c \in Touched(ctx) : ReplyHook(c)

\* Mutant: Ok(false) after the answer was written
AnswerAndGoOn ==
  /\ Finished("request_filter")
  /\ IF short_circuit # None THEN Respond("request_filter", "upstream_peer")
     ELSE phase' = "upstream_peer" /\ UNCHANGED reply
  /\ at' = 1 /\ tries' = 1
  /\ UNCHANGED <<chain, replying, eos, ctx, short_circuit, uri, peer, host,
                 forwarded, chunk, body_read, responded, selected, edit>>

RequestFilterDone ==
  /\ Finished("request_filter")
  /\ \/ /\ short_circuit # None
        /\ Respond("request_filter", "done")
        /\ UNCHANGED <<at, tries>>
     \/ /\ short_circuit = None
        /\ phase' = "upstream_peer" /\ at' = 1 /\ tries' = 1
        /\ UNCHANGED reply
  /\ UNCHANGED <<chain, replying, eos, ctx, short_circuit, uri, peer, host,
                 forwarded, chunk, body_read, responded, selected, edit>>

-----------------------------------------------------------------------------
(* upstream_peer *)

\* What on_route made of the request: c the context it left, o its result
\* Mutant: Replace is taken without looking for upstream_to_set.
SelectsAnything(c, o) == c.route # None /\ Action(o) = "Replace"

Selects(c, o) == /\ c.route # None /\ Action(o) = "Replace"
                 /\ c.route.upstream # None
Rejects(c, o) == c.route # None /\ Action(o) = "Drop"
Passed(c, o) == ~Selects(c, o) /\ ~Rejects(c, o)

\* Mutant: a missing http_path is taken as it is.
UnusablePath(route) == route.http_path \in BadPaths

\* http_path.unwrap(), Uri::build().unwrap(), address resolution in HttpPeer
Unusable(route) == \/ route.http_path \in BadPaths \cup {None}
                   \/ route.upstream \in Unresolved

\* HttpPeer::new((host, port), is_port_https(port), host)
PeerOf(addr) == [addr |-> addr, tls |-> addr \in TlsUpstreams]

\* on_route of one module leaves the context c and returns o; what upstream_peer
\* does then is one of four.
Route(c) == /\ Calling("upstream_peer", "on_route")
            /\ Leaves(c)
            /\ UNCHANGED <<chain, replying, eos, short_circuit, host, forwarded,
                           tries, chunk, body_read, responded>>

RoutePass(c, o) == /\ Route(c) /\ Passed(c, o)
                   /\ at' = at + 1
                   /\ UNCHANGED <<phase, uri, peer, selected, reply>>

RouteSelect(c, o) == /\ Route(c) /\ Selects(c, o) /\ ~Unusable(c.route)
                     /\ uri' = c.route.http_path
                     /\ peer' = PeerOf(c.route.upstream)
                     /\ selected' = c.route
                     /\ phase' = "connecting"
                     /\ UNCHANGED <<at, reply>>

RoutePanic(c, o) == /\ Route(c) /\ Selects(c, o) /\ Unusable(c.route)
                    /\ phase' = "panicked_route"
                    /\ UNCHANGED <<at, uri, peer, selected, reply>>

RouteReject(c, o) == /\ Route(c) /\ Rejects(c, o)
                     /\ Fail(503)
                     /\ UNCHANGED <<at, uri, peer, selected>>

OnRoutePass == \E c \in Touched(ctx), o \in Outcomes : RoutePass(c, o)
OnRouteSelect == \E c \in Touched(ctx), o \in Outcomes : RouteSelect(c, o)
OnRoutePanic == \E c \in Touched(ctx), o \in Outcomes : RoutePanic(c, o)
OnRouteReject == \E c \in Touched(ctx), o \in Outcomes : RouteReject(c, o)

NoUpstreamSelected ==
  /\ Finished("upstream_peer")
  /\ Fail(500)
  /\ UNCHANGED <<chain, at, replying, eos, ctx, short_circuit, uri, peer, host,
                 forwarded, tries, chunk, body_read, responded, selected, edit>>

-----------------------------------------------------------------------------
(* Pingora connects, then upstream_request_filter *)

Connect ==
  /\ phase = "connecting"
  /\ \/ phase' = "connected" /\ UNCHANGED reply
     \/ Fail(502)
  /\ UNCHANGED <<chain, at, replying, eos, ctx, short_circuit, uri, peer, host,
                 forwarded, tries, chunk, body_read, responded, selected, edit>>

\* upstream_request starts as a copy of the client's header: its Host is None
InsertHost ==
  /\ phase = "connected"
  /\ LET r == ctx.route
         named == r # None /\ r.http_path # None IN
       /\ host' = IF named THEN r.upstream ELSE None
       /\ phase' = IF named /\ r.upstream = None THEN "panicked_host"
                   ELSE "upstream_request_filter"
  /\ at' = 1 /\ short_circuit' = None
  /\ UNCHANGED <<chain, replying, eos, ctx, uri, peer, forwarded, reply, tries,
                 chunk, body_read, responded, selected, edit>>

\* The answer is written, and Ok(()) lets Pingora go on with the upstream, which
\* gets the request now.
UpstreamRequestFilterDone ==
  /\ Finished("upstream_request_filter")
  /\ \/ short_circuit # None /\ Respond("upstream_request_filter", "proxying")
     \/ short_circuit = None /\ phase' = "proxying" /\ UNCHANGED reply
  /\ forwarded' = IF phase' = "proxying"
                    THEN [peer |-> peer, host |-> host, uri |-> uri]
                    ELSE forwarded
  /\ UNCHANGED <<chain, at, replying, eos, ctx, short_circuit, uri, peer, host,
                 tries, chunk, body_read, responded, selected, edit>>

-----------------------------------------------------------------------------
(* Bodies and the response *)

\* Mutant: the chunk goes in front of what the context already holds.
PrependReqBody(c, k) == IF c.body = None THEN c
                        ELSE [c EXCEPT !.body = <<k>> \o @]

PopulateReqBody(c, k) == IF c.body = None THEN c
                         ELSE [c EXCEPT !.body = Append(@, k)]

\* A chunk of the request body is read, or its end is reached without one.
RequestBody ==
  /\ phase = "proxying" /\ ~body_read
  /\ \/ /\ chunk < MaxChunks /\ chunk' = chunk + 1
        /\ ctx' = PopulateReqBody(ctx, chunk + 1)
        /\ body_read' \in BOOLEAN
     \/ /\ body_read' = TRUE /\ UNCHANGED <<ctx, chunk>>
  /\ phase' = "request_body_filter" /\ at' = 1
  /\ UNCHANGED <<chain, replying, eos, short_circuit, uri, peer, host,
                 forwarded, reply, tries, responded, selected, edit>>

UpstreamResponse ==
  /\ phase = "proxying" /\ ~responded
  /\ responded' = TRUE
  /\ phase' = "response_filter" /\ at' = 1
  /\ UNCHANGED <<chain, replying, eos, ctx, short_circuit, uri, peer, host,
                 forwarded, reply, tries, chunk, body_read, selected, edit>>

UpstreamBodyChunk ==
  /\ phase = "proxying" /\ responded /\ ~eos
  /\ eos' \in BOOLEAN
  /\ phase' = "response_body_filter" /\ at' = 1
  /\ UNCHANGED <<chain, replying, ctx, short_circuit, uri, peer, host,
                 forwarded, reply, tries, chunk, body_read, responded,
                 selected, edit>>

\* The body-filter callbacks of one module are called and leave the context c;
\* their results are discarded.
BodyHook(c) ==
  /\ phase \in BodyFilters /\ at \in 1..Len(chain)
  /\ BodyHooks[phase] \cap chain[at] # {}
  /\ Leaves(c)
  /\ at' = at + 1
  /\ UNCHANGED <<chain, phase, replying, eos, short_circuit, uri, peer, host,
                 forwarded, reply, tries, chunk, body_read, responded,
                 selected>>

OnBody == \E c \in Touched(ctx) : BodyHook(c)

BodyFilterDone ==
  /\ \E f \in BodyFilters : Finished(f)
  /\ \/ phase' = "proxying" /\ ~eos
     \/ phase' = "done" /\ eos
     \/ phase' = "done" /\ phase = "response_filter"
  /\ reply' = IF phase = "response_filter"
                THEN Written([by |-> "upstream", status |-> None])
                ELSE reply
  /\ UNCHANGED <<chain, at, replying, eos, ctx, short_circuit, uri, peer, host,
                 forwarded, tries, chunk, body_read, responded, selected, edit>>

-----------------------------------------------------------------------------
(* What goes wrong around the filters *)

\* Mutant: the next attempt keeps the peer instead of asking the plugins again.
RetrySamePeer ==
  /\ phase = "proxying" /\ ~responded /\ tries < MaxTries
  /\ phase' = "connecting" /\ at' = 1
  /\ tries' = tries + 1 /\ chunk' = 0 /\ body_read' = FALSE
  /\ edit' = [body |-> ctx.body, chunk |-> 0]
  /\ UNCHANGED <<chain, replying, eos, ctx, short_circuit, uri, peer, host,
                 forwarded, reply, responded, selected>>

\* A reused upstream connection broke before it answered: Pingora starts again
\* at upstream_peer and replays the request body.
Retry ==
  /\ phase = "proxying" /\ ~responded /\ tries < MaxTries
  /\ phase' = "upstream_peer" /\ at' = 1
  /\ tries' = tries + 1 /\ chunk' = 0 /\ body_read' = FALSE
  /\ edit' = [body |-> ctx.body, chunk |-> 0]
  /\ UNCHANGED <<chain, replying, eos, ctx, short_circuit, uri, peer, host,
                 forwarded, reply, responded, selected>>

UpstreamBroken ==
  /\ phase = "proxying" /\ ~eos
  /\ Fail(502)
  /\ UNCHANGED <<chain, at, replying, eos, ctx, short_circuit, uri, peer, host,
                 forwarded, tries, chunk, body_read, responded, selected, edit>>

\* The client went away: respond_error_with_body or a body read fails.
ClientGone ==
  /\ \/ phase = "proxying"
     \/ short_circuit # None /\ \E f \in HeaderFilters : Finished(f)
  /\ phase' = "aborted"
  /\ UNCHANGED <<chain, at, replying, eos, ctx, short_circuit, uri, peer, host,
                 forwarded, reply, tries, chunk, body_read, responded,
                 selected, edit>>

\* One hook is called; the steps of host, Pingora and the network
Hook(c, o) ==
  \/ HeadersHook(c, o) \/ ReplyHook(c) \/ BodyHook(c)
  \/ RoutePass(c, o) \/ RouteSelect(c, o) \/ RoutePanic(c, o) \/ RouteReject(c, o)
HostStep ==
  \/ EarlyRequestFilter \/ Skip \/ RequestFilterDone \/ NoUpstreamSelected
  \/ Connect \/ InsertHost \/ UpstreamRequestFilterDone
  \/ RequestBody \/ UpstreamResponse \/ UpstreamBodyChunk
  \/ BodyFilterDone \/ Retry \/ UpstreamBroken \/ ClientGone

Next ==
  \/ EarlyRequestFilter \/ Skip
  \/ OnRequestHeaders \/ OnLocalReply \/ RequestFilterDone
  \/ OnRoutePass \/ OnRouteSelect \/ OnRoutePanic \/ OnRouteReject
  \/ NoUpstreamSelected \/ Connect \/ InsertHost \/ UpstreamRequestFilterDone
  \/ RequestBody \/ UpstreamResponse \/ UpstreamBodyChunk \/ OnBody
  \/ BodyFilterDone \/ Retry \/ UpstreamBroken \/ ClientGone

Spec == Init /\ [][Next]_vars

\* Where the request's task waits for the network: for the connection, for the
\* next piece from either side, for the client to take an answer, or, behind a
\* body filter, for either side to take what was filtered. HttpPeer::new sets no
\* timeout for any of it, so nothing makes a silent peer come back.
Waiting ==
  \/ phase \in {"connecting", "proxying"}
  \/ short_circuit # None /\ \E f \in HeaderFilters : Finished(f)
  \/ \E f \in BodyFilters : Finished(f)

\* A step of Next in which the task waits for nobody, ctx' being what the hook left
OwnStep ==
  /\ ~Waiting
  /\ \/ HostStep
     \/ ctx' \in Touched(ctx) /\ \E o \in Outcomes : Hook(ctx', o)

\* Hooks return and Tokio polls a task that does not wait; that is all the
\* fairness there is.
FairSpec == Spec /\ WF_vars(OwnStep)

-----------------------------------------------------------------------------
(* Properties *)

\* Every variable stays in its type, whatever the plugins do to the context.
TypeOK ==
  /\ chain \in Chains
  /\ phase \in Phases
  /\ at \in 1..(Len(chain) + 1)
  /\ replying \in BOOLEAN /\ eos \in BOOLEAN
  /\ ctx \in Contexts
  /\ short_circuit \in Statuses \cup {None}
  /\ uri \in Paths \ BadPaths
  /\ peer \in Peers \cup {None}
  /\ host \in Addresses
  /\ forwarded \in Forwards \cup {None}
  /\ reply \in Replies \cup {None}
  /\ tries \in 0..MaxTries /\ chunk \in 0..MaxChunks /\ body_read \in BOOLEAN
  /\ responded \in BOOLEAN
  /\ selected \in Routes \cup {None}
  /\ edit \in [body : Seq(Nat) \cup {None}, chunk : 0..MaxChunks]

\* The unwrap of upstream_to_set in upstream_request_filter cannot panic:
\* whatever hooks do to the route, across attempts too, the route they leave
\* when upstream_peer returns a peer names an upstream.
HostUnwrapSafe == phase # "panicked_host"

\* While a request is with an upstream, the address it was sent to, the TLS
\* choice, the Host header and the URI all stem from the one RouteDecision that
\* selected the peer, although peer and URI are taken from it in upstream_peer,
\* the Host later and from a context that hooks keep rewriting.
ForwardedAsSelected ==
  phase \in BodyFilters \cup {"proxying"} =>
    forwarded = [peer |-> [addr |-> selected.upstream,
                           tls |-> selected.upstream \in TlsUpstreams],
                 host |-> selected.upstream,
                 uri |-> selected.http_path]

\* The strengthening that makes the two inductive: from the moment upstream_peer
\* returned, peer and URI are those of the selected route, and until the Host is
\* inserted that route is still the one in the context. (A local reply is only
\* ever pending for a module of the chain.)
PeerSelected ==
  /\ selected \in Routes
  /\ selected.upstream # None /\ selected.http_path # None
  /\ peer = PeerOf(selected.upstream) /\ uri = selected.http_path
SelectionInv ==
  /\ replying => phase \in HeaderFilters /\ at \in 1..Len(chain)
  /\ phase \in {"connecting", "connected"} =>
       PeerSelected /\ ctx.route = selected
  /\ phase = "upstream_request_filter" =>
       PeerSelected /\ host = selected.upstream
  /\ phase \in BodyFilters \cup {"proxying"} => PeerSelected
  /\ ForwardedAsSelected
  /\ HostUnwrapSafe

\* No header callback of request_filter runs once a response is in the context,
\* and in upstream_request_filter none runs after a module that left one there:
\* later modules cannot undo the answer.
ResponseStopsChain ==
  phase \in HeaderFilters /\ ~replying /\ at \in 1..Len(chain) =>
    \/ ctx.response = None
    \/ /\ phase = "upstream_request_filter"
       /\ \A m \in 1..(at - 1) : "on_request_headers" \notin chain[m]

\* A request answered in request_filter never reaches routing or an upstream.
AnsweredBeforeRouting ==
  reply # None /\ reply.by = "request_filter" =>
    tries = 0 /\ peer = None /\ forwarded = None

\* Once the client got an error (a plugin's rejection, no upstream, a broken
\* one), nothing more is sent upstream for the request.
RejectionFinal ==
  [][reply # None /\ reply.by = "error" => UNCHANGED forwarded]_vars

\* A request leaves the proxy with a final answer, unless its client went away, a
\* plugin's route made upstream_peer panic or a plugin's status, being none of
\* HTTP, made respond_error_with_body panic. Only an informational response from
\* request_filter ends it with nothing behind it.
EndedAnswered ==
  phase = "done" => Replied \/ (reply # None /\ reply.by = "request_filter")

\* The client gets the upstream's response only if no plugin answered locally
\* with a final status.
LocalAnswerWins ==
  reply # None /\ reply.by = "upstream" => short_circuit \in InterimStatuses \cup {None}

\* The strengthening that makes the answer's properties inductive: nothing was
\* tried before request_filter ended, who may have answered follows from where the
\* request is, and from the response header on the client has an answer.
Forwarding == BodyFilters \cup {"proxying"}
AnswerInv ==
  /\ phase \in {"accepted", "request_filter"} =>
       tries = 0 /\ peer = None /\ forwarded = None /\ reply = None
  /\ reply # None /\ reply.by = "request_filter" => phase \in {"done", "aborted"}
  /\ reply # None /\ reply.by = "error" => phase = "done"
  /\ reply # None /\ reply.by = "upstream" => responded
  /\ responded => phase \in Forwarding \cup Ended
  /\ phase \in {"response_filter", "response_body_filter"} => responded
  /\ eos => phase \in {"response_body_filter"} \cup Ended
  /\ phase \in Forwarding /\ short_circuit \notin InterimStatuses \cup {None} => Replied
  /\ phase \in Forwarding \ {"response_filter"} /\ responded => Replied
  /\ AnsweredBeforeRouting /\ EndedAnswered /\ LocalAnswerWins

\* The host only ever appends to the body hooks share: what a hook last left there,
\* or what was there when the attempt began, is followed by exactly the chunks read
\* since, each once and in order, whichever module or filter edits the body, takes
\* the request away or puts one back. On a retry the replayed chunks come behind
\* the old ones.
BodySeenInOrder ==
  ctx.body = IF edit.body = None THEN None
             ELSE edit.body \o [k \in 1..(chunk - edit.chunk) |-> edit.chunk + k]

\* The strengthening that makes it inductive: no chunk was read when the context
\* is made, and an attempt does not lose chunks it has read.
BodyInv ==
  /\ phase = "accepted" => chunk = 0
  /\ edit.chunk <= chunk
  /\ BodySeenInOrder

\* Every request gets its final answer or ends, unless from some point on the proxy
\* waits for a peer that stays silent: no chain of plugin outcomes, retries and
\* body chunks keeps it busy for ever.
EventuallyReplied == <>(Replied \/ phase \in Ended) \/ <>[]Waiting

\* How far an attempt is. With every filter that is passed and every piece of the
\* request body that is read it grows, up to the response header.
Pieces == chunk + IF body_read THEN 1 ELSE 0
Place == [accepted |-> 1, request_filter |-> 2, upstream_peer |-> 3,
          connecting |-> 4, connected |-> 5, upstream_request_filter |-> 6,
          request_body_filter |-> 2 * Pieces + 7, proxying |-> 2 * Pieces + 8,
          response_filter |-> 2 * MaxChunks + 11,
          response_body_filter |-> 2 * MaxChunks + 11][phase]

\* Why: until then each step leads on, in a bounded number of attempts, of places
\* in an attempt and of modules in a chain. No step, whatever a hook leaves
\* behind, takes the request back to where it was.
LeadsOn ==
  \/ tries' > tries
  \/ tries' = tries /\ Place' > Place
  \/ tries' = tries /\ Place' = Place /\ at' > at
  \/ tries' = tries /\ Place' = Place /\ at' = at /\ replying' /\ ~replying
NearerReply ==
  [][~Replied /\ phase \notin Ended =>
       Replied' \/ phase' \in Ended \/ LeadsOn]_vars

-----------------------------------------------------------------------------
(* What docs/ABI.md says and the code does not do *)

\* A body hook is shown one chunk, not the body so far.
BodyHookSeesChunk ==
  phase = "request_body_filter" /\ ctx.body # None => Len(ctx.body) <= 1
=============================================================================
