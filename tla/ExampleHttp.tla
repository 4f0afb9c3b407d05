----------------------------- MODULE ExampleHttp -----------------------------
(***************************************************************************)
(* The HTTP plugins of the repository in the chain of HttpFlow:            *)
(* plugins/example-http-mw and plugins/example-noop, in any order and      *)
(* number. The middleware routes a request by the number it draws from a   *)
(* counter that all requests of the process share; both answer             *)
(* GET /local-reply themselves.                                            *)
(***************************************************************************)
EXTENDS HttpFlow

CONSTANTS
  Dev, Org, Echo, \* httpbin.dev, httpbin.org, echo.free.beeceptor.com, port 80
  MaxCount        \* bound: numbers drawn from the counter

\* A plugin is known by the hooks it implements.
Mw == Hooks
Noop == Hooks \ {"on_route"}

\* The path of a route is the number in its query; 200 is the status of answers.
ExampleHttpAssumption ==
  /\ Chains \subseteq Seq({Mw, Noop}) \ {<<>>}
  /\ {Dev, Org, Echo} \subseteq Upstreams \ TlsUpstreams
  /\ MaxCount \in Nat /\ 0..MaxCount \subseteq Paths \ BadPaths
  /\ 200 \in Statuses \ (BadStatuses \cup InterimStatuses)
ASSUME ExampleHttpAssumption

VARIABLES
  local_reply,    \* the client's request is GET /local-reply
  counter,        \* REQUEST_COUNTER
  mine,           \* history: the numbers drawn for this request, each with the
                  \* upstream the middleware decided on for it
  others          \* history: the numbers drawn for other requests

exampleVars == <<local_reply, counter, mine, others>>

ExampleInit ==
  /\ Init
  /\ local_reply \in BOOLEAN
  /\ counter = 0 /\ mine = <<>> /\ others = {}

-----------------------------------------------------------------------------
(* What the plugins' callbacks leave and return *)

Result(c, o) == [context |-> c, outcome |-> o]
Unchanged == Result(ctx, "Continue")

\* Mutant: a status that is none.
AnswersZero == Result([ctx EXCEPT !.response = 0], "Replace")

Answers == Result([ctx EXCEPT !.response = 200], "Replace")

\* Mutant: Replace without a response.
MwForgetsResponse == IF local_reply THEN Result(ctx, "Replace") ELSE Unchanged

MwOnRequestHeaders ==
  IF ctx.body # None /\ local_reply THEN Answers ELSE Unchanged

\* The other callbacks of the middleware only log.
MwEvent ==
  IF phase \in HeaderFilters /\ ~replying THEN MwOnRequestHeaders ELSE Unchanged

NoopOnHttpEvent ==
  IF local_reply /\ ctx.response = None THEN Answers ELSE Unchanged

Event == IF chain[at] = Mw THEN MwEvent ELSE NoopOnHttpEvent

HostOf(n) == CASE n % 3 = 1 -> Dev [] n % 3 = 2 -> Org [] OTHER -> Echo

\* Mutant: the path is left out.
MwRouteNoPath(n) == [upstream |-> HostOf(n), http_path |-> None]

MwRoute(n) == [upstream |-> HostOf(n), http_path |-> n]
Draw(n) == [number |-> n, upstream |-> HostOf(n)]
Draws == [number : 0..MaxCount, upstream : Upstreams \ TlsUpstreams]

\* Mutant: a route that names an upstream already is left.
SetFirstRoute(c, r) == IF c.route.upstream # None THEN c
                       ELSE [c EXCEPT !.route = r]

\* HttpContext::set_route
SetRoute(c, r) == [c EXCEPT !.route = r]

-----------------------------------------------------------------------------
(* The plugins are called *)

\* Any callback but on_route; the no-op plugin's unwrap of the request aborts the
\* process if there is none.
PluginEvent ==
  /\ phase # "upstream_peer" /\ at \in 1..Len(chain)
  /\ chain[at] = Noop => ctx.body # None
  /\ Hook(Event.context, Event.outcome)
  /\ UNCHANGED exampleVars

\* Mutant: the counter goes round with the hosts.
Rotated(n) == (n + 1) % 3

\* REQUEST_COUNTER.fetch_add(1)
FetchAdd(n) == n + 1

\* on_route of the middleware: a number is drawn before set_route can fail.
MwOnRoute ==
  /\ Calling("upstream_peer", "on_route")
  /\ IF ctx.body = None
       THEN Hook(ctx, "Err") /\ UNCHANGED exampleVars
       ELSE /\ counter < MaxCount
            /\ counter' = FetchAdd(counter) /\ mine' = Append(mine, Draw(counter))
            /\ IF ctx.route = None THEN Hook(ctx, "Err")
               ELSE Hook(SetRoute(ctx, MwRoute(counter)), "Replace")
            /\ UNCHANGED <<local_reply, others>>

\* Another request, on another thread, draws a number.
OtherRequest ==
  /\ counter < MaxCount - MaxTries
  /\ counter' = FetchAdd(counter) /\ others' = others \cup {counter}
  /\ UNCHANGED <<vars, local_reply, mine>>

ExampleNext ==
  \/ HostStep /\ UNCHANGED exampleVars
  \/ PluginEvent \/ MwOnRoute \/ OtherRequest

ExampleSpec == ExampleInit /\ [][ExampleNext]_<<vars, exampleVars>>

-----------------------------------------------------------------------------
(* Properties *)

\* With either plugin first, GET /local-reply is answered with their response in
\* request_filter, draws no number and reaches no upstream.
LocalReplyKept ==
  local_reply =>
    /\ mine = <<>> /\ tries = 0 /\ forwarded = None
    /\ reply \in {None, [by |-> "request_filter", status |-> 200]}
    /\ phase = "done" => reply # None

\* The strengthening that makes it inductive: the first module answers, its own
\* on_local_reply keeps the answer, and the loop ends with it.
LocalInv ==
  local_reply =>
    /\ mine = <<>> /\ tries = 0 /\ forwarded = None
    /\ \/ /\ phase = "accepted" /\ reply = None
          /\ ~replying /\ short_circuit = None
       \/ /\ phase = "request_filter" /\ reply = None /\ ctx.body # None
          /\ \/ at = 1 /\ ~replying /\ short_circuit = None /\ ctx.response = None
             \/ at = 1 /\ replying /\ ctx.response = 200
             \/ at = Len(chain) + 1 /\ ~replying /\ short_circuit = 200
       \/ phase = "done" /\ reply = [by |-> "request_filter", status |-> 200]
       \/ phase = "aborted" /\ reply = None

\* Whichever upstreams the middleware decides on: one number is drawn for each
\* attempt, and address, path and Host header of a forwarded request are those of
\* the number drawn in this attempt, never of one before, although the context still
\* holds the route of the last attempt and other requests draw in between.
ForwardedByNumber ==
  phase \in BodyFilters \cup {"proxying"} =>
    /\ Len(mine) = tries
    /\ LET draw == mine[tries] IN
         forwarded = [peer |-> [addr |-> draw.upstream, tls |-> FALSE],
                      host |-> draw.upstream, uri |-> draw.number]

\* A number is drawn once in the process: retries and other requests get new ones.
NumbersUnique ==
  \A i \in DOMAIN mine :
    /\ mine[i].number \notin others
    /\ \A j \in 1..(i - 1) : mine[j].number # mine[i].number

\* With the middleware in the chain a request that is not answered locally always
\* gets an upstream: no plugin rejects it, none is missing, and upstream_peer
\* panics only if the host does not resolve.
AlwaysRouted ==
  /\ phase = "panicked_route" =>
       mine # <<>> /\ mine[Len(mine)].upstream \in Unresolved
  /\ reply # None /\ reply.by = "error" /\ (\E m \in DOMAIN chain : chain[m] = Mw)
       => reply.status = 502

\* The strengthening that makes the last two inductive: the context has a request
\* and a route from the first filter on, the middleware decides as soon as it is
\* asked, and from then on the selected route is that of the last number.
Routed == {"connecting", "connected", "upstream_request_filter"} \cup Forwarding
RouteInv ==
  /\ phase # "accepted" => ctx.body # None /\ ctx.route # None
  /\ phase \in {"accepted", "request_filter"} => mine = <<>> /\ tries = 0
  /\ phase = "upstream_peer" =>
       Len(mine) + 1 = tries /\ \A m \in 1..(at - 1) : chain[m] # Mw
  /\ phase \in Routed =>
       /\ mine # <<>> /\ Len(mine) = tries
       /\ selected = [upstream |-> mine[tries].upstream,
                      http_path |-> mine[tries].number]
  /\ AlwaysRouted

\* The plugins are among those HttpFlow ranges over: what holds for it holds here.
ImplementsHttpFlow == Spec
=============================================================================
